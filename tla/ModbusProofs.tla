---------------------------- MODULE ModbusProofs ----------------------------
(***************************************************************************)
(* Machine-checked proofs about ModbusSlave and ModbusMaster, for every    *)
(* number of slaves and tasks, every set of items, values and requests.    *)
(***************************************************************************)
EXTENDS ModbusMaster, SequenceTheorems, FiniteSetTheorems, TLAPS

-----------------------------------------------------------------------------
(* Requests. *)

Octet == Byte \cup {ANY}

LEMMA RequestFields ==
  ASSUME NEW f \in Request
  PROVE  /\ f.addr \in Byte /\ f.fc \in Byte /\ f.start \in Items /\ f.count \in Word
         /\ f.vals \in Seq(Values) /\ f.ndata \in Nat /\ f.bytes \in Byte
         /\ f.fc \in Writes => Len(f.vals) = f.count
         /\ f.fc \in {5, 6} => f.count = 1
         /\ f.fc \in {5, 15} => f.vals \in Seq(Bit)
BY DEF Request

LEMMA WordIs == \A v \in Word : v \in Nat /\ v < 65536
BY DEF Word

LEMMA ByteIs == \A v : v \in Byte <=> v \in Nat /\ v < 256
BY DEF Byte

LEMMA OctetIs == \A v \in Nat : v <= 256 => v \in Octet
BY DEF Octet, Byte, ANY

LEMMA RequestNumbers ==
  ASSUME NEW f \in Request
  PROVE  /\ f.addr \in Nat /\ f.addr < 256 /\ f.fc \in Nat /\ f.fc < 256
         /\ f.start \in Nat /\ f.start \in Word /\ f.count \in Nat /\ f.count \in Word
<1>1. f.addr \in Byte /\ f.fc \in Byte /\ f.start \in Word /\ f.count \in Word
  BY RequestFields, WordAssumption
<1>2. \A v \in Byte : v \in Nat
  BY DEF Byte
<1> QED BY <1>1, <1>2, WordIs, ByteIs

LEMMA NumberIsNat ==
  ASSUME NEW f \in Request, NEW i \in Nat
  PROVE  Number(f, i) \in Nat
<1>1. f.start \in Nat /\ f.start + i - 1 \in Int
  BY RequestNumbers
<1> QED BY <1>1 DEF Number

LEMMA ValuesAreNumbers ==
  ASSUME NEW v \in Values
  PROVE  v \in Nat /\ v \in Word
BY WordAssumption, WordIs

LEMMA TableOf == \A fc : Table(fc) \in Tables
BY DEF Table, Tables

LEMMA KnownAreItems ==
  ASSUME NEW k \in Tables
  PROVE  Known[k] \subseteq Items
BY SlaveAssumption

-----------------------------------------------------------------------------
(* Replies: their lengths and bytes. *)

LEMMA Glued ==
  ASSUME NEW x \in Seq(Octet), NEW y \in Seq(Octet)
  PROVE  /\ x \o y \in Seq(Octet) /\ Len(x \o y) = Len(x) + Len(y)
         /\ Len(x) \in Nat /\ Len(y) \in Nat
OBVIOUS

LEMMA GluedLeft ==
  ASSUME NEW x \in Seq(Octet), NEW y \in Seq(Octet), NEW i \in 1 .. Len(x)
  PROVE  (x \o y)[i] = x[i]
<1>1. Len(x) \in Nat /\ Len(y) \in Nat
  BY LenProperties
<1>2. (x \o y)[i] = IF i <= Len(x) THEN x[i] ELSE y[i - Len(x)]
  BY <1>1, ConcatProperties
<1> QED BY <1>1, <1>2

LEMMA GluedRight ==
  ASSUME NEW x \in Seq(Octet), NEW y \in Seq(Octet), NEW i \in 1 .. Len(y),
         NEW k, k = Len(x) + i
  PROVE  (x \o y)[k] = y[i]
<1>1. Len(x) \in Nat /\ Len(y) \in Nat
  BY LenProperties
<1>2. k \in 1 .. Len(x) + Len(y) /\ ~(k <= Len(x)) /\ k - Len(x) = i
  BY <1>1
<1>3. (x \o y)[k] = IF k <= Len(x) THEN x[k] ELSE y[k - Len(x)]
  BY <1>1, <1>2, ConcatProperties
<1> QED BY <1>2, <1>3

LEMMA BytesOfWord ==
  ASSUME NEW v \in Word
  PROVE  /\ WordBytes(v) \in Seq(Octet) /\ Len(WordBytes(v)) = 2
         /\ v = 256 * WordBytes(v)[1] + WordBytes(v)[2]
<1> DEFINE h == v \div 256
           l == v % 256
<1>0. v \in Nat
  BY WordIs
<1>1. h \in Nat /\ h < 256
  BY WordIs
<1>2. l \in Nat /\ l < 256
  BY <1>0
<1>3. v = 256 * h + l
  BY <1>0
<1>4. WordBytes(v) = <<h, l>>
  BY DEF WordBytes
<1> HIDE DEF h, l
<1>5. h \in Octet /\ l \in Octet
  BY <1>1, <1>2, OctetIs
<1>6. <<h, l>> \in Seq(Octet) /\ Len(<<h, l>>) = 2 /\ <<h, l>>[1] = h /\ <<h, l>>[2] = l
  BY <1>5
<1>7. v = 256 * WordBytes(v)[1] + WordBytes(v)[2]
  BY <1>3, <1>4, <1>6
<1> QED BY <1>4, <1>6, <1>7

(* The bytes of a register: the last two tell its value. *)
LEMMA BytesOfItem ==
  ASSUME NEW a \in Nat, NEW v \in Word
  PROVE  /\ ItemBytes(a, v) \in Seq(Octet) /\ Len(ItemBytes(a, v)) = Width(a)
         /\ Width(a) \in {2, 4}
         /\ v = 256 * ItemBytes(a, v)[Width(a) - 1] + ItemBytes(a, v)[Width(a)]
<1> DEFINE y == WordBytes(v)
<1>1. y \in Seq(Octet) /\ Len(y) = 2
  BY BytesOfWord
<1>2. v = 256 * y[1] + y[2]
  BY BytesOfWord
<1>3. CASE a < FpStart
  BY <1>1, <1>2, <1>3 DEF ItemBytes, Width
<1>4. CASE ~(a < FpStart)
  <2> DEFINE z == <<0, 0>>
  <2>1. z \in Seq(Octet) /\ Len(z) = 2
    BY OctetIs
  <2>2. ItemBytes(a, v) = z \o y /\ Width(a) = 4
    BY <1>4 DEF ItemBytes, Width
  <2> HIDE DEF y, z
  <2>3. z \o y \in Seq(Octet) /\ Len(z \o y) = Len(z) + Len(y)
    BY <1>1, <2>1, Glued
  <2>4. (z \o y)[3] = y[1] /\ (z \o y)[4] = y[2]
    <3>1. 1 \in 1 .. Len(y) /\ 2 \in 1 .. Len(y) /\ 3 = Len(z) + 1 /\ 4 = Len(z) + 2
      BY <1>1, <2>1
    <3> QED BY <1>1, <2>1, <3>1, GluedRight
  <2>5. Width(a) - 1 = 3 /\ Len(z \o y) = 4
    BY <1>1, <2>1, <2>2, <2>3
  <2>6. v = 256 * ItemBytes(a, v)[Width(a) - 1] + ItemBytes(a, v)[Width(a)]
    BY <1>2, <2>2, <2>4, <2>5
  <2> QED BY <2>2, <2>3, <2>5, <2>6
<1> QED BY <1>3, <1>4

LEMMA CRCBytes == CRC \in Seq(Octet) /\ Len(CRC) = 2
BY DEF CRC, Octet

LEMMA ThreeBytes ==
  ASSUME NEW a \in Octet, NEW b \in Octet, NEW c \in Octet
  PROVE  <<a, b, c>> \in Seq(Octet) /\ Len(<<a, b, c>>) = 3
OBVIOUS

LEMMA ExceptionSays ==
  ASSUME NEW f \in Request, NEW code \in 1 .. 4
  PROVE  /\ ExceptionBytes(f, code) \in Seq(Octet) /\ Len(ExceptionBytes(f, code)) = 5
         /\ ExceptionBytes(f, code)[2] = 128 + (f.fc % 128)
         /\ ExceptionBytes(f, code)[3] = code
<1> DEFINE y == <<f.addr, 128 + (f.fc % 128), code>>
<1>1. f.addr \in Octet /\ 128 + (f.fc % 128) \in Octet /\ code \in Octet
  BY RequestNumbers, OctetIs
<1>2. /\ y \in Seq(Octet) /\ Len(y) = 3
      /\ y[2] = 128 + (f.fc % 128) /\ y[3] = code
  BY <1>1, ThreeBytes
<1> HIDE DEF y
<1>3. ExceptionBytes(f, code) = y \o CRC
  BY DEF ExceptionBytes, y
<1>4. 2 \in 1 .. Len(y) /\ 3 \in 1 .. Len(y)
  BY <1>2
<1>5. (y \o CRC)[2] = y[2] /\ (y \o CRC)[3] = y[3]
  BY <1>2, <1>4, CRCBytes, GluedLeft
<1>6. y \o CRC \in Seq(Octet) /\ Len(y \o CRC) = Len(y) + Len(CRC)
  BY <1>2, CRCBytes, Glued
<1>7. Len(y \o CRC) = 5
  BY <1>2, <1>6, CRCBytes
<1> QED BY <1>2, <1>3, <1>5, <1>6, <1>7

LEMMA EchoSays ==
  ASSUME NEW f \in Request, f.fc \in Writes
  PROVE  EchoBytes(f) \in Seq(Octet) /\ Len(EchoBytes(f)) = 8 /\ EchoBytes(f)[2] = f.fc
<1> DEFINE head == <<f.addr, f.fc>>
           start == WordBytes(f.start)
           echoed == CASE f.fc = 5 -> <<255 * f.vals[1], 0>>
                       [] f.fc = 6 -> SubSeq(ItemBytes(f.start, f.vals[1]), 1, 2)
                       [] OTHER    -> WordBytes(f.count)
<1>1. head \in Seq(Octet) /\ Len(head) = 2 /\ head[2] = f.fc
  BY RequestNumbers, OctetIs
<1>2. start \in Seq(Octet) /\ Len(start) = 2
  BY RequestNumbers, BytesOfWord
<1>3. echoed \in Seq(Octet) /\ Len(echoed) = 2
  <2>1. CASE f.fc = 5
    <3>1. f.vals \in Seq(Bit) /\ Len(f.vals) = 1
      BY <2>1, RequestFields
    <3>2. f.vals[1] \in {0, 1}
      BY <3>1, ElementOfSeq DEF Bit
    <3>3. 255 * f.vals[1] \in Octet /\ 0 \in Octet
      BY <3>2, OctetIs
    <3> QED BY <2>1, <3>3
  <2>2. CASE f.fc = 6
    <3>1. f.vals \in Seq(Values) /\ Len(f.vals) = 1
      BY <2>2, RequestFields
    <3>2. f.vals[1] \in Word /\ f.start \in Nat
      BY <3>1, ElementOfSeq, ValuesAreNumbers, RequestNumbers
    <3> DEFINE y == ItemBytes(f.start, f.vals[1])
    <3>3. y \in Seq(Octet) /\ Len(y) \in {2, 4}
      BY <3>2, BytesOfItem
    <3> HIDE DEF y
    <3>4. SubSeq(y, 1, 2) \in Seq(Octet) /\ Len(SubSeq(y, 1, 2)) = 2
      BY <3>3, SubSeqProperties
    <3> QED BY <2>2, <3>4 DEF y
  <2>3. CASE f.fc \notin {5, 6}
    <3> QED BY <2>3, RequestNumbers, BytesOfWord
  <2> QED BY <2>1, <2>2, <2>3
<1>4. EchoBytes(f) = ((head \o start) \o echoed) \o CRC
  BY DEF EchoBytes
<1> HIDE DEF head, start, echoed
<1> DEFINE y == head \o start
           z == y \o echoed
<1>5. y \in Seq(Octet) /\ Len(y) = 4
  <2>1. y \in Seq(Octet) /\ Len(y) = Len(head) + Len(start)
    BY <1>1, <1>2, Glued
  <2> QED BY <1>1, <1>2, <2>1
<1>6. y[2] = f.fc
  <2>1. 2 \in 1 .. Len(head)
    BY <1>1
  <2>2. y[2] = head[2]
    BY <1>1, <1>2, <2>1, GluedLeft
  <2> QED BY <1>1, <2>2
<1> HIDE DEF y
<1>7. z \in Seq(Octet) /\ Len(z) = 6
  <2>1. z \in Seq(Octet) /\ Len(z) = Len(y) + Len(echoed)
    BY <1>3, <1>5, Glued
  <2> QED BY <1>3, <1>5, <2>1
<1>8. z[2] = f.fc
  <2>1. 2 \in 1 .. Len(y)
    BY <1>5
  <2>2. z[2] = y[2]
    BY <1>3, <1>5, <2>1, GluedLeft
  <2> QED BY <1>6, <2>2
<1> HIDE DEF z
<1>9. z \o CRC \in Seq(Octet) /\ Len(z \o CRC) = 8
  <2>1. z \o CRC \in Seq(Octet) /\ Len(z \o CRC) = Len(z) + Len(CRC)
    BY <1>7, CRCBytes, Glued
  <2> QED BY <1>7, <2>1, CRCBytes
<1>10. (z \o CRC)[2] = f.fc
  <2>1. 2 \in 1 .. Len(z)
    BY <1>7
  <2>2. (z \o CRC)[2] = z[2]
    BY <1>7, <2>1, CRCBytes, GluedLeft
  <2> QED BY <1>8, <2>2
<1> QED BY <1>4, <1>9, <1>10 DEF y, z

(* Eight bits make a byte, and each can be taken out of it again (bit_mask *)
(* of mbs_fc01_coil_read and of mbm_coil_di_read_resp).                    *)
LEMMA PackedBits ==
  ASSUME NEW items, \A i \in DOMAIN items : items[i][2] \in Bit, NEW j \in Nat
  PROVE  /\ PackedByte(items, j) \in Octet
         /\ \A m \in 1 .. 8 : 8 * (j - 1) + m \in DOMAIN items =>
              (PackedByte(items, j) \div Mask[m]) % 2 = items[8 * (j - 1) + m][2]
<1> DEFINE bit(i) == IF 8 * (j - 1) + i \in DOMAIN items THEN items[8 * (j - 1) + i][2] ELSE 0
           x == PackedByte(items, j)
<1>1. \A i \in 1 .. 8 : bit(i) \in Bit
  BY DEF Bit
<1>2. x = bit(1) + 2 * bit(2) + 4 * bit(3) + 8 * bit(4)
            + 16 * bit(5) + 32 * bit(6) + 64 * bit(7) + 128 * bit(8)
  BY DEF PackedByte
<1>3. \A m \in 1 .. 8 : 8 * (j - 1) + m \in DOMAIN items => bit(m) = items[8 * (j - 1) + m][2]
  OBVIOUS
<1> HIDE DEF bit, x
<1>4. /\ bit(1) \in Bit /\ bit(2) \in Bit /\ bit(3) \in Bit /\ bit(4) \in Bit
      /\ bit(5) \in Bit /\ bit(6) \in Bit /\ bit(7) \in Bit /\ bit(8) \in Bit
  BY <1>1
<1>5. x \in Nat /\ x < 256
  BY <1>2, <1>4 DEF Bit
<1>6. ASSUME NEW m \in 1 .. 8 PROVE (x \div Mask[m]) % 2 = bit(m)
  <2>1. /\ Mask[1] = 1 /\ Mask[2] = 2 /\ Mask[3] = 4 /\ Mask[4] = 8
        /\ Mask[5] = 16 /\ Mask[6] = 32 /\ Mask[7] = 64 /\ Mask[8] = 128
    BY DEF Mask
  <2>2. (x \div 1) % 2 = bit(1)
    BY <1>2, <1>4 DEF Bit
  <2>3. (x \div 2) % 2 = bit(2)
    BY <1>2, <1>4 DEF Bit
  <2>4. (x \div 4) % 2 = bit(3)
    BY <1>2, <1>4 DEF Bit
  <2>5. (x \div 8) % 2 = bit(4)
    BY <1>2, <1>4 DEF Bit
  <2>6. (x \div 16) % 2 = bit(5)
    BY <1>2, <1>4 DEF Bit
  <2>7. (x \div 32) % 2 = bit(6)
    BY <1>2, <1>4 DEF Bit
  <2>8. (x \div 64) % 2 = bit(7)
    BY <1>2, <1>4 DEF Bit
  <2>9. (x \div 128) % 2 = bit(8)
    BY <1>2, <1>4 DEF Bit
  <2>10. m \in {1, 2, 3, 4, 5, 6, 7, 8}
    OBVIOUS
  <2> QED BY <2>1, <2>2, <2>3, <2>4, <2>5, <2>6, <2>7, <2>8, <2>9, <2>10
<1> QED BY <1>3, <1>5, <1>6, OctetIs DEF x

(* Where the bytes of a register are. *)
LEMMA WidthIs == \A a : Width(a) \in {2, 4}
BY DEF Width

LEMMA BeforeGrows ==
  ASSUME NEW f \in Request, NEW n \in Nat, n >= 1
  PROVE  Before(f, n) \in Nat /\ Before(f, n + 1) = Before(f, n) + Width(Number(f, n))
<1> DEFINE W(i) == Width(Number(f, i)) = 4
           A == {k \in 1 .. n - 1 : W(k)}
           B == {k \in 1 .. (n + 1) - 1 : W(k)}
<1>1. Before(f, n) = 2 * (n - 1) + 2 * Cardinality(A)
  BY DEF Before
<1>2. Before(f, n + 1) = 2 * ((n + 1) - 1) + 2 * Cardinality(B)
  BY DEF Before
<1>3. IsFiniteSet(1 .. n - 1)
  BY FS_Interval
<1>4. IsFiniteSet(A) /\ Cardinality(A) \in Nat
  <2>1. A \subseteq 1 .. n - 1
    OBVIOUS
  <2> HIDE DEF A
  <2> QED BY <1>3, <2>1, FS_Subset, FS_CardinalityType
<1>5. CASE W(n)
  <2>1. B = A \cup {n} /\ n \notin A
    BY <1>5
  <2>2. Width(Number(f, n)) = 4
    BY <1>5
  <2> HIDE DEF A, B, W
  <2>3. Cardinality(B) = Cardinality(A) + 1
    BY <1>4, <2>1, FS_AddElement
  <2> QED BY <1>1, <1>2, <1>4, <2>2, <2>3
<1>6. CASE ~W(n)
  <2>1. B = A
    BY <1>6
  <2>2. Width(Number(f, n)) = 2
    BY <1>6 DEF Width
  <2> HIDE DEF A, B, W
  <2> QED BY <1>1, <1>2, <1>4, <2>1, <2>2
<1> QED BY <1>5, <1>6

(* The registers of a range that does not straddle are equally wide. *)
LEMMA BeforeEven ==
  ASSUME NEW f \in Request, ~IsBits(f.fc), ~Straddles(f), NEW n \in 1 .. f.count + 1
  PROVE  Before(f, n) = Width(f.start) * (n - 1)
<1> DEFINE A == {k \in 1 .. n - 1 : Width(Number(f, k)) = 4}
<1>0. f.count \in Nat
  BY RequestNumbers
<1>1. Before(f, n) = 2 * (n - 1) + 2 * Cardinality(A)
  BY DEF Before
<1>2. \A k \in 1 .. n - 1 : Width(Number(f, k)) = Width(f.start)
  <2>1. \A k \in 1 .. n - 1 : k \in 1 .. f.count
    BY <1>0
  <2> QED BY <2>1 DEF Straddles
<1>3. CASE Width(f.start) = 2
  <2>1. A = {}
    BY <1>2, <1>3
  <2> HIDE DEF A
  <2> QED BY <1>0, <1>1, <1>3, <2>1, FS_EmptySet
<1>4. CASE Width(f.start) = 4
  <2>1. A = 1 .. n - 1
    BY <1>2, <1>4
  <2>2. Cardinality(1 .. n - 1) = n - 1
    BY <1>0, FS_Interval
  <2> HIDE DEF A
  <2> QED BY <1>0, <1>1, <1>4, <2>1, <2>2
<1> QED BY <1>3, <1>4, WidthIs

(* The items of a request, as far as they were read or written. *)
DoneFits(f, items) ==
  \A i \in DOMAIN items : /\ items[i][1] = Number(f, i)
                          /\ IsBits(f.fc) => items[i][2] \in Bit

LEMMA ItemIs ==
  ASSUME NEW f \in Request, NEW items \in Seq(Items \X Values), DoneFits(f, items),
         NEW n \in DOMAIN items
  PROVE  /\ n \in Nat /\ n >= 1 /\ n <= Len(items)
         /\ items[n][1] = Number(f, n) /\ items[n][1] \in Nat
         /\ items[n][2] \in Values /\ items[n][2] \in Word
<1>1. n \in 1 .. Len(items) /\ Len(items) \in Nat
  BY LenProperties
<1>2. items[n] \in Items \X Values
  BY <1>1, ElementOfSeq
<1>3. items[n][2] \in Values
  BY <1>2
<1>4. items[n][1] = Number(f, n) /\ n \in Nat
  BY <1>1 DEF DoneFits
<1> QED BY <1>1, <1>3, <1>4, NumberIsNat, ValuesAreNumbers

LEMMA RegisterIsByte ==
  ASSUME NEW f \in Request, NEW items \in Seq(Items \X Values), DoneFits(f, items), NEW j \in Nat
  PROVE  RegisterByte(f, items, j) \in Octet
<1> DEFINE holds(i) == j \in Before(f, i) + 1 .. Before(f, i + 1)
           n == CHOOSE i \in DOMAIN items : holds(i)
<1>1. CASE \E i \in DOMAIN items : holds(i)
  <2>1. n \in DOMAIN items /\ holds(n)
    BY <1>1
  <2>2. RegisterByte(f, items, j) = ItemBytes(items[n][1], items[n][2])[j - Before(f, n)]
    BY <1>1 DEF RegisterByte
  <2>3. holds(n) <=> j \in Before(f, n) + 1 .. Before(f, n + 1)
    OBVIOUS
  <2> HIDE DEF n, holds
  <2>4. /\ n \in Nat /\ n >= 1 /\ items[n][1] = Number(f, n)
        /\ items[n][1] \in Nat /\ items[n][2] \in Word
    BY <2>1, ItemIs
  <2> DEFINE y == ItemBytes(items[n][1], items[n][2])
             w == Width(items[n][1])
  <2>5. y \in Seq(Octet) /\ Len(y) = w
    BY <2>4, BytesOfItem
  <2>6. Before(f, n) \in Nat /\ Before(f, n + 1) = Before(f, n) + w
    BY <2>4, BeforeGrows
  <2>7. w \in {2, 4}
    BY WidthIs
  <2> HIDE DEF y, w
  <2>8. j - Before(f, n) \in 1 .. Len(y)
    BY <2>1, <2>3, <2>5, <2>6, <2>7
  <2>9. y[j - Before(f, n)] \in Octet
    BY <2>5, <2>8, ElementOfSeq
  <2> QED BY <2>2, <2>9 DEF y
<1>2. CASE ~ \E i \in DOMAIN items : holds(i)
  BY <1>2 DEF RegisterByte, Octet
<1> QED BY <1>1, <1>2

(* The bytes of the reply to a read. *)
LEMMA ReadSays ==
  ASSUME NEW f \in Request, NEW items \in Seq(Items \X Values), DoneFits(f, items),
         ReplySize(f) \in Byte
  PROVE  /\ ReadBytes(f, items) \in Seq(Octet)
         /\ Len(ReadBytes(f, items)) = 5 + ReplySize(f)
         /\ \A j \in 1 .. ReplySize(f) : ReadBytes(f, items)[3 + j] =
              IF IsBits(f.fc) THEN PackedByte(items, j) ELSE RegisterByte(f, items, j)
<1> DEFINE n == ReplySize(f)
           head == <<f.addr, f.fc, n>>
           byte(j) == IF IsBits(f.fc) THEN PackedByte(items, j) ELSE RegisterByte(f, items, j)
           data == [j \in 1 .. n |-> byte(j)]
           y == head \o data
<1>1. n \in Nat /\ n < 256
  BY ByteIs
<1>2. head \in Seq(Octet) /\ Len(head) = 3
  <2>1. f.addr \in Octet /\ f.fc \in Octet /\ n \in Octet
    BY <1>1, RequestNumbers, OctetIs
  <2> QED BY <2>1, ThreeBytes
<1>3. ASSUME NEW j \in 1 .. n PROVE byte(j) \in Octet
  <2>1. j \in Nat
    BY <1>1
  <2>2. CASE IsBits(f.fc)
    <3>1. \A i \in DOMAIN items : items[i][2] \in Bit
      BY <2>2 DEF DoneFits
    <3> QED BY <2>1, <2>2, <3>1, PackedBits
  <2>3. CASE ~IsBits(f.fc)
    BY <2>1, <2>3, RegisterIsByte
  <2> QED BY <2>2, <2>3
<1>4. ReadBytes(f, items) = y \o CRC
  BY DEF ReadBytes
<1> HIDE DEF byte, head, n
<1>5. data \in Seq(Octet) /\ Len(data) = n /\ \A j \in 1 .. n : data[j] = byte(j)
  BY <1>1, <1>3
<1> HIDE DEF data
<1>6. y \in Seq(Octet) /\ Len(y) = Len(head) + Len(data)
  BY <1>2, <1>5, Glued
<1>7. ASSUME NEW j \in 1 .. n PROVE y[3 + j] = byte(j)
  <2>1. j \in 1 .. Len(data) /\ 3 + j = Len(head) + j
    BY <1>2, <1>5
  <2>2. y[3 + j] = data[j]
    BY <1>2, <1>5, <2>1, GluedRight
  <2> QED BY <1>5, <2>2
<1> HIDE DEF y
<1>8. y \o CRC \in Seq(Octet) /\ Len(y \o CRC) = Len(y) + Len(CRC)
  BY <1>6, CRCBytes, Glued
<1>9. Len(y) = 3 + n
  BY <1>1, <1>2, <1>5, <1>6
<1>10. Len(y \o CRC) = 5 + n
  BY <1>1, <1>8, <1>9, CRCBytes
<1>11. ASSUME NEW j \in 1 .. n PROVE (y \o CRC)[3 + j] = byte(j)
  <2>1. 3 + j \in 1 .. Len(y)
    BY <1>1, <1>9
  <2>2. (y \o CRC)[3 + j] = y[3 + j]
    BY <1>6, <2>1, CRCBytes, GluedLeft
  <2> QED BY <1>7, <2>2
<1> QED BY <1>4, <1>8, <1>10, <1>11 DEF n, byte

(* What the master parses of the reply to a read is what was read. *)
LEMMA ParsedIsRead ==
  ASSUME NEW f \in Request, NEW items \in Seq(Items \X Values), DoneFits(f, items),
         ReplySize(f) \in Byte, Len(items) = f.count, ~Straddles(f), NEW i \in 1 .. f.count
  PROVE  Parsed(f, ReadBytes(f, items), i) = items[i][2]
<1> DEFINE b == ReadBytes(f, items)
           v == items[i][2]
<1>1. f.count \in Nat /\ DOMAIN items = 1 .. f.count /\ i \in Nat
  BY RequestNumbers, LenProperties
<1>2. items[i][1] = Number(f, i) /\ items[i][1] \in Nat /\ v \in Word
  BY <1>1, ItemIs
<1>3. CASE IsBits(f.fc)
  <2> DEFINE j == (i - 1) \div 8 + 1
             m == ((i - 1) % 8) + 1
  <2>1. j \in Nat /\ m \in 1 .. 8 /\ 8 * (j - 1) + m = i
    <3> DEFINE q == i - 1
    <3>1. q \in Nat /\ i = q + 1
      BY <1>1
    <3> HIDE DEF q
    <3>2. q \div 8 \in Nat /\ q % 8 \in 0 .. 7 /\ q = 8 * (q \div 8) + (q % 8)
      BY <3>1
    <3>3. j = q \div 8 + 1 /\ m = (q % 8) + 1
      BY DEF q
    <3> HIDE DEF j, m
    <3> QED BY <3>1, <3>2, <3>3
  <2>2. ReplySize(f) = (f.count - 1) \div 8 + 1
    BY <1>3 DEF ReplySize, BytesForBits
  <2>3. j \in 1 .. ReplySize(f)
    BY <1>1, <2>2
  <2>4. Parsed(f, b, i) = (b[4 + (i - 1) \div 8] \div Mask[1 + ((i - 1) % 8)]) % 2
    BY <1>3 DEF Parsed
  <2>5. 4 + (i - 1) \div 8 = 3 + j /\ 1 + ((i - 1) % 8) = m
    BY <1>1
  <2> HIDE DEF j, m, b
  <2>6. b[3 + j] = PackedByte(items, j)
    BY <1>3, <2>3, ReadSays DEF b
  <2>7. \A k \in DOMAIN items : items[k][2] \in Bit
    BY <1>3 DEF DoneFits
  <2>8. (PackedByte(items, j) \div Mask[m]) % 2 = items[i][2]
    <3>1. 8 * (j - 1) + m \in DOMAIN items
      BY <1>1, <2>1
    <3>2. (PackedByte(items, j) \div Mask[m]) % 2 = items[8 * (j - 1) + m][2]
      BY <2>1, <2>7, <3>1, PackedBits
    <3> QED BY <2>1, <3>2
  <2> QED BY <2>4, <2>5, <2>6, <2>8 DEF b
<1>4. CASE ~IsBits(f.fc)
  <2> DEFINE w == Width(f.start)
  <2>1. w \in {2, 4}
    BY WidthIs
  <2>2. /\ Before(f, i) = w * (i - 1) /\ Before(f, i + 1) = w * i
        /\ \A k \in DOMAIN items : Before(f, k) = w * (k - 1) /\ Before(f, k + 1) = w * k
    <3>1. ASSUME NEW k \in 1 .. f.count PROVE Before(f, k) = w * (k - 1) /\ Before(f, k + 1) = w * k
      <4>1. k \in 1 .. f.count + 1 /\ k + 1 \in 1 .. f.count + 1 /\ (k + 1) - 1 = k
        BY <1>1
      <4> QED BY <1>4, <4>1, BeforeEven
    <3> QED BY <1>1, <3>1
  <2>3. ReplySize(f) = f.count * w
    BY <1>4 DEF ReplySize
  <2>4. Width(Number(f, i)) = w
    BY <1>4 DEF Straddles
  <2> DEFINE y == ItemBytes(items[i][1], v)
  <2>5. v = 256 * y[w - 1] + y[w]
    <3>1. v = 256 * y[Width(items[i][1]) - 1] + y[Width(items[i][1])]
      BY <1>2, BytesOfItem
    <3> QED BY <1>2, <2>4, <3>1
  <2> HIDE DEF w, y
  <2>6. ASSUME NEW k \in {w - 1, w} PROVE b[3 + (w * (i - 1) + k)] = y[k]
    <3> DEFINE j == w * (i - 1) + k
               holds(n) == j \in Before(f, n) + 1 .. Before(f, n + 1)
    <3>1. j \in 1 .. ReplySize(f) /\ j \in Nat
      <4>1. CASE w = 2
        BY <1>1, <2>3, <4>1
      <4>2. CASE w = 4
        BY <1>1, <2>3, <4>2
      <4> QED BY <2>1, <4>1, <4>2
    <3>2. holds(i)
      BY <1>1, <2>1, <2>2
    <3>3. \A n \in DOMAIN items : holds(n) => n = i
      <4> SUFFICES ASSUME NEW n \in 1 .. f.count, holds(n) PROVE n = i
        BY <1>1
      <4>0. Before(f, n) = w * (n - 1) /\ Before(f, n + 1) = w * n /\ n \in Nat
        <5>1. n \in DOMAIN items /\ n \in Nat
          BY <1>1
        <5> QED BY <2>2, <5>1
      <4>1. j >= w * (n - 1) + 1 /\ j <= w * n
        BY <2>1, <3>1, <4>0
      <4>2. CASE w = 2
        BY <1>1, <4>1, <4>2
      <4>3. CASE w = 4
        BY <1>1, <4>1, <4>3
      <4> QED BY <2>1, <4>2, <4>3
    <3>4. i \in DOMAIN items
      BY <1>1
    <3>5. (CHOOSE n \in DOMAIN items : holds(n)) = i
      BY <3>2, <3>3, <3>4
    <3>6. RegisterByte(f, items, j) = y[j - Before(f, i)]
      BY <3>2, <3>4, <3>5 DEF RegisterByte, y
    <3>7. j - Before(f, i) = k
      BY <1>1, <2>1, <2>2
    <3> HIDE DEF j
    <3>8. b[3 + j] = RegisterByte(f, items, j)
      BY <1>4, <3>1, ReadSays
    <3> QED BY <3>6, <3>7, <3>8 DEF j
  <2> DEFINE last == 3 + i * w
  <2>7. Parsed(f, b, i) = 256 * b[last - 1] + b[last]
    BY <1>4 DEF Parsed, w
  <2>8. last = 3 + (w * (i - 1) + w) /\ last - 1 = 3 + (w * (i - 1) + (w - 1))
    BY <1>1, <2>1
  <2>9. b[last - 1] = y[w - 1] /\ b[last] = y[w]
    BY <2>6, <2>8
  <2> QED BY <2>5, <2>7, <2>9
<1> QED BY <1>3, <1>4

-----------------------------------------------------------------------------
(* The state of the slaves. *)

SlaveShape ==
  /\ table \in [Slaves -> [Tables -> [Items -> Values]]]
  /\ \A s \in Slaves, k \in {"coil", "di"}, a \in Items : table[s][k][a] \in Bit
  /\ write_en \in [Slaves -> BOOLEAN]
  /\ admitted \in [Slaves -> BOOLEAN]
  /\ rx_buff \in [Slaves -> Request \cup {None, Junk}]
  /\ frame \in [Slaves -> Request \cup {None}]
  /\ stage \in [Slaves -> {"listen", "check", "items"}]
  /\ done \in [Slaves -> Seq(Items \X Values)]
  /\ line \in Seq(Seq(Octet))

(* What the head of mbs_fcXX lets pass: the reply fits into a frame. *)
Passed(f) == /\ f.fc \in Reads \cup Writes
             /\ f.fc \in Reads => f.count > 0 /\ ReplySize(f) \in Byte

(* A slave has items done only in its loop, in their order; those of a     *)
(* write are the ones it was asked for, while writes were enabled.         *)
Serves(s) ==
  /\ (stage[s] = "listen") <=> (frame[s] = None)
  /\ stage[s] # "items" => done[s] = <<>>
  /\ frame[s] # None => Len(done[s]) <= frame[s].count /\ DoneFits(frame[s], done[s])
  /\ IsWrite(s) => Obeyed(frame[s], done[s]) /\ admitted[s]
  /\ stage[s] = "items" => Passed(frame[s])

SlaveInv == SlaveShape /\ \A s \in Slaves : Serves(s)

LEMMA SlaveInvInit == InitSlaves => SlaveInv
<1> SUFFICES ASSUME InitSlaves PROVE SlaveInv
  OBVIOUS
<1>1. SlaveShape
  BY WordAssumption, EmptySeq DEF InitSlaves, SlaveShape, Bit, Tables
<1>2. ASSUME NEW s \in Slaves PROVE Serves(s)
  BY DEF InitSlaves, Serves, IsWrite
<1> QED BY <1>1, <1>2 DEF SlaveInv

(* The slaves that a step leaves alone. *)
LEMMA OthersServe ==
  ASSUME NEW s, Serves(s), stage'[s] = stage[s], frame'[s] = frame[s],
         done'[s] = done[s], admitted'[s] = admitted[s]
  PROVE  Serves(s)'
BY DEF Serves, IsWrite, Obeyed, DoneFits, Passed, ReplySize, Width, BytesForBits,
       Number, Straddles, IsBits, Table, Reads, Writes

(* What the head of mbs_fcXX may find. *)
Codes == {SILENT, 0, ILLEGAL_FC, ILLEGAL_DATA_ADDR, ILLEGAL_DATA_QTY, ILLEGAL_DATA_VAL}

LEMMA CodesAre == \A code \in Codes : code # SILENT /\ code # 0 => code \in 1 .. 4
BY DEF Codes, ILLEGAL_FC, ILLEGAL_DATA_ADDR, ILLEGAL_DATA_QTY, ILLEGAL_DATA_VAL

LEMMA VerdictOnRead ==
  ASSUME NEW s, NEW f \in Request, f.fc \in Reads,
         NEW most, most = IF IsBits(f.fc) THEN MaxBits ELSE MostRegs(f)
  PROVE  Verdict(s, f) = IF f.ndata # 4 THEN SILENT
                         ELSE IF f.count \notin 1 .. most THEN ILLEGAL_DATA_QTY ELSE 0
<1>1. f.fc # 5 /\ f.fc # 6 /\ f.fc # 15 /\ f.fc # 16
  BY DEF Reads
<1> QED BY <1>1 DEF Verdict, ReadVerdict

LEMMA Verdicts ==
  ASSUME NEW s, NEW f \in Request
  PROVE  Verdict(s, f) \in {SILENT, 0, ILLEGAL_FC, ILLEGAL_DATA_QTY, ILLEGAL_DATA_VAL}
<1>1. CASE f.fc \in Reads
  <2> DEFINE most == IF IsBits(f.fc) THEN MaxBits ELSE MostRegs(f)
  <2> HIDE DEF most
  <2>1. Verdict(s, f) = IF f.ndata # 4 THEN SILENT
                        ELSE IF f.count \notin 1 .. most THEN ILLEGAL_DATA_QTY ELSE 0
    BY <1>1, VerdictOnRead DEF most
  <2> QED BY <2>1
<1>2. CASE f.fc = 5
  BY <1>2 DEF Verdict, CoilVerdict, Reads, Writes
<1>3. CASE f.fc = 6
  BY <1>3 DEF Verdict, RegVerdict, Reads, Writes
<1>4. CASE f.fc = 15
  BY <1>4 DEF Verdict, CoilsVerdict, Reads, Writes
<1>5. CASE f.fc = 16
  BY <1>5 DEF Verdict, RegsVerdict, Reads, Writes
<1>6. CASE f.fc \notin Reads \cup {5, 6, 15, 16}
  BY <1>6 DEF Verdict, Writes, ILLEGAL_FC
<1> QED BY <1>1, <1>2, <1>3, <1>4, <1>5, <1>6

LEMMA ZeroPasses ==
  ASSUME NEW s, NEW f \in Request, Verdict(s, f) = 0
  PROVE  Passed(f)
<1>1. CASE f.fc \in Reads
  <2>1. f.count \in 1 .. (IF IsBits(f.fc) THEN MaxBits ELSE MostRegs(f))
    <3> DEFINE most == IF IsBits(f.fc) THEN MaxBits ELSE MostRegs(f)
    <3> HIDE DEF most
    <3>1. Verdict(s, f) = IF f.ndata # 4 THEN SILENT
                          ELSE IF f.count \notin 1 .. most THEN ILLEGAL_DATA_QTY ELSE 0
      BY <1>1, VerdictOnRead DEF most
    <3>2. SILENT # 0 /\ ILLEGAL_DATA_QTY # 0
      BY DEF SILENT, ILLEGAL_DATA_QTY
    <3>3. f.count \in 1 .. most
      BY <3>1, <3>2
    <3> QED BY <3>3 DEF most
  <2>2. CASE IsBits(f.fc)
    <3>1. ReplySize(f) = (f.count - 1) \div 8 + 1
      BY <2>2 DEF ReplySize, BytesForBits
    <3>2. f.count \in Nat /\ f.count > 0 /\ f.count <= 2000
      BY <2>1, <2>2, LimitAssumption
    <3>3. ReplySize(f) \in Nat /\ ReplySize(f) < 256
      BY <3>1, <3>2
    <3> QED BY <1>1, <3>2, <3>3, ByteIs DEF Passed
  <2>3. CASE ~IsBits(f.fc)
    <3>1. ReplySize(f) = f.count * Width(f.start)
      BY <2>3 DEF ReplySize
    <3>2. f.count \in Nat /\ f.count > 0
      BY <2>1, <2>3, LimitAssumption DEF MostRegs
    <3>3. ReplySize(f) \in Nat /\ ReplySize(f) < 256
      <4>1. CASE f.start < FpStart
        <5>1. f.count <= 125 /\ Width(f.start) = 2
          BY <2>1, <2>3, <4>1, LimitAssumption DEF MostRegs, Width
        <5> QED BY <3>1, <3>2, <5>1
      <4>2. CASE ~(f.start < FpStart)
        <5>1. f.count <= 62 /\ Width(f.start) = 4
          BY <2>1, <2>3, <4>2, LimitAssumption DEF MostRegs, Width
        <5> QED BY <3>1, <3>2, <5>1
      <4> QED BY <4>1, <4>2
    <3> QED BY <1>1, <3>2, <3>3, ByteIs DEF Passed
  <2> QED BY <2>2, <2>3
<1>2. CASE f.fc \in Writes
  BY <1>2 DEF Passed, Reads, Writes
<1>3. CASE f.fc \notin Reads \cup {5, 6, 15, 16}
  BY <1>3 DEF Verdict, Writes, ILLEGAL_FC
<1> QED BY <1>1, <1>2, <1>3 DEF Writes

-----------------------------------------------------------------------------
(* The end of a request. *)

(* It was served to its last item, or an exception is set. *)
Ends(s, code) == /\ frame[s] # None /\ code \in Codes /\ Finish(s, code)
                 /\ code = 0 => stage[s] = "items" /\ Len(done[s]) = frame[s].count

LEMMA ReplyIsBytes ==
  ASSUME SlaveInv, NEW s \in Slaves, NEW code, Ends(s, code), code # SILENT
  PROVE  ReplyBytes(s, code) \in Seq(Octet) /\ Len(ReplyBytes(s, code)) >= 5
<1> DEFINE f == frame[s]
<1>1. f \in Request /\ done[s] \in Seq(Items \X Values) /\ DoneFits(f, done[s])
  BY DEF Ends, SlaveInv, SlaveShape, Serves
<1>2. CASE code # 0
  <2>1. code \in 1 .. 4
    BY <1>2, CodesAre DEF Ends
  <2>2. ReplyBytes(s, code) = ExceptionBytes(f, code)
    BY <1>2 DEF ReplyBytes
  <2>3. ExceptionBytes(f, code) \in Seq(Octet) /\ Len(ExceptionBytes(f, code)) = 5
    BY <1>1, <2>1, ExceptionSays
  <2> QED BY <2>2, <2>3
<1>3. CASE code = 0
  <2>1. Passed(f)
    BY <1>3 DEF Ends, SlaveInv, Serves
  <2>2. CASE f.fc \in Reads
    <3>1. ReplyBytes(s, code) = ReadBytes(f, done[s])
      BY <1>3, <2>2 DEF ReplyBytes, Reads, Writes
    <3>2. ReplySize(f) \in Byte
      BY <2>1, <2>2 DEF Passed
    <3>3. ReadBytes(f, done[s]) \in Seq(Octet) /\ Len(ReadBytes(f, done[s])) = 5 + ReplySize(f)
      BY <1>1, <3>2, ReadSays
    <3>4. ReplySize(f) \in Nat
      BY <3>2, ByteIs
    <3> QED BY <3>1, <3>3, <3>4
  <2>3. CASE f.fc \notin Reads
    <3>1. f.fc \in Writes
      BY <2>1, <2>3 DEF Passed
    <3>2. ReplyBytes(s, code) = EchoBytes(f)
      BY <1>3, <2>3, <3>1 DEF ReplyBytes
    <3>3. EchoBytes(f) \in Seq(Octet) /\ Len(EchoBytes(f)) = 8
      BY <1>1, <3>1, EchoSays
    <3> QED BY <3>2, <3>3
  <2> QED BY <2>2, <2>3
<1> QED BY <1>2, <1>3

LEMMA Appended ==
  ASSUME NEW S, NEW q \in Seq(S), NEW b \in S
  PROVE  /\ Append(q, b) \in Seq(S) /\ Len(q) \in Nat
         /\ Len(Append(q, b)) = Len(q) + 1 /\ Append(q, b)[Len(q) + 1] = b
BY AppendProperties, LenProperties

LEMMA FinishKeepsInv ==
  ASSUME SlaveInv, NEW s \in Slaves, NEW code, Ends(s, code),
         UNCHANGED <<table, write_en, rx_buff>>
  PROVE  SlaveInv'
<1>0. Finish(s, code)
  BY DEF Ends
<1>1. line' \in Seq(Seq(Octet))
  <2>1. line \in Seq(Seq(Octet))
    BY DEF SlaveInv, SlaveShape
  <2>2. CASE Answered(s, code)
    <3>1. ReplyBytes(s, code) \in Seq(Octet)
      BY <2>2, ReplyIsBytes DEF Answered
    <3>2. line' = Append(line, ReplyBytes(s, code))
      BY <1>0, <2>2 DEF Finish
    <3> QED BY <2>1, <3>1, <3>2, Appended
  <2>3. CASE ~Answered(s, code)
    BY <1>0, <2>1, <2>3 DEF Finish
  <2> QED BY <2>2, <2>3
<1>2. /\ frame' = [frame EXCEPT ![s] = None] /\ stage' = [stage EXCEPT ![s] = "listen"]
      /\ done' = [done EXCEPT ![s] = <<>>] /\ admitted' = [admitted EXCEPT ![s] = FALSE]
  BY <1>0 DEF Finish
<1>3. SlaveShape'
  BY <1>1, <1>2 DEF SlaveInv, SlaveShape
<1>4. ASSUME NEW x \in Slaves PROVE Serves(x)'
  <2>1. CASE x = s
    BY <1>2, <2>1 DEF SlaveInv, SlaveShape, Serves, IsWrite
  <2>2. CASE x # s
    BY <1>2, <2>2, OthersServe DEF SlaveInv, SlaveShape
  <2> QED BY <2>1, <2>2
<1> QED BY <1>3, <1>4 DEF SlaveInv

-----------------------------------------------------------------------------
(* The steps of a slave. *)

LEMMA IdleKeepsInv ==
  ASSUME SlaveInv, NEW s \in Slaves, LineIdle(s)
  PROVE  SlaveInv'
<1>1. CASE Dispatched(s, rx_buff[s])
  <2>1. /\ frame' = [frame EXCEPT ![s] = rx_buff[s]]
        /\ stage' = [stage EXCEPT ![s] = "check"]
        /\ admitted' = [admitted EXCEPT ![s] = write_en[s]]
        /\ rx_buff' = [rx_buff EXCEPT ![s] = None]
        /\ UNCHANGED <<table, write_en, done, line>>
    BY <1>1 DEF LineIdle
  <2>2. rx_buff[s] \in Request /\ rx_buff[s] # None
    BY <1>1 DEF LineIdle, Dispatched, SlaveInv, SlaveShape
  <2>3. SlaveShape'
    BY <2>1, <2>2 DEF SlaveInv, SlaveShape
  <2>4. done[s] = <<>>
    BY DEF LineIdle, SlaveInv, Serves
  <2>5. Serves(s)'
    <3>1. rx_buff[s].fc \in Writes => write_en[s]
      BY <1>1 DEF Dispatched
    <3>2. rx_buff[s].count \in Nat
      BY <2>2, RequestNumbers
    <3> QED BY <2>1, <2>2, <2>4, <3>1, <3>2
            DEF SlaveInv, SlaveShape, Serves, IsWrite, Obeyed, DoneFits
  <2>6. ASSUME NEW x \in Slaves, x # s PROVE Serves(x)'
    BY <2>1, <2>6, OthersServe DEF SlaveInv, SlaveShape
  <2> QED BY <2>3, <2>5, <2>6 DEF SlaveInv
<1>2. CASE ~Dispatched(s, rx_buff[s])
  <2>1. /\ rx_buff' = [rx_buff EXCEPT ![s] = None]
        /\ UNCHANGED <<table, write_en, frame, stage, admitted, done, line>>
    BY <1>2 DEF LineIdle
  <2>2. SlaveShape'
    BY <2>1 DEF SlaveInv, SlaveShape
  <2>3. ASSUME NEW x \in Slaves PROVE Serves(x)'
    BY <2>1, OthersServe DEF SlaveInv
  <2> QED BY <2>2, <2>3 DEF SlaveInv
<1> QED BY <1>1, <1>2

LEMMA CheckKeepsInv ==
  ASSUME SlaveInv, NEW s \in Slaves, Check(s)
  PROVE  SlaveInv'
<1> DEFINE code == Verdict(s, frame[s])
<1>1. frame[s] \in Request /\ frame[s] # None
  BY DEF Check, SlaveInv, SlaveShape, Serves
<1> HIDE DEF code
<1>3. CASE code = 0 /\ stage' = [stage EXCEPT ![s] = "items"]
           /\ UNCHANGED <<frame, line, done, admitted>>
  <2>1. UNCHANGED <<table, write_en, rx_buff>>
    BY DEF Check
  <2>2. SlaveShape'
    BY <1>3, <2>1 DEF SlaveInv, SlaveShape
  <2>3. Serves(s)'
    <3>1. Passed(frame[s])
      BY <1>1, <1>3, ZeroPasses DEF code
    <3>2. frame'[s] = frame[s] /\ done'[s] = done[s] /\ admitted'[s] = admitted[s]
      BY <1>3
    <3>3. stage'[s] = "items" /\ stage[s] = "check"
      BY <1>3 DEF Check, SlaveInv, SlaveShape
    <3> QED BY <1>1, <3>1, <3>2, <3>3
            DEF SlaveInv, Serves, IsWrite, Obeyed, DoneFits, Passed, ReplySize, Width,
                BytesForBits, Number, Straddles, IsBits, Table, Reads, Writes
  <2>4. ASSUME NEW x \in Slaves, x # s PROVE Serves(x)'
    BY <1>3, <2>4, OthersServe DEF SlaveInv, SlaveShape
  <2> QED BY <2>2, <2>3, <2>4 DEF SlaveInv
<1>4. CASE code # 0 /\ Finish(s, code)
  <2>1. UNCHANGED <<table, write_en, rx_buff>>
    BY DEF Check
  <2>2. Ends(s, code)
    BY <1>1, <1>4, Verdicts DEF Ends, Codes, code
  <2> QED BY <2>1, <2>2, FinishKeepsInv
<1> QED BY <1>3, <1>4 DEF Check, code

(* A callback was called: one more item is done, with the value v.         *)
LEMMA OneMoreKeepsInv ==
  ASSUME SlaveInv, NEW s \in Slaves, stage[s] = "items", MoreItems(s), NEW v \in Values,
         NextItem(s) \in Items,
         done' = [done EXCEPT ![s] = Append(@, <<NextItem(s), v>>)],
         IsWrite(s) => Straddles(frame[s]) \/ v = frame[s].vals[Len(done[s]) + 1],
         IsBits(frame[s].fc) => v \in Bit,
         table' \in [Slaves -> [Tables -> [Items -> Values]]],
         \A x \in Slaves, k \in {"coil", "di"}, a \in Items : table'[x][k][a] \in Bit,
         UNCHANGED <<write_en, rx_buff, frame, stage, admitted, line>>
  PROVE  SlaveInv'
<1> DEFINE f == frame[s]
           n == Len(done[s])
           items == Append(done[s], <<NextItem(s), v>>)
<1>1. f \in Request /\ done[s] \in Seq(Items \X Values)
  BY DEF SlaveInv, SlaveShape, Serves
<1>2. /\ items \in Seq(Items \X Values) /\ Len(items) = n + 1 /\ n \in Nat
      /\ \A i \in 1 .. n : items[i] = done[s][i]
      /\ items[n + 1] = <<NextItem(s), v>>
  BY <1>1, AppendProperties, LenProperties
<1>3. done'[s] = items /\ \A x \in Slaves : x # s => done'[x] = done[x]
  BY DEF SlaveInv, SlaveShape
<1>4. SlaveShape'
  <2>1. done' = [done EXCEPT ![s] = items]
    OBVIOUS
  <2>2. done' \in [Slaves -> Seq(Items \X Values)]
    BY <1>2, <2>1 DEF SlaveInv, SlaveShape
  <2> QED BY <2>2 DEF SlaveInv, SlaveShape
<1>5. Serves(s)'
  <2>1. n + 1 <= f.count
    BY <1>1, <1>2, RequestNumbers DEF MoreItems
  <2>7. DoneFits(f, items)
    <3>1. DoneFits(f, done[s])
      BY <1>1 DEF SlaveInv, Serves, MoreItems
    <3>2. DOMAIN items = 1 .. n + 1 /\ DOMAIN done[s] = 1 .. n
      BY <1>1, <1>2, LenProperties
    <3>3. ASSUME NEW i \in 1 .. n + 1
          PROVE  items[i][1] = Number(f, i) /\ (IsBits(f.fc) => items[i][2] \in Bit)
      <4>1. CASE i = n + 1
        BY <1>2, <4>1 DEF NextItem
      <4>2. CASE i \in 1 .. n
        BY <1>2, <3>1, <3>2, <4>2 DEF DoneFits
      <4> QED BY <1>2, <4>1, <4>2
    <3> QED BY <3>2, <3>3 DEF DoneFits
  <2>2. ASSUME IsWrite(s) PROVE Obeyed(f, items)
    <3>1. Obeyed(f, done[s])
      BY <2>2 DEF SlaveInv, Serves
    <3>2. DOMAIN items = 1 .. n + 1 /\ DOMAIN done[s] = 1 .. n
      BY <1>1, <1>2, LenProperties
    <3>3. ASSUME NEW i \in 1 .. n + 1
          PROVE  items[i][1] = Number(f, i) /\ (Straddles(f) \/ items[i][2] = f.vals[i])
      <4>1. CASE i = n + 1
        <5>1. NextItem(s) = Number(f, n + 1)
          BY DEF NextItem
        <5> QED BY <1>2, <2>2, <4>1, <5>1
      <4>2. CASE i \in 1 .. n
        BY <1>2, <3>1, <3>2, <4>2 DEF Obeyed
      <4> QED BY <1>2, <4>1, <4>2
    <3> QED BY <3>2, <3>3 DEF Obeyed
  <2>3. frame'[s] = f /\ stage'[s] = "items" /\ admitted'[s] = admitted[s]
    OBVIOUS
  <2>4. IsWrite(s)' <=> IsWrite(s)
    BY DEF IsWrite
  <2>5. /\ Obeyed(f, items) => Obeyed(frame[s], done[s])'
        /\ DoneFits(f, items) => DoneFits(frame[s], done[s])'
        /\ Passed(f) => Passed(frame[s])'
    BY <1>3, <2>3 DEF Obeyed, DoneFits, Passed, ReplySize, Width, BytesForBits, Number,
                      Straddles, IsBits, Table, Reads, Writes
  <2>6. frame[s] # None /\ (IsWrite(s) => admitted[s]) /\ Passed(f)
    BY DEF SlaveInv, Serves
  <2> QED BY <1>2, <1>3, <2>1, <2>2, <2>3, <2>4, <2>5, <2>6, <2>7 DEF Serves
<1>6. ASSUME NEW x \in Slaves, x # s PROVE Serves(x)'
  BY <1>3, <1>6, OthersServe DEF SlaveInv
<1> QED BY <1>4, <1>5, <1>6 DEF SlaveInv

LEMMA ItemKeepsInv ==
  ASSUME SlaveInv, NEW s \in Slaves, Item(s)
  PROVE  SlaveInv'
<1> DEFINE k == Table(frame[s].fc)
           a == NextItem(s)
<1>1. /\ stage[s] = "items" /\ MoreItems(s) /\ UNCHANGED <<write_en, rx_buff>>
      /\ frame[s] \in Request /\ frame[s] # None /\ k \in Tables
  BY TableOf DEF Item, SlaveInv, SlaveShape, Serves
<1>2. CASE Failed(s)
  <2>1. Ends(s, ILLEGAL_DATA_ADDR)
    BY <1>1, <1>2 DEF Failed, Ends, Codes, ILLEGAL_DATA_ADDR
  <2> QED BY <1>1, <1>2, <2>1, FinishKeepsInv DEF Failed
<1>6. IsBits(frame[s].fc) <=> k \in {"coil", "di"}
  BY DEF IsBits
<1>3. ASSUME Accepted(s) PROVE a \in Items
  BY <1>1, <1>3, KnownAreItems DEF Accepted
<1>4. CASE Read(s)
  <2>1. table[s][k][a] \in Values
    BY <1>1, <1>3, <1>4 DEF Read, SlaveInv, SlaveShape
  <2>2. ~IsWrite(s)
    BY <1>4 DEF Read, IsWrite, Reads, Writes
  <2>3. table' \in [Slaves -> [Tables -> [Items -> Values]]]
    BY <1>4 DEF Read, SlaveInv, SlaveShape
  <2>4. IsBits(frame[s].fc) => table[s][k][a] \in Bit
    BY <1>3, <1>4, <1>6 DEF Read, SlaveInv, SlaveShape
  <2>5. \A x \in Slaves, i \in {"coil", "di"}, b \in Items : table'[x][i][b] \in Bit
    BY <1>4 DEF Read, SlaveInv, SlaveShape
  <2>6. /\ a \in Items /\ done' = [done EXCEPT ![s] = Append(@, <<a, table[s][k][a]>>)]
        /\ UNCHANGED <<write_en, rx_buff, frame, stage, admitted, line>>
    BY <1>1, <1>3, <1>4 DEF Read
  <2> HIDE DEF k, a
  <2> QED BY <1>1, <2>1, <2>2, <2>3, <2>4, <2>5, <2>6, OneMoreKeepsInv DEF a
<1>5. CASE Write(s)
  <2>1. PICK v \in Carried(s) :
          /\ table' = [table EXCEPT ![s][k][a] = v]
          /\ done' = [done EXCEPT ![s] = Append(@, <<a, v>>)]
    BY <1>5 DEF Write
  <2>2. frame[s].fc \in Writes /\ a \in Items
    BY <1>3, <1>5 DEF Write
  <2>3. v \in Values /\ (Straddles(frame[s]) \/ v = frame[s].vals[Len(done[s]) + 1])
    <3>1. Len(done[s]) + 1 \in 1 .. Len(frame[s].vals)
      <4>1. Len(done[s]) \in Nat /\ frame[s].count \in Nat /\ Len(frame[s].vals) = frame[s].count
        BY <1>1, <2>2, RequestFields, RequestNumbers, LenProperties DEF SlaveInv, SlaveShape
      <4> QED BY <1>1, <4>1 DEF MoreItems
    <3>2. frame[s].vals[Len(done[s]) + 1] \in Values
      BY <1>1, <3>1, RequestFields, ElementOfSeq
    <3>3. CASE Straddles(frame[s])
      BY <2>1, <3>3 DEF Carried
    <3>4. CASE ~Straddles(frame[s])
      BY <2>1, <3>2, <3>4 DEF Carried
    <3> QED BY <3>3, <3>4
  <2>4. table' \in [Slaves -> [Tables -> [Items -> Values]]]
    BY <1>1, <2>1, <2>2, <2>3 DEF SlaveInv, SlaveShape
  <2>5. IsBits(frame[s].fc) => v \in Bit
    <3> SUFFICES ASSUME IsBits(frame[s].fc) PROVE v \in Bit
      OBVIOUS
    <3>1. frame[s].fc \in {5, 15}
      BY <2>2 DEF IsBits, Table, Writes
    <3>2. frame[s].vals \in Seq(Bit) /\ Len(frame[s].vals) = frame[s].count
      BY <1>1, <2>2, <3>1, RequestFields
    <3>3. Len(done[s]) + 1 \in 1 .. Len(frame[s].vals)
      <4>1. Len(done[s]) \in Nat /\ frame[s].count \in Nat
        BY <1>1, RequestNumbers, LenProperties DEF SlaveInv, SlaveShape
      <4> QED BY <1>1, <3>2, <4>1 DEF MoreItems
    <3>4. v = frame[s].vals[Len(done[s]) + 1]
      BY <2>3 DEF Straddles
    <3> QED BY <3>2, <3>3, <3>4, ElementOfSeq
  <2>6. ASSUME NEW x \in Slaves, NEW i \in {"coil", "di"}, NEW b \in Items
        PROVE  table'[x][i][b] \in Bit
    <3>1. table[x][i][b] \in Bit
      BY DEF SlaveInv, SlaveShape
    <3>2. table'[x][i][b] \in {table[x][i][b], v} /\ (k # i => table'[x][i][b] = table[x][i][b])
      BY <1>1, <2>1, <2>2 DEF SlaveInv, SlaveShape, Tables
    <3> QED BY <1>6, <2>5, <3>1, <3>2
  <2>7. /\ done' = [done EXCEPT ![s] = Append(@, <<a, v>>)]
        /\ UNCHANGED <<write_en, rx_buff, frame, stage, admitted, line>>
    BY <1>1, <1>5, <2>1 DEF Write
  <2> HIDE DEF k, a
  <2> QED BY <1>1, <2>2, <2>3, <2>4, <2>5, <2>6, <2>7, OneMoreKeepsInv DEF a
<1> QED BY <1>2, <1>4, <1>5 DEF Item

LEMMA ReplyKeepsInv ==
  ASSUME SlaveInv, NEW s \in Slaves, SendReply(s)
  PROVE  SlaveInv'
<1>1. Ends(s, 0) /\ UNCHANGED <<table, write_en, rx_buff>>
  BY DEF SendReply, Ends, Codes, SlaveInv, Serves
<1> QED BY <1>1, FinishKeepsInv

LEMMA ThreadKeepsInv ==
  ASSUME SlaveInv, NEW s \in Slaves, SlaveThread(s)
  PROVE  SlaveInv'
BY IdleKeepsInv, CheckKeepsInv, ItemKeepsInv, ReplyKeepsInv DEF SlaveThread

-----------------------------------------------------------------------------
(* The steps of others. *)

(* They leave what a slave is doing alone. *)
LEMMA ElseKeepsInv ==
  ASSUME SlaveInv, UNCHANGED <<frame, stage, done, admitted>>, SlaveShape'
  PROVE  SlaveInv'
BY OthersServe DEF SlaveInv

LEMMA JoinedIsBuffer ==
  ASSUME SlaveInv, NEW s \in Slaves, NEW f \in Request
  PROVE  Joined(rx_buff[s], f) \in Request \cup {None, Junk}
BY DEF Joined

LEMMA SlaveInvStep == SlaveInv /\ [SlaveNext]_slaveVars => SlaveInv'
<1> SUFFICES ASSUME SlaveInv, [SlaveNext]_slaveVars PROVE SlaveInv'
  OBVIOUS
<1>1. ASSUME NEW s \in Slaves, SlaveThread(s) PROVE SlaveInv'
  BY <1>1, ThreadKeepsInv
<1>2. ASSUME NEW s \in Slaves, NEW status \in BOOLEAN, WriteEnable(s, status) PROVE SlaveInv'
  <2>1. SlaveShape'
    BY <1>2 DEF WriteEnable, SlaveInv, SlaveShape
  <2> QED BY <1>2, <2>1, ElseKeepsInv DEF WriteEnable
<1>3. ASSUME NEW f \in Foreign, Arrive(f) PROVE SlaveInv'
  <2>1. \A s \in Slaves : Joined(rx_buff[s], f) \in Request \cup {None, Junk}
    BY RequestAssumption, JoinedIsBuffer
  <2>2. SlaveShape'
    BY <1>3, <2>1 DEF Arrive, SlaveInv, SlaveShape
  <2> QED BY <1>3, <2>2, ElseKeepsInv DEF Arrive
<1>4. CASE Taken
  <2>1. SlaveShape'
    BY <1>4, EmptySeq DEF Taken, SlaveInv, SlaveShape
  <2> QED BY <1>4, <2>1, ElseKeepsInv DEF Taken
<1>5. CASE UNCHANGED slaveVars
  <2>1. SlaveShape'
    BY <1>5 DEF slaveVars, SlaveInv, SlaveShape
  <2> QED BY <1>5, <2>1, ElseKeepsInv DEF slaveVars
<1> QED BY <1>1, <1>2, <1>3, <1>4, <1>5 DEF SlaveNext

(* The state of the slaves, whatever requests a master sends. *)
THEOREM SlaveInvariant == SlaveSpec => []SlaveInv
BY SlaveInvInit, SlaveInvStep, PTL DEF SlaveSpec

(* No request is written from but those that were taken while writes were  *)
(* enabled: disabling them stops all but the one being served (mbs_handler *)
(* and the write_en that mb_slave_write_enable sets).                      *)
THEOREM DisabledWritesStop == SlaveSpec => DisableStopsNext
<1>1. SlaveInv => \A s \in Slaves : Len(done'[s]) > Len(done[s]) /\ IsWrite(s) => admitted[s]
  BY DEF SlaveInv, Serves
<1> QED BY <1>1, SlaveInvariant, PTL DEF DisableStopsNext, SlaveSpec

-----------------------------------------------------------------------------
(* The effect of a write. *)

LEMMA FinishSends ==
  ASSUME SlaveInv, NEW s \in Slaves, NEW code, Ends(s, code)
  PROVE  /\ Answered(s, code) => Sent = ReplyBytes(s, code) /\ Sent # <<>>
         /\ ~Answered(s, code) => Sent = <<>>
<1>1. line \in Seq(Seq(Octet)) /\ Finish(s, code)
  BY DEF SlaveInv, SlaveShape, Ends
<1>2. ASSUME Answered(s, code)
      PROVE  Sent = ReplyBytes(s, code) /\ Sent # <<>>
  <2> DEFINE b == ReplyBytes(s, code)
  <2>1. b \in Seq(Octet) /\ Len(b) >= 5
    BY <1>2, ReplyIsBytes DEF Answered
  <2>2. line' = Append(line, b)
    BY <1>1, <1>2 DEF Finish
  <2> HIDE DEF b
  <2>3. Sent = b
    <3>1. Len(line') = Len(line) + 1 /\ Len(line) \in Nat /\ line'[Len(line) + 1] = b
      BY <1>1, <2>1, <2>2, Appended
    <3> QED BY <3>1 DEF Sent
  <2>4. b # <<>>
    BY <2>1, EmptySeq
  <2> QED BY <2>3, <2>4 DEF b
<1>3. ASSUME ~Answered(s, code) PROVE Sent = <<>>
  <2>1. line' = line /\ Len(line) \in Nat
    BY <1>1, <1>3, LenProperties DEF Finish
  <2> QED BY <2>1 DEF Sent
<1> QED BY <1>2, <1>3

LEMMA FinishReports ==
  ASSUME SlaveInv, NEW s \in Slaves, IsWrite(s), NEW code, Ends(s, code),
         code = ILLEGAL_DATA_ADDR => MoreItems(s) /\ ~Accepted(s),
         code \notin {0, ILLEGAL_DATA_ADDR} => done[s] = <<>>
  PROVE  Reported(s)
<1> DEFINE f == frame[s]
           n == Len(done[s])
<1>1. f \in Request /\ f.fc \in Writes /\ Obeyed(f, done[s])
  BY DEF IsWrite, SlaveInv, SlaveShape, Serves
<1>2. CASE ~Answered(s, code)
  <2>1. Sent = <<>>
    BY <1>2, FinishSends
  <2>2. f.addr = 0 \/ n = 0
    BY <1>2 DEF Answered, SILENT, ILLEGAL_DATA_ADDR
  <2> QED BY <1>1, <2>1, <2>2 DEF Reported
<1>3. CASE Answered(s, code) /\ code = 0
  <2>1. Sent = EchoBytes(f) /\ Sent # <<>>
    BY <1>1, <1>3, FinishSends DEF ReplyBytes, Reads, Writes
  <2>2. Sent[2] = f.fc
    BY <1>1, <2>1, EchoSays
  <2>3. n = f.count
    BY <1>3 DEF Ends
  <2> QED BY <1>1, <2>1, <2>2, <2>3 DEF Reported
<1>4. CASE Answered(s, code) /\ code # 0
  <2>1. code \in 1 .. 4
    BY <1>4, CodesAre DEF Answered, Ends
  <2>2. Sent = ExceptionBytes(f, code) /\ Sent # <<>>
    BY <1>4, FinishSends DEF ReplyBytes
  <2>3. Sent[2] = 128 + (f.fc % 128) /\ Sent[3] = code
    BY <1>1, <2>1, <2>2, ExceptionSays
  <2>4. Sent[2] # f.fc
    BY <1>1, <2>3 DEF Writes
  <2>5. CASE code = ILLEGAL_DATA_ADDR
    <3>1. n < f.count /\ Number(f, n + 1) \notin Known[Table(f.fc)]
      BY <2>5 DEF NextItem, MoreItems, Accepted
    <3> QED BY <1>1, <2>2, <2>3, <2>4, <2>5, <3>1 DEF Reported
  <2>6. CASE code # ILLEGAL_DATA_ADDR
    <3>1. n = 0
      BY <1>4, <2>6
    <3> QED BY <1>1, <2>2, <2>3, <2>4, <2>6, <3>1 DEF Reported
  <2> QED BY <2>5, <2>6
<1> QED BY <1>2, <1>3, <1>4

LEMMA ThreadReports ==
  ASSUME SlaveInv, NEW s \in Slaves, SlaveThread(s), Ended(s), IsWrite(s)
  PROVE  Reported(s)
<1>1. frame[s] \in Request /\ frame[s] # None /\ frame[s].fc \in Writes
  BY DEF IsWrite, SlaveInv, SlaveShape
<1>2. ~LineIdle(s)
  BY <1>1 DEF LineIdle, SlaveInv, Serves
<1>3. CASE Check(s)
  <2> DEFINE code == Verdict(s, frame[s])
  <2>1. code \in {SILENT, 0, ILLEGAL_FC, ILLEGAL_DATA_QTY, ILLEGAL_DATA_VAL}
    BY <1>1, Verdicts
  <2>2. done[s] = <<>>
    BY <1>3 DEF Check, SlaveInv, Serves
  <2> HIDE DEF code
  <2>3. code # 0 /\ Finish(s, code)
    BY <1>3 DEF Check, code, Ended
  <2>4. code # ILLEGAL_DATA_ADDR
    BY <2>1 DEF SILENT, ILLEGAL_FC, ILLEGAL_DATA_ADDR, ILLEGAL_DATA_QTY, ILLEGAL_DATA_VAL
  <2>5. Ends(s, code)
    BY <1>1, <2>1, <2>3 DEF Ends, Codes
  <2> QED BY <2>2, <2>4, <2>5, FinishReports
<1>4. CASE Item(s)
  <2>1. Failed(s) /\ MoreItems(s)
    BY <1>4 DEF Item, Read, Write, Ended
  <2>2. Ends(s, ILLEGAL_DATA_ADDR) /\ ~Accepted(s)
    BY <1>1, <2>1 DEF Failed, Ends, Codes, ILLEGAL_DATA_ADDR
  <2> QED BY <2>1, <2>2, FinishReports
<1>5. CASE SendReply(s)
  <2>1. Ends(s, 0)
    BY <1>1, <1>5 DEF SendReply, Ends, Codes
  <2> QED BY <2>1, FinishReports, ILLEGAL_DATA_ADDR # 0 DEF ILLEGAL_DATA_ADDR
<1> QED BY <1>2, <1>3, <1>4, <1>5 DEF SlaveThread

(* A step of one slave does not end what another one serves. *)
LEMMA OthersGoOn ==
  ASSUME SlaveInv, NEW s \in Slaves, SlaveThread(s), NEW x \in Slaves, x # s
  PROVE  ~Ended(x)
<1>1. frame'[x] = frame[x]
  BY DEF SlaveThread, LineIdle, Check, Item, Failed, Read, Write, SendReply, Finish,
         SlaveInv, SlaveShape
<1> QED BY <1>1 DEF Ended

(* The reply to a write says what was written (mbs_fc05 to mbs_fc16 and    *)
(* the exceptions they set).                                               *)
THEOREM RepliesTellEffects == SlaveSpec => EffectAsReported
<1>1. SlaveInv /\ [SlaveNext]_slaveVars => \A s \in Slaves : Reported(s)
  <2> SUFFICES ASSUME SlaveInv, [SlaveNext]_slaveVars, NEW x \in Slaves, Ended(x), IsWrite(x)
               PROVE  Reported(x)
    BY DEF Reported
  <2>1. ASSUME NEW s \in Slaves, SlaveThread(s) PROVE Reported(x)
    BY <2>1, ThreadReports, OthersGoOn
  <2>2. frame' = frame => FALSE
    BY DEF Ended
  <2> QED BY <2>1, <2>2 DEF SlaveNext, WriteEnable, Arrive, Taken, slaveVars
<1> QED BY <1>1, SlaveInvariant, PTL DEF EffectAsReported, SlaveSpec

-----------------------------------------------------------------------------
(* The slaves and a master on one line. *)

LEMMA RestOfLine ==
  ASSUME NEW S, NEW q \in Seq(S), q # <<>>, NEW b \in S
  PROVE  /\ Tail(q) \in Seq(S) /\ [q EXCEPT ![1] = b] \in Seq(S) /\ Head(q) = q[1]
         /\ q[1] \in S /\ Len(q) \in Nat /\ Len(q) >= 1 /\ Len(Tail(q)) = Len(q) - 1
         /\ Len([q EXCEPT ![1] = b]) = Len(q) /\ [q EXCEPT ![1] = b][1] = b
<1>1. 1 \in 1 .. Len(q) /\ Len(q) \in Nat
  BY EmptySeq, LenProperties
<1> QED BY <1>1, ExceptSeq, HeadTailProperties, ElementOfSeq

LEMMA FirstReplaced ==
  ASSUME NEW S, NEW q \in Seq(S), NEW b \in S
  PROVE  [q EXCEPT ![1] = b] \in Seq(S) /\ Len([q EXCEPT ![1] = b]) = Len(q)
<1> DEFINE w == [q EXCEPT ![1] = b]
<1>1. Len(q) \in Nat /\ DOMAIN q = 1 .. Len(q) /\ \A i \in 1 .. Len(q) : q[i] \in S
  BY LenProperties, ElementOfSeq
<1>2. w = [i \in 1 .. Len(q) |-> IF i = 1 THEN b ELSE q[i]]
  BY <1>1
<1> HIDE DEF w
<1>3. w \in Seq(S) /\ Len(w) = Len(q)
  BY <1>1, <1>2, IsASeq
<1> QED BY <1>3 DEF w

MutexInv ==
  /\ mutex \in Task \cup {None}
  /\ at \in [Task -> {"idle", "lock", "send", "wait"}]
  /\ call \in [Task -> Asked \cup {None}]
  /\ \A t \in Task : /\ at[t] \in {"send", "wait"} <=> mutex = t
                     /\ at[t] # "idle" => call[t] \in Asked
                     /\ at[t] = "wait" => tx_frame = call[t]

LEMMA HolderIsOne ==
  ASSUME MutexInv, NEW t \in Task, at[t] \in {"send", "wait"}, NEW x \in Task, x # t
  PROVE  at[x] \notin {"send", "wait"}
BY DEF MutexInv

(* A step of Next moves one slave, or none. *)
LEMMA SlavesOfNext ==
  ASSUME SlaveInv, MutexInv, [Next]_vars
  PROVE  \/ \E s \in Slaves : SlaveThread(s)
         \/ UNCHANGED <<frame, stage, done, admitted>> /\ SlaveShape'
<1>1. ASSUME NEW t \in Task, Call(t) \/ Acquire(t) \/ Receive(t) \/ Timeout(t)
      PROVE  UNCHANGED slaveVars
  BY <1>1 DEF Call, Acquire, Receive, Timeout, Return, slaveVars
<1>2. UNCHANGED slaveVars => UNCHANGED <<frame, stage, done, admitted>> /\ SlaveShape'
  BY DEF slaveVars, SlaveInv, SlaveShape
<1>3. ASSUME NEW t \in Task, Send(t)
      PROVE  UNCHANGED <<frame, stage, done, admitted>> /\ SlaveShape'
  <2>1. call[t] \in Request
    <3>1. call[t] \in Asked
      BY <1>3 DEF Send, MutexInv
    <3>2. Asked \subseteq Request
      BY MasterAssumption
    <3> QED BY <3>1, <3>2
  <2>2. \A s \in Slaves : Joined(rx_buff[s], call[t]) \in Request \cup {None, Junk}
    BY <2>1, JoinedIsBuffer
  <2>3. rx_buff' \in [Slaves -> Request \cup {None, Junk}]
    BY <1>3, <2>2 DEF Send, SlaveInv, SlaveShape
  <2> QED BY <1>3, <2>3 DEF Send, SlaveInv, SlaveShape
<1>4. CASE Deliver
  <2>1. line' \in Seq(Seq(Octet))
    <3>1. PICK n \in 1 .. Len(Head(line)) :
            line' = IF n = Len(Head(line)) THEN Tail(line)
                    ELSE [line EXCEPT ![1] = SubSeq(Head(line), n + 1, Len(Head(line)))]
      BY <1>4 DEF Deliver
    <3>2. line \in Seq(Seq(Octet)) /\ line # <<>>
      BY <1>4 DEF Deliver, SlaveInv, SlaveShape
    <3>3. Head(line) \in Seq(Octet)
      BY <3>2, HeadTailProperties
    <3>4. SubSeq(Head(line), n + 1, Len(Head(line))) \in Seq(Octet)
      BY <3>3, SubSeqProperties, LenProperties
    <3> QED BY <3>1, <3>2, <3>4, RestOfLine
  <2> QED BY <1>4, <2>1 DEF Deliver, SlaveInv, SlaveShape
<1>6. CASE Damage
  <2> DEFINE y == Head(line)
  <2>1. line \in Seq(Seq(Octet)) /\ line # <<>>
    BY <1>6 DEF Damage, SlaveInv, SlaveShape
  <2>2. y \in Seq(Octet)
    BY <2>1, HeadTailProperties
  <2>3. line' = Tail(line) \/ \E v \in Noise : line' = [line EXCEPT ![1] = [y EXCEPT ![1] = v]]
    BY <1>6 DEF Damage
  <2> HIDE DEF y
  <2>4. line' \in Seq(Seq(Octet))
    <3>1. ASSUME NEW v \in Noise, line' = [line EXCEPT ![1] = [y EXCEPT ![1] = v]]
          PROVE  line' \in Seq(Seq(Octet))
      <4>1. v \in Octet
        BY MasterAssumption DEF Octet
      <4>2. [y EXCEPT ![1] = v] \in Seq(Octet)
        BY <2>2, <4>1, FirstReplaced
      <4> QED BY <2>1, <3>1, <4>2, RestOfLine
    <3>2. Tail(line) \in Seq(Seq(Octet))
      BY <2>1, HeadTailProperties
    <3> QED BY <2>3, <3>1, <3>2
  <2> QED BY <1>6, <2>4 DEF Damage, SlaveInv, SlaveShape
<1>5. ASSUME NEW s \in Slaves, Application(s)
      PROVE  UNCHANGED <<frame, stage, done, admitted>> /\ SlaveShape'
  <2>1. ASSUME WriteEnable(s, TRUE)
        PROVE  UNCHANGED <<frame, stage, done, admitted>> /\ SlaveShape'
    BY <2>1 DEF WriteEnable, SlaveInv, SlaveShape
  <2>2. ASSUME NEW k \in {"di", "in"}, NEW a \in Known[k],
               NEW v \in IF k = "di" THEN Bit ELSE Values, Change(s, k, a, v)
        PROVE  UNCHANGED <<frame, stage, done, admitted>> /\ SlaveShape'
    <3>1. k \in Tables /\ a \in Items /\ v \in Values
      BY KnownAreItems, WordAssumption DEF Tables
    <3>2. table' = [table EXCEPT ![s][k][a] = v]
      BY <2>2 DEF Change
    <3>3. table' \in [Slaves -> [Tables -> [Items -> Values]]]
      BY <3>1, <3>2 DEF SlaveInv, SlaveShape
    <3>4. ASSUME NEW x \in Slaves, NEW i \in {"coil", "di"}, NEW b \in Items
          PROVE  table'[x][i][b] \in Bit
      <4>1. table[x][i][b] \in Bit
        BY DEF SlaveInv, SlaveShape
      <4>2. table'[x][i][b] \in {table[x][i][b], v} /\ (k # i => table'[x][i][b] = table[x][i][b])
        BY <3>1, <3>2 DEF SlaveInv, SlaveShape, Tables
      <4> QED BY <4>1, <4>2
    <3> QED BY <2>2, <3>3, <3>4 DEF Change, SlaveInv, SlaveShape
  <2> QED BY <1>5, <2>1, <2>2 DEF Application
<1> QED BY <1>1, <1>2, <1>3, <1>4, <1>5, <1>6 DEF Next, Member, SlaveMoves, vars

LEMMA MutexInvStep == MutexInv /\ [Next]_vars => MutexInv'
<1> SUFFICES ASSUME MutexInv, [Next]_vars PROVE MutexInv'
  OBVIOUS
<1>0. None \notin Task
  BY MasterAssumption
<1>1. ASSUME NEW t \in Task, Call(t) PROVE MutexInv'
  BY <1>1 DEF Call, MutexInv
<1>2. ASSUME NEW t \in Task, Acquire(t) PROVE MutexInv'
  BY <1>0, <1>2 DEF Acquire, Free, MutexInv
<1>3. ASSUME NEW t \in Task, Send(t) PROVE MutexInv'
  <2>1. /\ at[t] = "send" /\ at' = [at EXCEPT ![t] = "wait"]
        /\ tx_frame' = call[t] /\ UNCHANGED <<mutex, call>>
    BY <1>3 DEF Send
  <2>2. \A x \in Task : x # t => at[x] \notin {"send", "wait"}
    BY <2>1, HolderIsOne
  <2> QED BY <2>1, <2>2 DEF MutexInv
<1>4. ASSUME NEW t \in Task, Receive(t) \/ Timeout(t) PROVE MutexInv'
  <2>1. /\ at[t] = "wait" /\ at' = [at EXCEPT ![t] = "idle"] /\ mutex' = None
        /\ call' = [call EXCEPT ![t] = None] /\ tx_frame' = tx_frame
    BY <1>4 DEF Receive, Timeout, Return, Released
  <2> QED BY <1>0, <2>1 DEF MutexInv
<1>5. ASSUME UNCHANGED masterVars PROVE MutexInv'
  BY <1>5 DEF masterVars, MutexInv
<1>6. CASE Deliver
  BY <1>6 DEF Deliver, MutexInv
<1>7. ASSUME NEW s \in Slaves, SlaveMoves(s) \/ Application(s) PROVE UNCHANGED masterVars
  BY <1>7 DEF SlaveMoves, Application, Observed
<1>8. UNCHANGED vars \/ Damage => UNCHANGED masterVars
  BY DEF vars, Damage
<1> QED BY <1>1, <1>2, <1>3, <1>4, <1>5, <1>6, <1>7, <1>8 DEF Next, Member

LEMMA GluedInTwoWays ==
  ASSUME NEW x \in Seq(Octet), NEW y \in Seq(Octet), NEW z \in Seq(Octet)
  PROVE  (x \o y) \o z = x \o (y \o z)
BY ConcatAssociative

LEMMA NotEmpty ==
  ASSUME NEW q, Len(q) = 1
  PROVE  q # <<>>
BY Len(<<>>) = 0

LEMMA Pieces ==
  ASSUME NEW x \in Seq(Octet), NEW y \in Seq(Octet), NEW n \in 1 .. Len(y)
  PROVE  /\ SubSeq(y, 1, n) \in Seq(Octet) /\ SubSeq(y, n + 1, Len(y)) \in Seq(Octet)
         /\ (x \o SubSeq(y, 1, n)) \o SubSeq(y, n + 1, Len(y)) = x \o y
         /\ n = Len(y) => SubSeq(y, 1, n) = y
         /\ n # Len(y) => SubSeq(y, n + 1, Len(y)) # <<>>
<1> DEFINE u == SubSeq(y, 1, n)
           v == SubSeq(y, n + 1, Len(y))
<1>1. Len(y) \in Nat /\ n \in Nat /\ n >= 1 /\ n <= Len(y) /\ \A i \in 1 .. Len(y) : y[i] \in Octet
  BY LenProperties, ElementOfSeq
<1>2. u \in Seq(Octet)
  <2>1. \A i \in 1 .. n : y[i] \in Octet
    BY <1>1
  <2> QED BY <1>1, <2>1, SubSeqProperties
<1>3. v \in Seq(Octet) /\ Len(v) = IF n + 1 <= Len(y) THEN Len(y) - (n + 1) + 1 ELSE 0
  <2>1. \A i \in n + 1 .. Len(y) : y[i] \in Octet
    BY <1>1
  <2> QED BY <1>1, <2>1, SubSeqProperties
<1>4. u \o v = y
  <2>1. 1 \in 1 .. Len(y) + 1 /\ n \in 1 - 1 .. Len(y) /\ Len(y) \in n .. Len(y)
    BY <1>1
  <2>2. u \o v = SubSeq(y, 1, Len(y))
    BY <2>1, ConcatAdjacentSubSeq
  <2> QED BY <2>2, SubSeqFull
<1>5. n = Len(y) => u = y
  BY SubSeqFull
<1> HIDE DEF u, v
<1>6. (x \o u) \o v = x \o y
  <2>1. v \in Seq(Octet)
    BY <1>3
  <2>2. (x \o u) \o v = x \o (u \o v)
    BY <1>2, <2>1, GluedInTwoWays
  <2> QED BY <1>4, <2>2
<1>7. n # Len(y) => v # <<>>
  BY <1>1, <1>3, EmptySeq
<1> QED BY <1>2, <1>3, <1>5, <1>6, <1>7 DEF u, v

LEMMA ReplyHasData ==
  ASSUME NEW f \in Request, f.count > 0
  PROVE  ReplySize(f) \in Nat /\ ReplySize(f) >= 1
<1>0. f.count \in Nat
  BY RequestNumbers
<1>1. CASE IsBits(f.fc)
  <2>1. ReplySize(f) = (f.count - 1) \div 8 + 1
    BY <1>1 DEF ReplySize, BytesForBits
  <2>2. (f.count - 1) \div 8 \in Nat
    BY <1>0
  <2> QED BY <2>1, <2>2
<1>2. CASE ~IsBits(f.fc)
  <2>1. ReplySize(f) = f.count * Width(f.start)
    BY <1>2 DEF ReplySize
  <2>2. CASE Width(f.start) = 2
    BY <1>0, <2>1, <2>2
  <2>3. CASE Width(f.start) = 4
    BY <1>0, <2>1, <2>3
  <2> QED BY <2>2, <2>3, WidthIs
<1> QED BY <1>1, <1>2

-----------------------------------------------------------------------------
(* The state of the channel. *)

ChannelShape ==
  /\ tx_frame \in Asked \cup {None}
  /\ queue_rx \in Seq(Octet)
  /\ result \in [err : Errors, vals : Seq(Nat)]
  /\ calls \in 0 .. MaxCalls
  /\ held \in [Task -> [Items -> SUBSET Values]]
  /\ ran \in [Task -> BOOLEAN]
  /\ damage \in 0 .. MaxDamage

(* The comparison finds an error of its list, or none. *)
LEMMA ComparedIsError ==
  ASSUME NEW f \in Request, f.fc \in Reads \cup Writes, NEW b
  PROVE  Compared(f, b) \in Errors
<1>1. CASE b[1] # f.addr \/ b[2] # f.fc
  BY <1>1 DEF Compared, Errors
<1>2. CASE b[1] = f.addr /\ b[2] = f.fc
  <2>1. CASE f.fc \in Reads
    BY <1>2, <2>1 DEF Compared, Errors, Reads
  <2>2. CASE f.fc \in {5, 15}
    BY <1>2, <2>2 DEF Compared, Errors, Reads
  <2>3. CASE f.fc \in {6, 16}
    BY <1>2, <2>3 DEF Compared, Errors, Reads
  <2> QED BY <2>1, <2>2, <2>3 DEF Writes
<1> QED BY <1>1, <1>2

LEMMA HalvedIsNumber ==
  ASSUME NEW x \in Nat, NEW m \in {1, 2, 4, 8, 16, 32, 64, 128}
  PROVE  (x \div m) % 2 \in Nat
<1>1. x \div m \in Int
  OBVIOUS
<1> QED BY <1>1

(* Every item is parsed from bytes that have come. *)
LEMMA ParsedIsNumber ==
  ASSUME NEW f \in Request, f.fc \in Reads, NEW b \in Seq(Octet), Len(b) = Expected(f),
         NEW i \in 1 .. f.count
  PROVE  Parsed(f, b, i) \in Nat
<1>1. f.count \in Nat /\ i \in Nat /\ i >= 1 /\ i <= f.count
  BY RequestNumbers
<1>2. Len(b) = 5 + ReplySize(f)
  BY DEF Expected
<1>3. \A k \in 1 .. Len(b) : b[k] \in Nat
  <2>1. \A v \in Octet : v \in Nat
    BY ByteIs DEF Octet, ANY
  <2> QED BY <2>1, ElementOfSeq
<1>4. CASE IsBits(f.fc)
  <2> DEFINE k == 4 + (i - 1) \div 8
             m == Mask[1 + ((i - 1) % 8)]
  <2>1. ReplySize(f) = (f.count - 1) \div 8 + 1
    BY <1>4 DEF ReplySize, BytesForBits
  <2>2. k \in 1 .. Len(b)
    <3> DEFINE q == (i - 1) \div 8
               r == (f.count - 1) \div 8
    <3>1. q \in Nat /\ r \in Nat /\ q <= r
      BY <1>1
    <3>2. Len(b) = 5 + (r + 1) /\ k = 4 + q
      BY <1>2, <2>1
    <3> HIDE DEF q, r, k
    <3> QED BY <3>1, <3>2
  <2>3. m \in {1, 2, 4, 8, 16, 32, 64, 128}
    <3> DEFINE j == 1 + ((i - 1) % 8)
    <3>1. j \in 1 .. 8
      BY <1>1
    <3> HIDE DEF j
    <3>2. Mask[j] \in {1, 2, 4, 8, 16, 32, 64, 128}
      BY <3>1 DEF Mask
    <3> QED BY <3>2 DEF j
  <2>4. Parsed(f, b, i) = (b[k] \div m) % 2
    BY <1>4 DEF Parsed
  <2> HIDE DEF k, m
  <2>5. b[k] \in Nat
    BY <1>3, <2>2
  <2> QED BY <2>3, <2>4, <2>5, HalvedIsNumber
<1>5. CASE ~IsBits(f.fc)
  <2> DEFINE w == Width(f.start)
             last == 3 + i * w
  <2>1. ReplySize(f) = f.count * w
    BY <1>5 DEF ReplySize
  <2>2. w \in {2, 4}
    BY WidthIs
  <2> HIDE DEF w
  <2>3. last \in 1 .. Len(b) /\ last - 1 \in 1 .. Len(b)
    <3>1. CASE w = 2
      BY <1>1, <1>2, <2>1, <3>1
    <3>2. CASE w = 4
      BY <1>1, <1>2, <2>1, <3>2
    <3> QED BY <2>2, <3>1, <3>2
  <2>4. Parsed(f, b, i) = 256 * b[last - 1] + b[last]
    BY <1>5 DEF Parsed, w
  <2> HIDE DEF last
  <2>5. b[last - 1] \in Nat /\ b[last] \in Nat
    BY <1>3, <2>3
  <2> QED BY <2>4, <2>5
<1> QED BY <1>4, <1>5

LEMMA EvaluatedIsOutcome ==
  ASSUME NEW f \in Request, f.fc \in Reads \cup Writes, NEW b \in Seq(Octet),
         Len(b) = Expected(f)
  PROVE  Evaluated(f, b) \in [err : Errors, vals : Seq(Nat)]
<1> DEFINE e == Compared(f, b)
           items == IF e = "NONE" /\ f.fc \in Reads
                    THEN [i \in 1 .. f.count |-> Parsed(f, b, i)] ELSE <<>>
<1>1. e \in Errors
  BY ComparedIsError
<1>2. items \in Seq(Nat)
  <2>1. CASE e = "NONE" /\ f.fc \in Reads
    <3>1. \A i \in 1 .. f.count : Parsed(f, b, i) \in Nat
      BY <2>1, ParsedIsNumber
    <3>2. f.count \in Nat
      BY RequestNumbers
    <3> QED BY <2>1, <3>1, <3>2, IsASeq
  <2>2. CASE ~(e = "NONE" /\ f.fc \in Reads)
    BY <2>2, EmptySeq
  <2> QED BY <2>1, <2>2
<1>3. Evaluated(f, b) = [err |-> e, vals |-> items]
  BY DEF Evaluated, Outcome
<1> HIDE DEF e, items
<1> QED BY <1>1, <1>2, <1>3

LEMMA ChannelShapeStep ==
  ASSUME SlaveInv, MutexInv, ChannelShape, [Next]_vars, SlaveShape'
  PROVE  ChannelShape'
<1>1. ASSUME NEW t \in Task, Call(t) PROVE ChannelShape'
  BY <1>1, MasterAssumption DEF Call, ChannelShape
<1>2. ASSUME NEW t \in Task, Acquire(t) PROVE ChannelShape'
  <2>1. Outcome("NONE", <<>>) \in [err : Errors, vals : Seq(Nat)]
    BY EmptySeq DEF Outcome, Errors
  <2> QED BY <1>2, <2>1 DEF Acquire, ChannelShape
<1>3. ASSUME NEW t \in Task, Send(t) PROVE ChannelShape'
  <2>1. call[t] \in Asked
    BY <1>3 DEF Send, MutexInv
  <2>2. Now(call[t]) \in [Items -> SUBSET Values]
    <3>1. Table(call[t].fc) \in Tables
      BY TableOf
    <3> QED BY <3>1 DEF Now, Nothing, SlaveInv, SlaveShape
  <2> QED BY <1>3, <2>1, <2>2 DEF Send, ChannelShape
<1>4. ASSUME NEW t \in Task, NEW r \in [err : Errors, vals : Seq(Nat)], Return(t, r),
             queue_rx' \in Seq(Octet)
      PROVE  ChannelShape'
  BY <1>4, MasterAssumption DEF Return, Nothing, ChannelShape
<1>5. ASSUME NEW t \in Task, Receive(t) PROVE ChannelShape'
  <2> DEFINE f == tx_frame
             n == Expected(f)
  <2>1. f \in Request /\ f.fc \in Reads \cup Writes /\ f.count > 0
    BY <1>5, MasterAssumption DEF Receive, MutexInv
  <2>2. n \in Nat /\ n <= Len(queue_rx) /\ queue_rx \in Seq(Octet) /\ Len(queue_rx) \in Nat
    BY <1>5, <2>1, ReplyHasData DEF Receive, Expected, ChannelShape
  <2>3. /\ queue_rx' = SubSeq(queue_rx, n + 1, Len(queue_rx))
        /\ Return(t, Evaluated(f, SubSeq(queue_rx, 1, n)))
    BY <1>5 DEF Receive
  <2> HIDE DEF n
  <2>4. \A i \in 1 .. Len(queue_rx) : queue_rx[i] \in Octet
    BY <2>2, ElementOfSeq
  <2>5. SubSeq(queue_rx, 1, n) \in Seq(Octet) /\ Len(SubSeq(queue_rx, 1, n)) = n
    <3>1. \A i \in 1 .. n : queue_rx[i] \in Octet
      BY <2>2, <2>4
    <3>2. /\ SubSeq(queue_rx, 1, n) \in Seq(Octet)
          /\ Len(SubSeq(queue_rx, 1, n)) = IF 1 <= n THEN n - 1 + 1 ELSE 0
      BY <2>2, <3>1, SubSeqProperties
    <3> QED BY <2>2, <3>2
  <2>6. queue_rx' \in Seq(Octet)
    <3>1. \A i \in n + 1 .. Len(queue_rx) : queue_rx[i] \in Octet
      BY <2>2, <2>4
    <3> QED BY <2>2, <2>3, <3>1, SubSeqProperties
  <2>7. Evaluated(f, SubSeq(queue_rx, 1, n)) \in [err : Errors, vals : Seq(Nat)]
    BY <2>1, <2>5, EvaluatedIsOutcome DEF n
  <2> QED BY <1>4, <2>3, <2>6, <2>7
<1>6. ASSUME NEW t \in Task, Timeout(t) PROVE ChannelShape'
  <2>1. Outcome(LateError, <<>>) \in [err : Errors, vals : Seq(Nat)]
    BY EmptySeq DEF Outcome, LateError, Errors
  <2>2. queue_rx' \in Seq(Octet)
    BY <1>6, EmptySeq DEF Timeout
  <2> QED BY <1>4, <1>6, <2>1, <2>2 DEF Timeout
<1>7. CASE Deliver
  <2> DEFINE y == line[1]
  <2>1. line \in Seq(Seq(Octet)) /\ line # <<>> /\ queue_rx \in Seq(Octet)
    BY <1>7 DEF Deliver, SlaveInv, SlaveShape, ChannelShape
  <2>2. Head(line) = y /\ y \in Seq(Octet)
    BY <2>1, RestOfLine
  <2>3. PICK n \in 1 .. Len(y) : queue_rx' = queue_rx \o SubSeq(y, 1, n)
    BY <1>7, <2>2 DEF Deliver
  <2> HIDE DEF y
  <2>4. queue_rx' \in Seq(Octet)
    BY <2>1, <2>2, <2>3, Pieces, Glued
  <2> QED BY <1>7, <2>4 DEF Deliver, ChannelShape
<1>8. CASE Observed
  <2>1. ASSUME NEW t \in Task PROVE held'[t] \in [Items -> SUBSET Values]
    <3>1. held[t] \in [Items -> SUBSET Values]
      BY DEF ChannelShape
    <3> DEFINE x(a) == table'[call[t].addr][Table(call[t].fc)][a]
    <3>2. CASE at[t] = "wait" /\ call[t].addr \in Slaves
      <4>1. \A a \in Items : x(a) \in Values
        BY <3>2, TableOf DEF SlaveShape
      <4>2. held'[t] = [a \in Items |-> held[t][a] \cup {x(a)}]
        BY <1>8, <3>2 DEF Observed
      <4> HIDE DEF x
      <4> QED BY <3>1, <4>1, <4>2
    <3>3. CASE ~(at[t] = "wait" /\ call[t].addr \in Slaves)
      BY <1>8, <3>1, <3>3 DEF Observed
    <3> QED BY <3>2, <3>3
  <2>2. held' \in [Task -> [Items -> SUBSET Values]]
    BY <1>8, <2>1 DEF Observed
  <2>3. ran' \in [Task -> BOOLEAN] /\ UNCHANGED <<masterVars, damage>>
    BY <1>8 DEF Observed
  <2> QED BY <2>2, <2>3 DEF ChannelShape, masterVars
<1>9. CASE UNCHANGED vars
  BY <1>9 DEF vars, masterVars, ChannelShape
<1>10. CASE Damage
  BY <1>10, MasterAssumption DEF Damage, masterVars, ChannelShape
<1> QED BY <1>1, <1>2, <1>3, <1>5, <1>6, <1>7, <1>8, <1>9, <1>10 DEF Next, Member, SlaveMoves, Application

LineInv == SlaveInv /\ MutexInv /\ ChannelShape

LEMMA LineInvStep == LineInv /\ [Next]_vars => LineInv'
<1> SUFFICES ASSUME LineInv, [Next]_vars PROVE LineInv'
  OBVIOUS
<1>1. SlaveInv' /\ MutexInv'
  BY SlavesOfNext, ThreadKeepsInv, ElseKeepsInv, MutexInvStep DEF LineInv
<1>2. ChannelShape'
  BY <1>1, ChannelShapeStep DEF LineInv, SlaveInv
<1> QED BY <1>1, <1>2 DEF LineInv

LEMMA LineInvInit == Init => LineInv
<1> SUFFICES ASSUME Init PROVE LineInv
  OBVIOUS
<1>1. SlaveInv
  BY SlaveInvInit DEF Init
<1>2. MutexInv
  BY MasterAssumption DEF Init, MutexInv
<1>3. ChannelShape
  <2>1. Outcome("NONE", <<>>) \in [err : Errors, vals : Seq(Nat)]
    BY EmptySeq DEF Outcome, Errors
  <2> QED BY <2>1, MasterAssumption, EmptySeq DEF Init, ChannelShape, Nothing
<1> QED BY <1>1, <1>2, <1>3 DEF LineInv

(* The slaves, who holds the mutex of the channel, and its state.          *)
THEOREM LineInvariant == Spec => []LineInv
BY LineInvInit, LineInvStep, PTL DEF Spec

(* The state has its types: whatever is asked of a slave, its replies are  *)
(* bytes, and fit into a frame (mbs_fcXX, mb_slave_tx_dis_and_send).       *)
LEMMA SlaveInvTypes == SlaveInv => SlaveTypeOK
BY DEF SlaveInv, SlaveShape, Serves, SlaveTypeOK, Octet

THEOREM SlaveTypes == SlaveSpec => []SlaveTypeOK
BY SlaveInvTypes, SlaveInvariant, PTL

THEOREM LineTypes == Spec => []TypeOK
<1>1. LineInv => TypeOK
  BY SlaveInvTypes DEF LineInv, MutexInv, ChannelShape, TypeOK, Octet
<1> QED BY <1>1, LineInvariant, PTL

(* The mutex makes the transmit frame the caller's own (mbm_fcXX, mb_rtu). *)
THEOREM MutexGuardsFrame == Spec => []FrameIsOwn
<1>1. LineInv => FrameIsOwn
  <2> SUFFICES ASSUME MutexInv, NEW t \in Task, at[t] = "wait"
               PROVE  mutex = t /\ tx_frame = call[t]
    BY DEF FrameIsOwn, Waits, LineInv
  <2>1. at[t] \in {"send", "wait"}
    OBVIOUS
  <2> QED BY <2>1 DEF MutexInv
<1> QED BY <1>1, LineInvariant, PTL

(* Also on the line of that master a reply says what was written, and no   *)
(* write comes from a request that was taken while writes were disabled.   *)
THEOREM LineRepliesTellEffects == Spec => EffectAsReported
<1>1. LineInv /\ [Next]_vars => \A s \in Slaves : Reported(s)
  <2> SUFFICES ASSUME SlaveInv, MutexInv, [Next]_vars, NEW x \in Slaves, Ended(x), IsWrite(x)
               PROVE  Reported(x)
    BY DEF Reported, LineInv
  <2>1. ASSUME NEW s \in Slaves, SlaveThread(s) PROVE Reported(x)
    BY <2>1, ThreadReports, OthersGoOn
  <2>2. frame' # frame
    BY DEF Ended
  <2> QED BY <2>1, <2>2, SlavesOfNext
<1> QED BY <1>1, LineInvariant, PTL DEF EffectAsReported, Spec

-----------------------------------------------------------------------------
(* Slaves that answer in time or not at all: either the request of the one *)
(* task that waits is on the line, or its reply, or nothing.               *)

Harmless(s, b) == b \in {None, Junk} \/ b.addr \notin {s, 0}

FromTable(seen, f, items) == \A i \in DOMAIN items : items[i][2] \in seen[Number(f, i)]

(* What a slave may answer to f, by what was seen of its data meanwhile.   *)
Answers(seen, carriedOut, f, b) ==
  \/ \E code \in 1 .. 4 : b = ExceptionBytes(f, code)
  \/ f.fc \in Writes /\ carriedOut /\ b = EchoBytes(f)
  \/ /\ f.fc \in Reads /\ ReplySize(f) \in Byte
     /\ \E items \in Seq(Items \X Values) :
          /\ Len(items) = f.count /\ DoneFits(f, items) /\ FromTable(seen, f, items)
          /\ b = ReadBytes(f, items)

Silent == queue_rx = <<>> /\ line = <<>>

Unheard == \A s \in Slaves : frame[s] = None /\ Harmless(s, rx_buff[s])

(* What came of the one reply b, and what is still to come: b itself,      *)
(* unless it was damaged, and then nothing longer.                         *)
Stream == IF line = <<>> THEN queue_rx ELSE queue_rx \o line[1]

Requested(f) ==
  \A s \in Slaves :
    /\ rx_buff[s] = f \/ Harmless(s, rx_buff[s])
    /\ frame[s] # None => frame[s] = f /\ f.addr \in {s, 0} /\ Harmless(s, rx_buff[s])

Watched(t, f) ==
  f.addr \in Slaves =>
    /\ \A a \in Items : table[f.addr][Table(f.fc)][a] \in held[t][a]
    /\ frame[f.addr] # None => FromTable(held[t], f, done[f.addr])

Replied(t, f) ==
  /\ f.addr \in Slaves /\ frame[f.addr] = None /\ Harmless(f.addr, rx_buff[f.addr])
  /\ line = <<>> \/ (Len(line) = 1 /\ line[1] # <<>>)
  /\ \E b : /\ Answers(held[t], ran[t], f, b)
            /\ Len(Stream) <= Len(b) /\ (damage = 0 => Stream = b)

Waiting(t) == /\ Requested(call[t]) /\ Watched(t, call[t])
              /\ Silent \/ Replied(t, call[t])

PunctualInv ==
  /\ (\A t \in Task : ~Waits(t)) => Silent /\ Unheard
  /\ \A t \in Task : Waits(t) => Waiting(t)

LEMMA FromTableStays ==
  ASSUME NEW f \in Request, NEW items \in Seq(Items \X Values), DoneFits(f, items),
         NEW seen, NEW more, \A a \in Items : seen[a] \subseteq more[a],
         FromTable(seen, f, items)
  PROVE  FromTable(more, f, items)
<1>1. ASSUME NEW i \in DOMAIN items PROVE items[i][2] \in more[Number(f, i)]
  <2>1. items[i][1] = Number(f, i)
    BY DEF DoneFits
  <2>2. i \in 1 .. Len(items)
    BY LenProperties
  <2>3. items[i] \in Items \X Values
    BY <2>2, ElementOfSeq
  <2>4. Number(f, i) \in Items
    BY <2>1, <2>3
  <2> QED BY <2>4 DEF FromTable
<1> QED BY <1>1 DEF FromTable

LEMMA AnswersStay ==
  ASSUME NEW f \in Request, NEW b, NEW seen, NEW more, \A a \in Items : seen[a] \subseteq more[a],
         NEW c \in BOOLEAN, NEW d \in BOOLEAN, c => d, Answers(seen, c, f, b)
  PROVE  Answers(more, d, f, b)
<1>1. CASE f.fc \in Reads /\ ReplySize(f) \in Byte /\
           \E items \in Seq(Items \X Values) :
              /\ Len(items) = f.count /\ DoneFits(f, items) /\ FromTable(seen, f, items)
              /\ b = ReadBytes(f, items)
  BY <1>1, FromTableStays DEF Answers
<1> QED BY <1>1 DEF Answers

(* An exception is shorter than the reply that the master waits for, and   *)
(* no reply is longer.                                                     *)
LEMMA AnswersFit ==
  ASSUME NEW f \in Request, f.fc \in Reads \cup Writes, f.count > 0,
         NEW seen, NEW c, NEW b, Answers(seen, c, f, b)
  PROVE  /\ b \in Seq(Octet) /\ Len(b) \in Nat /\ Len(b) >= 1
         /\ Expected(f) \in Nat /\ Expected(f) >= 6 /\ Len(b) <= Expected(f)
         /\ Len(b) = Expected(f) => ~\E code \in 1 .. 4 : b = ExceptionBytes(f, code)
<1>1. Expected(f) \in Nat /\ Expected(f) >= 6
  BY ReplyHasData DEF Expected
<1>2. ASSUME NEW code \in 1 .. 4, b = ExceptionBytes(f, code)
      PROVE  b \in Seq(Octet) /\ Len(b) = 5
  BY <1>2, ExceptionSays
<1>3. CASE f.fc \in Writes /\ b = EchoBytes(f)
  <2>1. b \in Seq(Octet) /\ Len(b) = 8 /\ Expected(f) = 8
    BY <1>3, EchoSays DEF Expected, Reads, Writes
  <2> QED BY <1>1, <1>2, <2>1
<1>4. ASSUME f.fc \in Reads, ReplySize(f) \in Byte, NEW items \in Seq(Items \X Values),
             DoneFits(f, items), b = ReadBytes(f, items)
      PROVE  b \in Seq(Octet) /\ Len(b) = Expected(f)
  BY <1>4, ReadSays DEF Expected
<1>5. CASE \E code \in 1 .. 4 : b = ExceptionBytes(f, code)
  <2>1. b \in Seq(Octet) /\ Len(b) = 5
    BY <1>2, <1>5
  <2>2. Len(b) # Expected(f) /\ Len(b) <= Expected(f)
    BY <1>1, <2>1
  <2> QED BY <1>1, <2>1, <2>2
<1>6. CASE ~\E code \in 1 .. 4 : b = ExceptionBytes(f, code)
  BY <1>1, <1>3, <1>4, <1>6 DEF Answers
<1> QED BY <1>5, <1>6

-----------------------------------------------------------------------------
(* Its steps. *)

(* What a task does before it sends. *)
LEMMA OthersWait ==
  ASSUME PunctualInv, UNCHANGED <<slaveVars, queue_rx, held, ran, damage>>,
         \A t \in Task : /\ at'[t] = "wait" <=> at[t] = "wait"
                         /\ at[t] = "wait" => call'[t] = call[t]
  PROVE  PunctualInv'
<1>1. (Silent <=> Silent') /\ (Unheard <=> Unheard')
  BY DEF Silent, Unheard, slaveVars, Harmless
<1>2. ASSUME NEW t \in Task, Waits(t)' PROVE Waiting(t)'
  <2>1. Waits(t) /\ call'[t] = call[t] /\ Waiting(t)
    BY <1>2 DEF Waits, PunctualInv
  <2>2. Stream' = Stream
    BY DEF Stream, slaveVars
  <2> QED BY <1>1, <2>1, <2>2 DEF Waiting, Requested, Watched, Replied, slaveVars
<1>3. \A t \in Task : Waits(t)' <=> Waits(t)
  BY DEF Waits
<1> QED BY <1>1, <1>2, <1>3 DEF PunctualInv

LEMMA SendKeepsPunctual ==
  ASSUME SlaveInv, MutexInv, ChannelShape, PunctualInv, NEW t \in Task, Send(t)
  PROVE  PunctualInv'
<1> DEFINE f == call[t]
<1>1. f \in Request /\ f # None /\ f # Junk
  BY MasterAssumption, RequestAssumption DEF Send, MutexInv
<1>2. \A x \in Task : ~Waits(x)
  BY HolderIsOne DEF Send, Waits
<1>3. Silent /\ Unheard
  BY <1>2 DEF PunctualInv
<1>4. /\ at' = [at EXCEPT ![t] = "wait"] /\ held' = [held EXCEPT ![t] = Now(f)]
      /\ UNCHANGED <<table, write_en, frame, stage, done, admitted, line, queue_rx, call, ran>>
  BY DEF Send
<1>5. \A x \in Task : Waits(x)' <=> x = t
  BY <1>2, <1>4 DEF Waits, MutexInv
<1>6. \A s \in Slaves : rx_buff'[s] = f \/ Harmless(s, rx_buff'[s])
  <2>1. ASSUME NEW s \in Slaves
        PROVE  rx_buff'[s] \in {Joined(rx_buff[s], f), Junk, rx_buff[s]}
    BY DEF Send
  <2> QED BY <1>3, <2>1 DEF Unheard, Harmless, Joined
<1>7. Requested(call[t])'
  BY <1>3, <1>4, <1>6 DEF Requested, Unheard, Harmless
<1>8. held'[t] = Now(f)
  BY <1>4 DEF ChannelShape
<1>9. Watched(t, call[t])'
  BY <1>3, <1>4, <1>8 DEF Watched, Now, Unheard
<1>10. Silent'
  BY <1>3, <1>4 DEF Silent
<1> QED BY <1>5, <1>7, <1>9, <1>10 DEF PunctualInv, Waiting

(* The reply has come, and nothing else; it was no exception, and if it    *)
(* was not damaged it is as it was sent.                                   *)
LEMMA ReplyIsWhole ==
  ASSUME SlaveInv, MutexInv, ChannelShape, PunctualInv, NEW t \in Task, Waits(t),
         Len(queue_rx) >= Expected(call[t])
  PROVE  /\ line = <<>> /\ Replied(t, call[t]) /\ queue_rx \in Seq(Octet)
         /\ Len(queue_rx) = Expected(call[t]) /\ Expected(call[t]) \in Nat
         /\ \E b : /\ Answers(held[t], ran[t], call[t], b)
                   /\ ~\E code \in 1 .. 4 : b = ExceptionBytes(call[t], code)
                   /\ damage = 0 => queue_rx = b
<1> DEFINE f == call[t]
<1>1. f \in Request /\ f.fc \in Reads \cup Writes /\ f.count > 0
  BY MasterAssumption DEF Waits, MutexInv
<1>2. queue_rx \in Seq(Octet) /\ Len(queue_rx) \in Nat
  BY DEF ChannelShape
<1>3. Expected(f) \in Nat /\ Expected(f) >= 6
  BY <1>1, ReplyHasData DEF Expected
<1>4. ~Silent
  <2>1. Len(queue_rx) # 0
    BY <1>2, <1>3
  <2> QED BY <2>1, EmptySeq DEF Silent
<1>5. Replied(t, f)
  BY <1>4 DEF PunctualInv, Waiting
<1> HIDE DEF f
<1>6. PICK b : /\ Answers(held[t], ran[t], f, b)
               /\ Len(Stream) <= Len(b) /\ (damage = 0 => Stream = b)
  BY <1>5 DEF Replied
<1>7. /\ Len(b) \in Nat /\ Len(b) <= Expected(f)
      /\ Len(b) = Expected(f) => ~\E code \in 1 .. 4 : b = ExceptionBytes(f, code)
  BY <1>1, <1>6, AnswersFit
<1>8. line = <<>>
  <2> SUFFICES ASSUME line # <<>> PROVE FALSE
    OBVIOUS
  <2>1. Stream = queue_rx \o line[1] /\ line[1] # <<>> /\ Len(line) = 1
    BY <1>5 DEF Stream, Replied
  <2>2. line[1] \in Seq(Octet)
    BY <2>1, ElementOfSeq DEF SlaveInv, SlaveShape
  <2>3. Len(queue_rx \o line[1]) = Len(queue_rx) + Len(line[1])
    BY <1>2, <2>2, Glued
  <2>4. Len(line[1]) \in Nat /\ Len(line[1]) # 0
    BY <2>1, <2>2, EmptySeq, LenProperties
  <2>5. Len(queue_rx) >= Expected(f)
    BY DEF f
  <2> QED BY <1>2, <1>3, <1>6, <1>7, <2>1, <2>3, <2>4, <2>5
<1>9. Stream = queue_rx
  BY <1>8 DEF Stream
<1>10. Len(queue_rx) = Expected(f) /\ Len(b) = Expected(f)
  <2>1. Len(queue_rx) >= Expected(f)
    BY DEF f
  <2> QED BY <1>2, <1>3, <1>6, <1>7, <1>9, <2>1
<1> QED BY <1>2, <1>3, <1>5, <1>6, <1>7, <1>8, <1>9, <1>10 DEF f

LEMMA ReturnKeepsPunctual ==
  ASSUME Punctual, SlaveInv, MutexInv, ChannelShape, PunctualInv, NEW t \in Task, Receive(t) \/ Timeout(t)
  PROVE  PunctualInv'
<1> DEFINE f == call[t]
<1>1. Waits(t) /\ f \in Request /\ tx_frame = f
  BY MasterAssumption DEF Receive, Timeout, Waits, MutexInv
<1>2. Waiting(t)
  BY <1>1 DEF PunctualInv
<1>3. /\ at' = [at EXCEPT ![t] = "idle"] /\ held' = [held EXCEPT ![t] = Nothing]
      /\ ran' = [ran EXCEPT ![t] = FALSE] /\ UNCHANGED slaveVars
  BY DEF Receive, Timeout, Return
<1>4. \A x \in Task : ~Waits(x)'
  <2>1. \A x \in Task : x # t => at[x] # "wait"
    BY <1>1, HolderIsOne DEF Waits
  <2> QED BY <1>3, <2>1 DEF Waits, MutexInv
<1>5. queue_rx' = <<>> /\ line = <<>> /\ Unheard
  <2>1. CASE Receive(t)
    <3>1. Len(queue_rx) >= Expected(f)
      BY <1>1, <2>1 DEF Receive
    <3>2. /\ line = <<>> /\ Replied(t, f) /\ queue_rx \in Seq(Octet)
          /\ Len(queue_rx) = Expected(f) /\ Expected(f) \in Nat
      BY <1>1, <3>1, ReplyIsWhole
    <3>3. queue_rx' = SubSeq(queue_rx, Expected(f) + 1, Len(queue_rx))
      BY <1>1, <2>1 DEF Receive
    <3>4. queue_rx' = <<>>
      BY <3>2, <3>3, SubSeqEmpty
    <3>5. ASSUME NEW s \in Slaves PROVE frame[s] = None /\ Harmless(s, rx_buff[s])
      <4>1. f.addr \in Slaves /\ frame[f.addr] = None /\ Harmless(f.addr, rx_buff[f.addr])
        BY <3>2 DEF Replied
      <4>2. f.addr # 0
        BY <4>1, SlaveAssumption
      <4>3. CASE s = f.addr
        BY <4>1, <4>3
      <4>4. CASE s # f.addr
        BY <1>2, <4>2, <4>4 DEF Waiting, Requested, Harmless
      <4> QED BY <4>3, <4>4
    <3> QED BY <3>2, <3>4, <3>5 DEF Unheard
  <2>2. CASE Timeout(t)
    BY <2>2 DEF Timeout, Quiet, Unheard, Harmless
  <2> QED BY <2>1, <2>2
<1>6. Silent' /\ Unheard'
  BY <1>3, <1>5 DEF Silent, Unheard, slaveVars, Harmless
<1> QED BY <1>4, <1>6 DEF PunctualInv

LEMMA DeliverKeepsPunctual ==
  ASSUME SlaveInv, MutexInv, ChannelShape, PunctualInv, Deliver
  PROVE  PunctualInv'
<1> DEFINE y == line[1]
<1>1. line \in Seq(Seq(Octet)) /\ line # <<>> /\ ~Silent /\ queue_rx \in Seq(Octet)
  BY DEF Deliver, SlaveInv, SlaveShape, Silent, ChannelShape
<1>2. Head(line) = y /\ y \in Seq(Octet)
  BY <1>1, RestOfLine
<1>3. PICK n \in 1 .. Len(y) :
        /\ queue_rx' = queue_rx \o SubSeq(y, 1, n)
        /\ line' = IF n = Len(y) THEN Tail(line)
                   ELSE [line EXCEPT ![1] = SubSeq(y, n + 1, Len(y))]
  BY <1>2 DEF Deliver
<1>4. UNCHANGED <<table, write_en, rx_buff, frame, stage, done, admitted, at, call, held, ran, damage>>
  BY DEF Deliver
<1> HIDE DEF y
<1>5. PICK t \in Task : Waits(t)
  BY <1>1 DEF PunctualInv
<1>6. ASSUME NEW x \in Task, Waits(x)' PROVE Waiting(x)'
  <2>1. Waits(x) /\ Waiting(x)
    BY <1>4, <1>6 DEF Waits, PunctualInv
  <2>2. Replied(x, call[x]) /\ Len(line) = 1
    BY <1>1, <2>1 DEF Waiting, Replied
  <2>3. Stream = queue_rx \o y
    BY <1>1 DEF Stream, y
  <2>4. Stream' = Stream /\ (line' = <<>> \/ (Len(line') = 1 /\ line'[1] # <<>>))
    <3>1. CASE n = Len(y)
      <4>1. line' = <<>>
        <5>1. Tail(line) \in Seq(Seq(Octet)) /\ Len(Tail(line)) = 0
          BY <1>1, <1>2, <2>2, RestOfLine
        <5>2. Tail(line) = <<>>
          BY <5>1, EmptySeq
        <5> QED BY <1>3, <3>1, <5>2
      <4>2. queue_rx' = queue_rx \o y
        BY <1>1, <1>2, <1>3, <3>1, Pieces
      <4> QED BY <2>3, <4>1, <4>2 DEF Stream
    <3>2. CASE n # Len(y)
      <4> DEFINE v == SubSeq(y, n + 1, Len(y))
      <4>1. v \in Seq(Octet) /\ v # <<>> /\ (queue_rx \o SubSeq(y, 1, n)) \o v = queue_rx \o y
        BY <1>1, <1>2, <3>2, Pieces
      <4>2. line' = [line EXCEPT ![1] = v]
        BY <1>3, <3>2
      <4> HIDE DEF v
      <4>3. Len(line') = 1 /\ line'[1] = v /\ line' \in Seq(Seq(Octet))
        BY <1>1, <2>2, <4>1, <4>2, RestOfLine
      <4>4. line' # <<>>
        BY <4>3, NotEmpty
      <4> QED BY <1>3, <2>3, <4>1, <4>3, <4>4 DEF Stream
    <3> QED BY <3>1, <3>2
  <2>5. Requested(call[x])' /\ Watched(x, call[x])'
    BY <1>4, <2>1 DEF Waiting, Requested, Watched, Harmless
  <2>6. Replied(x, call[x])'
    BY <1>4, <2>2, <2>4 DEF Replied, Harmless
  <2> QED BY <2>5, <2>6 DEF Waiting
<1>7. Waits(t)'
  BY <1>4, <1>5 DEF Waits
<1> QED BY <1>6, <1>7 DEF PunctualInv

LEMMA DamageKeepsPunctual ==
  ASSUME SlaveInv, MutexInv, ChannelShape, PunctualInv, Damage
  PROVE  PunctualInv'
<1>1. line \in Seq(Seq(Octet)) /\ line # <<>> /\ ~Silent /\ queue_rx \in Seq(Octet) /\ Len(queue_rx) \in Nat
  BY DEF Damage, SlaveInv, SlaveShape, Silent, ChannelShape
<1>2. PICK y \in Seq(Octet) : y = line[1] /\ y = Head(line) /\ Len(y) \in Nat
  BY <1>1, RestOfLine, LenProperties
<1>3. /\ UNCHANGED <<table, rx_buff, frame, done, queue_rx, at, call, held, ran>>
      /\ damage' # 0
  <2>1. damage \in Nat /\ damage' = damage + 1
    BY MasterAssumption DEF Damage, ChannelShape
  <2> QED BY <2>1 DEF Damage, masterVars
<1>4. PICK t \in Task : Waits(t)
  BY <1>1 DEF PunctualInv
<1>5. ASSUME NEW x \in Task, Waits(x)' PROVE Waiting(x)'
  <2>1. Waits(x) /\ Waiting(x)
    BY <1>3, <1>5 DEF Waits, PunctualInv
  <2>2. Replied(x, call[x]) /\ Len(line) = 1 /\ y # <<>>
    BY <1>1, <1>2, <2>1 DEF Waiting, Replied
  <2>3. PICK b : Answers(held[x], ran[x], call[x], b) /\ Len(Stream) <= Len(b)
    BY <2>2 DEF Replied
  <2>4. call[x] \in Request /\ call[x].fc \in Reads \cup Writes /\ call[x].count > 0
    BY <2>1, MasterAssumption DEF Waits, MutexInv
  <2>5. Len(b) \in Nat
    BY <2>3, <2>4, AnswersFit
  <2>6. Len(queue_rx) + Len(y) <= Len(b)
    <3>1. Stream = queue_rx \o y
      BY <1>1, <1>2 DEF Stream
    <3>2. Len(queue_rx \o y) = Len(queue_rx) + Len(y)
      BY <1>1, <1>2, Glued
    <3> QED BY <2>3, <3>1, <3>2
  <2>7. Len(Stream') <= Len(b) /\ (line' = <<>> \/ (Len(line') = 1 /\ line'[1] # <<>>))
    <3>1. CASE line' = Tail(line)
      <4>1. Tail(line) \in Seq(Seq(Octet)) /\ Len(Tail(line)) = 0
        BY <1>1, <2>2, <1>2, RestOfLine
      <4>2. line' = <<>>
        BY <3>1, <4>1, EmptySeq
      <4>3. Stream' = queue_rx
        BY <1>3, <4>2 DEF Stream
      <4> QED BY <1>1, <1>2, <2>5, <2>6, <4>2, <4>3
    <3>2. CASE line' # Tail(line)
      <4>1. PICK v \in Noise : line' = [line EXCEPT ![1] = [y EXCEPT ![1] = v]]
        BY <1>2, <3>2 DEF Damage
      <4>2. v \in Octet
        BY MasterAssumption DEF Octet
      <4>3. PICK z \in Seq(Octet) : z = [y EXCEPT ![1] = v] /\ Len(z) = Len(y)
        BY <1>2, <4>2, FirstReplaced
      <4>4. line' = [line EXCEPT ![1] = z]
        BY <4>1, <4>3
      <4>5. Len(line') = 1 /\ line'[1] = z /\ line' # <<>>
        BY <1>1, <2>2, <4>4, RestOfLine, NotEmpty
      <4>6. Len(y) # 0
        BY <1>2, <2>2, EmptySeq
      <4>7. z # <<>>
        BY <4>3, <4>6, EmptySeq
      <4>8. Stream' = queue_rx \o z
        BY <1>3, <4>5 DEF Stream
      <4>9. Len(queue_rx \o z) = Len(queue_rx) + Len(z)
        BY <1>1, Glued
      <4> QED BY <2>6, <4>3, <4>5, <4>7, <4>8, <4>9
    <3> QED BY <3>1, <3>2
  <2>8. Requested(call[x])' /\ Watched(x, call[x])'
    BY <1>3, <2>1 DEF Waiting, Requested, Watched, Harmless
  <2>9. Replied(x, call[x])'
    BY <1>3, <2>2, <2>3, <2>7 DEF Replied, Harmless
  <2> QED BY <2>8, <2>9 DEF Waiting
<1>6. Waits(t)'
  BY <1>3, <1>4 DEF Waits
<1> QED BY <1>5, <1>6 DEF PunctualInv

(* What the histories see of a step of a slave or of its application.      *)
LEMMA Observes ==
  ASSUME MutexInv, ChannelShape, Observed
  PROVE  /\ \A t \in Task : Waits(t)' <=> Waits(t)
         /\ \A t \in Task : Waits(t) =>
              /\ call'[t] = call[t]
              /\ \A a \in Items : held[t][a] \subseteq held'[t][a]
              /\ call[t].addr \in Slaves =>
                   \A a \in Items : table'[call[t].addr][Table(call[t].fc)][a] \in held'[t][a]
              /\ ran[t] => ran'[t]
<1>1. UNCHANGED <<queue_rx, at, call>>
  BY DEF Observed, masterVars
<1>2. ASSUME NEW t \in Task
      PROVE  /\ held'[t] = IF at[t] = "wait" /\ call[t].addr \in Slaves
                THEN [a \in Items |-> held[t][a] \cup {table'[call[t].addr][Table(call[t].fc)][a]}]
                ELSE held[t]
             /\ ran'[t] = (ran[t] \/ (at[t] = "wait" /\ \E s \in Slaves : CarriesOut(s, call[t])))
  BY DEF Observed
<1>3. ASSUME NEW t \in Task, Waits(t)
      PROVE  /\ call'[t] = call[t]
             /\ \A a \in Items : held[t][a] \subseteq held'[t][a]
             /\ call[t].addr \in Slaves =>
                  \A a \in Items : table'[call[t].addr][Table(call[t].fc)][a] \in held'[t][a]
             /\ ran[t] => ran'[t]
  BY <1>1, <1>2, <1>3 DEF Waits
<1>4. \A t \in Task : Waits(t)' <=> Waits(t)
  BY <1>1 DEF Waits
<1> QED BY <1>3, <1>4

(* A step that sends nothing: what a waiting task knows stays true.        *)
LEMMA WaitingGoesOn ==
  ASSUME SlaveInv, MutexInv, ChannelShape, PunctualInv, Observed, SlaveShape', ChannelShape', line' = line,
         NEW t \in Task, Waits(t), Requested(call[t])',
         call[t].addr \in Slaves /\ frame'[call[t].addr] # None =>
           FromTable(held'[t], call[t], done'[call[t].addr]),
         Replied(t, call[t]) =>
           frame'[call[t].addr] = None /\ Harmless(call[t].addr, rx_buff'[call[t].addr])
  PROVE  Waiting(t)'
<1> DEFINE f == call[t]
<1>1. f \in Request
  BY MasterAssumption DEF Waits, MutexInv
<1>2. Waiting(t)
  BY DEF PunctualInv
<1>3. /\ call'[t] = f /\ \A a \in Items : held[t][a] \subseteq held'[t][a]
      /\ f.addr \in Slaves =>
           \A a \in Items : table'[f.addr][Table(f.fc)][a] \in held'[t][a]
      /\ ran[t] => ran'[t]
  BY Observes
<1>4. Watched(t, call[t])'
  BY <1>3 DEF Watched
<1>5. queue_rx' = queue_rx /\ damage' = damage /\ Stream' = Stream
  BY DEF Observed, masterVars, Stream
<1>6. CASE Silent
  <2>1. Silent'
    BY <1>5, <1>6 DEF Silent
  <2> QED BY <1>4, <2>1 DEF Waiting
<1>7. CASE Replied(t, f)
  <2>1. ran[t] \in BOOLEAN /\ ran'[t] \in BOOLEAN
    BY DEF ChannelShape
  <2>2. PICK b : /\ Answers(held[t], ran[t], f, b)
                 /\ Len(Stream) <= Len(b) /\ (damage = 0 => Stream = b)
    BY <1>7 DEF Replied
  <2>3. Answers(held'[t], ran'[t], f, b)
    BY <1>1, <1>3, <2>1, <2>2, AnswersStay
  <2>4. \E r : /\ Answers(held'[t], ran'[t], f, r)
               /\ Len(Stream') <= Len(r) /\ (damage' = 0 => Stream' = r)
    BY <1>5, <2>2, <2>3
  <2>5. Replied(t, call[t])'
    BY <1>3, <1>5, <1>7, <2>4 DEF Replied
  <2> QED BY <1>4, <2>5 DEF Waiting
<1> QED BY <1>2, <1>6, <1>7 DEF Waiting

(* The application changes the data, or enables writes.                    *)
LEMMA AppKeepsPunctual ==
  ASSUME SlaveInv, MutexInv, ChannelShape, PunctualInv, SlaveShape', ChannelShape', NEW s \in Slaves, Application(s)
  PROVE  PunctualInv'
<1>1. Observed /\ UNCHANGED <<rx_buff, frame, done, line, queue_rx>>
  BY DEF Application, WriteEnable, Change, Observed, masterVars
<1>2. (Silent' <=> Silent) /\ (Unheard' <=> Unheard)
  BY <1>1 DEF Silent, Unheard, Harmless
<1>3. ASSUME NEW t \in Task, Waits(t) PROVE Waiting(t)'
  <2>1. Waiting(t) /\ call[t] \in Request
    BY <1>3, MasterAssumption DEF PunctualInv, Waits, MutexInv
  <2>2. call'[t] = call[t] /\ \A a \in Items : held[t][a] \subseteq held'[t][a]
    BY <1>1, <1>3, Observes
  <2>3. Requested(call[t])'
    BY <1>1, <2>1, <2>2 DEF Waiting, Requested, Harmless
  <2>4. ASSUME call[t].addr \in Slaves, frame[call[t].addr] # None
        PROVE  FromTable(held'[t], call[t], done[call[t].addr])
    <3>1. FromTable(held[t], call[t], done[call[t].addr])
      BY <2>1, <2>4 DEF Waiting, Watched
    <3>2. frame[call[t].addr] = call[t]
      BY <2>1, <2>4 DEF Waiting, Requested
    <3>3. done[call[t].addr] \in Seq(Items \X Values) /\ DoneFits(call[t], done[call[t].addr])
      BY <2>4, <3>2 DEF SlaveInv, SlaveShape, Serves
    <3> QED BY <2>1, <2>2, <3>1, <3>3, FromTableStays
  <2> QED BY <1>1, <1>3, <2>3, <2>4, WaitingGoesOn DEF Replied
<1>4. \A t \in Task : Waits(t)' <=> Waits(t)
  BY <1>1, Observes
<1> QED BY <1>2, <1>3, <1>4 DEF PunctualInv

(* A slave serves the request of the task that waits, or nothing.          *)
LEMMA ServesTheCall ==
  ASSUME SlaveInv, MutexInv, ChannelShape, PunctualInv, NEW s \in Slaves, frame[s] # None,
         NEW t \in Task, Waits(t)
  PROVE  /\ call[t] \in Request /\ call[t] # None /\ call[t] # Junk
         /\ frame[s] = call[t] /\ call[t].addr \in {s, 0} /\ Harmless(s, rx_buff[s])
         /\ call[t].addr \in Slaves => s = call[t].addr
         /\ Silent /\ ~Replied(t, call[t])
<1>1. Waiting(t) /\ call[t] \in Request /\ call[t] # None /\ call[t] # Junk
  BY MasterAssumption, RequestAssumption DEF PunctualInv, Waits, MutexInv
<1>2. frame[s] = call[t] /\ call[t].addr \in {s, 0} /\ Harmless(s, rx_buff[s])
  BY <1>1 DEF Waiting, Requested
<1>3. call[t].addr \in Slaves => s = call[t].addr
  BY <1>2, SlaveAssumption
<1>4. ~Replied(t, call[t])
  BY <1>3 DEF Replied
<1> QED BY <1>1, <1>2, <1>3, <1>4 DEF Waiting

(* While no task waits no slave serves. *)
LEMMA SomeoneWaits ==
  ASSUME PunctualInv, NEW s \in Slaves, frame[s] # None
  PROVE  \E t \in Task : Waits(t)
BY DEF PunctualInv, Unheard

LEMMA IdleKeepsPunctual ==
  ASSUME SlaveInv, MutexInv, ChannelShape, PunctualInv, SlaveShape', ChannelShape', NEW s \in Slaves, LineIdle(s), Observed
  PROVE  PunctualInv'
<1>1. /\ rx_buff' = [rx_buff EXCEPT ![s] = None] /\ UNCHANGED <<table, done, line, queue_rx>>
      /\ frame[s] = None /\ done[s] = <<>>
  BY DEF LineIdle, Observed, masterVars, SlaveInv, Serves
<1>2. rx_buff'[s] = None /\ \A x \in Slaves : x # s => rx_buff'[x] = rx_buff[x]
  BY <1>1 DEF SlaveInv, SlaveShape
<1>3. /\ \A x \in Slaves : x # s => frame'[x] = frame[x]
      /\ frame'[s] = IF Dispatched(s, rx_buff[s]) THEN rx_buff[s] ELSE None
  BY <1>1 DEF LineIdle, SlaveInv, SlaveShape
<1>4. Dispatched(s, rx_buff[s]) => ~Harmless(s, rx_buff[s])
  BY DEF Dispatched, Harmless, LineIdle
<1>5. Silent /\ Unheard => Silent' /\ Unheard'
  <2> SUFFICES ASSUME Silent, Unheard PROVE Silent' /\ Unheard'
    OBVIOUS
  <2>1. Silent'
    BY <1>1 DEF Silent
  <2>2. ASSUME NEW x \in Slaves PROVE frame'[x] = None /\ Harmless(x, rx_buff'[x])
    BY <1>2, <1>3, <1>4 DEF Unheard, Harmless
  <2> QED BY <2>1, <2>2 DEF Unheard
<1>6. ASSUME NEW t \in Task, Waits(t) PROVE Waiting(t)'
  <2> DEFINE f == call[t]
  <2>1. Waiting(t) /\ f \in Request /\ f # None
    BY <1>6, MasterAssumption, RequestAssumption DEF PunctualInv, Waits, MutexInv
  <2>2. call'[t] = f /\ \A a \in Items : held[t][a] \subseteq held'[t][a]
    BY <1>6, Observes
  <2>3. Dispatched(s, rx_buff[s]) => rx_buff[s] = f /\ f.addr \in {s, 0}
    BY <1>4, <2>1 DEF Waiting, Requested, Dispatched
  <2>4. Requested(call[t])'
    <3>1. ASSUME NEW x \in Slaves
          PROVE  /\ rx_buff'[x] = f \/ Harmless(x, rx_buff'[x])
                 /\ frame'[x] # None =>
                      frame'[x] = f /\ f.addr \in {x, 0} /\ Harmless(x, rx_buff'[x])
      <4>1. CASE x = s
        BY <1>2, <1>3, <2>3, <4>1 DEF Harmless
      <4>2. CASE x # s
        BY <1>2, <1>3, <2>1, <4>2 DEF Waiting, Requested
      <4> QED BY <4>1, <4>2
    <3> QED BY <2>2, <3>1 DEF Requested
  <2>5. ASSUME f.addr \in Slaves, frame'[f.addr] # None
        PROVE  FromTable(held'[t], f, done'[f.addr])
    <3>1. CASE f.addr = s
      BY <1>1, <3>1 DEF FromTable
    <3>2. CASE f.addr # s
      <4>1. frame[f.addr] # None
        BY <1>3, <2>5, <3>2
      <4>2. FromTable(held[t], f, done[f.addr])
        BY <2>1, <2>5, <4>1 DEF Waiting, Watched
      <4>3. frame[f.addr] = f
        BY <2>1, <2>5, <4>1 DEF Waiting, Requested
      <4>4. done[f.addr] \in Seq(Items \X Values) /\ DoneFits(f, done[f.addr])
        BY <2>5, <4>1, <4>3 DEF SlaveInv, SlaveShape, Serves
      <4> QED BY <1>1, <2>1, <2>2, <4>2, <4>4, FromTableStays
    <3> QED BY <3>1, <3>2
  <2>6. ASSUME Replied(t, f)
        PROVE  frame'[f.addr] = None /\ Harmless(f.addr, rx_buff'[f.addr])
    <3>1. f.addr \in Slaves /\ frame[f.addr] = None /\ Harmless(f.addr, rx_buff[f.addr])
      BY <2>6 DEF Replied
    <3>2. CASE f.addr = s
      BY <1>2, <1>3, <1>4, <3>1, <3>2 DEF Harmless
    <3>3. CASE f.addr # s
      BY <1>2, <1>3, <3>1, <3>3
    <3> QED BY <3>2, <3>3
  <2> QED BY <1>1, <1>6, <2>4, <2>5, <2>6, WaitingGoesOn
<1>7. \A t \in Task : Waits(t)' <=> Waits(t)
  BY Observes
<1> QED BY <1>5, <1>6, <1>7 DEF PunctualInv

(* In the loop, or on the way there. *)
LEMMA GoingOnKeepsPunctual ==
  ASSUME SlaveInv, MutexInv, ChannelShape, PunctualInv, SlaveShape', ChannelShape', NEW s \in Slaves, Observed,
         frame[s] # None, UNCHANGED <<rx_buff, frame, line>>,
         \A x \in Slaves : x # s => done'[x] = done[x],
         done'[s] = done[s] \/ \E a \in Items :
           /\ a = NextItem(s)
           /\ done'[s] = Append(done[s], <<a, table'[s][Table(frame[s].fc)][a]>>)
  PROVE  PunctualInv'
<1>1. PICK u \in Task : Waits(u)
  BY SomeoneWaits
<1>2. ASSUME NEW t \in Task, Waits(t) PROVE Waiting(t)'
  <2> DEFINE f == call[t]
  <2>1. /\ f \in Request /\ frame[s] = f /\ (f.addr \in Slaves => s = f.addr)
        /\ ~Replied(t, f) /\ Waiting(t)
    BY <1>2, ServesTheCall DEF PunctualInv
  <2>2. /\ call'[t] = f /\ \A a \in Items : held[t][a] \subseteq held'[t][a]
        /\ f.addr \in Slaves =>
             \A a \in Items : table'[f.addr][Table(f.fc)][a] \in held'[t][a]
    BY <1>2, Observes
  <2>3. Requested(call[t])'
    BY <2>1, <2>2 DEF Waiting, Requested, Harmless
  <2>4. ASSUME f.addr \in Slaves PROVE FromTable(held'[t], f, done'[s])
    <3>1. FromTable(held[t], f, done[s])
      BY <2>1, <2>4 DEF Waiting, Watched
    <3>2. done[s] \in Seq(Items \X Values) /\ DoneFits(f, done[s])
      BY <2>1 DEF SlaveInv, SlaveShape, Serves
    <3>3. FromTable(held'[t], f, done[s])
      BY <2>1, <2>2, <3>1, <3>2, FromTableStays
    <3>4. ASSUME NEW a \in Items, a = NextItem(s),
                 done'[s] = Append(done[s], <<a, table'[s][Table(f.fc)][a]>>)
          PROVE  FromTable(held'[t], f, done'[s])
      <4> DEFINE n == Len(done[s])
                 v == table'[s][Table(f.fc)][a]
      <4>1. a = Number(f, n + 1) /\ v \in held'[t][a]
        BY <2>1, <2>2, <2>4, <3>4 DEF NextItem
      <4>2. v \in Values
        BY <3>4, TableOf DEF SlaveShape
      <4>3. done'[s] = Append(done[s], <<a, v>>)
        BY <3>4
      <4> HIDE DEF v
      <4>4. /\ DOMAIN done'[s] = 1 .. n + 1 /\ DOMAIN done[s] = 1 .. n /\ n \in Nat
            /\ done'[s][n + 1] = <<a, v>> /\ \A i \in 1 .. n : done'[s][i] = done[s][i]
        BY <3>2, <4>2, <4>3, AppendProperties, LenProperties
      <4>5. ASSUME NEW i \in 1 .. n + 1 PROVE done'[s][i][2] \in held'[t][Number(f, i)]
        <5>1. CASE i = n + 1
          BY <4>1, <4>4, <5>1
        <5>2. CASE i \in 1 .. n
          BY <3>3, <4>4, <5>2 DEF FromTable
        <5> QED BY <4>4, <5>1, <5>2
      <4> QED BY <4>4, <4>5 DEF FromTable
    <3> QED BY <2>1, <3>3, <3>4
  <2>5. ASSUME f.addr \in Slaves PROVE FromTable(held'[t], f, done'[f.addr])
    BY <2>1, <2>4, <2>5
  <2> QED BY <1>2, <2>1, <2>3, <2>5, WaitingGoesOn
<1>3. \A t \in Task : Waits(t)' <=> Waits(t)
  BY Observes
<1> QED BY <1>1, <1>2, <1>3 DEF PunctualInv

(* The one reply. *)
LEMMA FinishKeepsPunctual ==
  ASSUME SlaveInv, MutexInv, ChannelShape, PunctualInv, SlaveShape', ChannelShape', NEW s \in Slaves, Observed,
         NEW code, Ends(s, code), UNCHANGED <<table, rx_buff>>
  PROVE  PunctualInv'
<1>1. Finish(s, code) /\ frame[s] # None
  BY DEF Ends
<1>2. PICK u \in Task : Waits(u)
  BY <1>1, SomeoneWaits
<1>3. frame'[s] = None /\ \A x \in Slaves : x # s => frame'[x] = frame[x]
  BY <1>1 DEF Finish, SlaveInv, SlaveShape
<1>4. ASSUME NEW t \in Task, Waits(t) PROVE Waiting(t)'
  <2> DEFINE f == call[t]
  <2>1. /\ f \in Request /\ frame[s] = f /\ f.addr \in {s, 0} /\ Harmless(s, rx_buff[s])
        /\ (f.addr \in Slaves => s = f.addr) /\ Silent /\ Waiting(t)
    BY <1>1, <1>4, ServesTheCall DEF PunctualInv
  <2>2. /\ call'[t] = f /\ \A a \in Items : held[t][a] \subseteq held'[t][a]
        /\ f.addr \in Slaves =>
             \A a \in Items : table'[f.addr][Table(f.fc)][a] \in held'[t][a]
        /\ ran'[t] = (ran[t] \/ (at[t] = "wait" /\ \E x \in Slaves : CarriesOut(x, f)))
    BY <1>4, Observes DEF Observed
  <2>3. Requested(call[t])'
    BY <1>3, <2>1, <2>2 DEF Waiting, Requested, Harmless
  <2>4. Watched(t, call[t])'
    BY <1>3, <2>1, <2>2 DEF Watched
  <2>5. CASE ~Answered(s, code)
    <3>1. Silent'
      BY <1>1, <2>1, <2>5 DEF Finish, Silent, Observed, masterVars
    <3> QED BY <2>3, <2>4, <3>1 DEF Waiting
  <2>6. CASE Answered(s, code)
    <3> DEFINE b == ReplyBytes(s, code)
    <3>1. f.addr = s /\ code # SILENT
      BY <2>1, <2>6 DEF Answered
    <3>2. b \in Seq(Octet) /\ Len(b) >= 5
      BY <3>1, ReplyIsBytes
    <3>3. b # <<>>
      BY <3>2, EmptySeq
    <3>4. line' = <<b>>
      <4>1. line' = Append(line, b) /\ line = <<>>
        BY <1>1, <2>1, <2>6 DEF Finish, Silent
      <4> QED BY <4>1
    <3>5. Answers(held'[t], ran'[t], f, b)
      <4>1. CASE code # 0
        <5>1. code \in 1 .. 4
          BY <3>1, <4>1, CodesAre DEF Ends
        <5>2. b = ExceptionBytes(f, code)
          BY <2>1, <4>1 DEF ReplyBytes
        <5> HIDE DEF b
        <5> QED BY <5>1, <5>2 DEF Answers
      <4>2. CASE code = 0 /\ f.fc \in Writes
        <5>1. b = EchoBytes(f)
          BY <2>1, <4>2 DEF ReplyBytes, Reads, Writes
        <5>2. CarriesOut(s, f)
          BY <1>1, <1>3, <2>1, <3>1, <4>2 DEF CarriesOut, Ended, Ends
        <5>3. ran'[t]
          BY <1>4, <2>2, <5>2 DEF Waits
        <5> HIDE DEF b
        <5> QED BY <4>2, <5>1, <5>3 DEF Answers
      <4>3. CASE code = 0 /\ f.fc \notin Writes
        <5>1. Passed(f) /\ DoneFits(f, done[s]) /\ done[s] \in Seq(Items \X Values)
          BY <1>1, <2>1, <4>3 DEF Ends, SlaveInv, SlaveShape, Serves
        <5>2. f.fc \in Reads /\ ReplySize(f) \in Byte
          BY <4>3, <5>1 DEF Passed
        <5>3. b = ReadBytes(f, done[s])
          BY <2>1, <4>3, <5>2 DEF ReplyBytes
        <5>4. FromTable(held[t], f, done[s])
          BY <1>1, <2>1, <3>1 DEF Waiting, Watched
        <5>5. FromTable(held'[t], f, done[s])
          BY <2>1, <2>2, <5>1, <5>4, FromTableStays
        <5>6. Len(done[s]) = f.count
          BY <2>1, <4>3 DEF Ends
        <5> HIDE DEF b
        <5> QED BY <5>1, <5>2, <5>3, <5>5, <5>6 DEF Answers
      <4> QED BY <4>1, <4>2, <4>3
    <3> HIDE DEF b
    <3>6. Stream' = b /\ Len(Stream') <= Len(b)
      <4>1. queue_rx' = <<>>
        BY <2>1 DEF Silent, Observed, masterVars
      <4>2. <<>> \o b = b
        BY <3>2, ConcatEmptySeq
      <4> QED BY <3>2, <3>4, <4>1, <4>2, LenProperties DEF Stream
    <3>7. Replied(t, call[t])'
      BY <1>3, <2>1, <2>2, <3>1, <3>3, <3>4, <3>5, <3>6 DEF Replied, Harmless
    <3> QED BY <2>3, <2>4, <3>7 DEF Waiting
  <2> QED BY <2>5, <2>6
<1>5. \A t \in Task : Waits(t)' <=> Waits(t)
  BY Observes
<1> QED BY <1>2, <1>4, <1>5 DEF PunctualInv

LEMMA ThreadKeepsPunctual ==
  ASSUME SlaveInv, MutexInv, ChannelShape, PunctualInv, SlaveShape', ChannelShape', NEW s \in Slaves, SlaveMoves(s)
  PROVE  PunctualInv'
<1>0. Observed /\ SlaveThread(s)
  BY DEF SlaveMoves
<1>1. CASE LineIdle(s)
  BY <1>0, <1>1, IdleKeepsPunctual
<1>2. CASE Check(s)
  <2>1. frame[s] # None /\ frame[s] \in Request
    BY <1>2 DEF Check, SlaveInv, SlaveShape, Serves
  <2> DEFINE code == Verdict(s, frame[s])
  <2>2. CASE code # 0 /\ Finish(s, code)
    <3>1. Ends(s, code)
      BY <2>1, <2>2, Verdicts DEF Ends, Codes
    <3>2. UNCHANGED <<table, rx_buff>>
      BY <1>2 DEF Check
    <3> QED BY <1>0, <3>1, <3>2, FinishKeepsPunctual
  <2>3. CASE ~(code # 0 /\ Finish(s, code))
    <3>1. UNCHANGED <<rx_buff, frame, line, done>>
      BY <1>2, <2>3 DEF Check
    <3> QED BY <1>0, <2>1, <3>1, GoingOnKeepsPunctual
  <2> QED BY <2>2, <2>3
<1>3. CASE Item(s)
  <2>1. stage[s] = "items" /\ frame[s] # None /\ frame[s] \in Request /\ rx_buff' = rx_buff
    BY <1>3 DEF Item, SlaveInv, SlaveShape, Serves
  <2>2. CASE Failed(s)
    <3>1. Ends(s, ILLEGAL_DATA_ADDR) /\ UNCHANGED table
      BY <2>1, <2>2 DEF Failed, Ends, Codes, ILLEGAL_DATA_ADDR
    <3> QED BY <1>0, <2>1, <3>1, FinishKeepsPunctual
  <2> DEFINE k == Table(frame[s].fc)
             a == NextItem(s)
  <2>3. Accepted(s) => a \in Items /\ k \in Tables
    BY TableOf, KnownAreItems DEF Accepted
  <2>4. CASE Read(s)
    <3>1. UNCHANGED <<table, frame, line>> /\ a \in Items
      BY <2>3, <2>4 DEF Read
    <3>2. done' = [done EXCEPT ![s] = Append(@, <<a, table[s][k][a]>>)]
      BY <2>4 DEF Read
    <3>3. /\ \A x \in Slaves : x # s => done'[x] = done[x]
          /\ done'[s] = Append(done[s], <<a, table'[s][k][a]>>)
      BY <3>1, <3>2 DEF SlaveInv, SlaveShape
    <3> HIDE DEF a
    <3> QED BY <1>0, <2>1, <3>1, <3>3, GoingOnKeepsPunctual DEF a
  <2>5. CASE Write(s)
    <3>1. UNCHANGED <<frame, line>> /\ a \in Items /\ k \in Tables
      BY <2>3, <2>5 DEF Write
    <3>2. PICK v \in Carried(s) : /\ table' = [table EXCEPT ![s][k][a] = v]
                                  /\ done' = [done EXCEPT ![s] = Append(@, <<a, v>>)]
      BY <2>5 DEF Write
    <3>3. table'[s][k][a] = v
      BY <3>1, <3>2 DEF SlaveInv, SlaveShape
    <3>4. /\ \A x \in Slaves : x # s => done'[x] = done[x]
          /\ done'[s] = Append(done[s], <<a, table'[s][k][a]>>)
      BY <3>2, <3>3 DEF SlaveInv, SlaveShape
    <3> HIDE DEF a
    <3> QED BY <1>0, <2>1, <3>1, <3>4, GoingOnKeepsPunctual DEF a
  <2> QED BY <1>3, <2>2, <2>4, <2>5 DEF Item
<1>4. CASE SendReply(s)
  <2>1. Ends(s, 0) /\ UNCHANGED <<table, rx_buff>>
    BY <1>4 DEF SendReply, Ends, Codes, SlaveInv, Serves
  <2> QED BY <1>0, <2>1, FinishKeepsPunctual
<1> QED BY <1>0, <1>1, <1>2, <1>3, <1>4 DEF SlaveThread

-----------------------------------------------------------------------------
(* What punctual slaves promise. *)

LEMMA PunctualInvInit == Init => PunctualInv
BY WordAssumption, EmptySeq DEF Init, InitSlaves, PunctualInv, Waits,
   Silent, Unheard, Harmless, Nothing

LEMMA PunctualInvStep ==
  ASSUME Punctual, SlaveInv, MutexInv, ChannelShape, PunctualInv, [Next]_vars
  PROVE  PunctualInv'
<1>0. SlaveShape' /\ ChannelShape'
  BY LineInvStep DEF LineInv, SlaveInv
<1>1. ASSUME NEW t \in Task, Call(t) PROVE PunctualInv'
  <2>1. \A x \in Task : at'[x] = "wait" <=> at[x] = "wait"
    BY <1>1 DEF Call, MutexInv
  <2>2. \A x \in Task : at[x] = "wait" => call'[x] = call[x]
    BY <1>1 DEF Call, MutexInv
  <2>3. UNCHANGED <<slaveVars, queue_rx, held, ran, damage>>
    BY <1>1 DEF Call
  <2> QED BY <2>1, <2>2, <2>3, OthersWait
<1>2. ASSUME NEW t \in Task, Acquire(t) PROVE PunctualInv'
  <2>1. \A x \in Task : at'[x] = "wait" <=> at[x] = "wait"
    BY <1>2 DEF Acquire, MutexInv
  <2>2. UNCHANGED <<slaveVars, queue_rx, held, ran, damage, call>>
    BY <1>2 DEF Acquire
  <2> QED BY <2>1, <2>2, OthersWait
<1>3. CASE UNCHANGED vars
  BY <1>3, OthersWait DEF vars, masterVars
<1> QED BY <1>0, <1>1, <1>2, <1>3, SendKeepsPunctual, ReturnKeepsPunctual, DeliverKeepsPunctual,
           DamageKeepsPunctual, ThreadKeepsPunctual, AppKeepsPunctual DEF Next, Member

(* One request, or its one reply, is all there is while a task waits.      *)
THEOREM PunctualInvariant == Spec => [](Punctual => PunctualInv)
<1>1. Init => (Punctual => PunctualInv)
  BY PunctualInvInit
<1>2. LineInv /\ (Punctual => PunctualInv) /\ [Next]_vars => (Punctual => PunctualInv)'
  BY PunctualInvStep DEF LineInv
<1> QED BY <1>1, <1>2, LineInvariant, PTL DEF Spec

(* The stream of replies never gets out of step with the requests          *)
(* (mbm_rx_blocking and the size_expect of mbm_fcXX).                      *)
THEOREM StreamKeepsStep == Spec => []NothingLeftOver
<1>1. LineInv /\ (Punctual => PunctualInv) => NothingLeftOver
  <2> SUFFICES ASSUME MutexInv, Punctual, PunctualInv, mutex = None
               PROVE  queue_rx = <<>> /\ line = <<>>
    BY DEF NothingLeftOver, LineInv
  <2>1. \A t \in Task : ~Waits(t)
    <3>1. None \notin Task
      BY MasterAssumption
    <3> QED BY <3>1 DEF MutexInv, Waits
  <2> QED BY <2>1 DEF PunctualInv, Silent
<1> QED BY <1>1, LineInvariant, PunctualInvariant, PTL

LEMMA Returned ==
  ASSUME SlaveInv, MutexInv, ChannelShape, PunctualInv, [Next]_vars, NEW t \in Task, Succeeds(t)
  PROVE  /\ Receive(t) /\ Waits(t) /\ call[t] \in Request
         /\ call[t].fc \in Reads \cup Writes /\ tx_frame = call[t]
         /\ \E b : /\ Answers(held[t], ran[t], call[t], b)
                   /\ ~\E code \in 1 .. 4 : b = ExceptionBytes(call[t], code)
                   /\ damage = 0 => queue_rx = b
         /\ queue_rx \in Seq(Octet) /\ Len(queue_rx) = Expected(call[t])
<1>1. Waits(t) /\ call[t] \in Request /\ tx_frame = call[t] /\ call[t].fc \in Reads \cup Writes
  BY MasterAssumption DEF Succeeds, Waits, MutexInv
<1>2. Receive(t)
  <2>1. at[t] = "wait" /\ at'[t] = "idle" /\ result'.err = "NONE"
    BY DEF Succeeds
  <2>2. ASSUME NEW x \in Task, Receive(x) \/ Timeout(x) PROVE x = t
    <3>1. at' = [at EXCEPT ![x] = "idle"]
      BY <2>2 DEF Receive, Timeout, Return
    <3> QED BY <2>1, <3>1 DEF MutexInv
  <2>3. ~Timeout(t)
    <3> SUFFICES ASSUME Timeout(t) PROVE FALSE
      OBVIOUS
    <3>1. result' = Outcome("TIMED_OUT", <<>>)
      BY DEF Timeout, Return, LateError, ChannelShape
    <3> QED BY <2>1, <3>1 DEF Outcome
  <2>4. ASSUME NEW x \in Task, Call(x) \/ Acquire(x) \/ Send(x) PROVE FALSE
    BY <2>1, <2>4 DEF Call, Acquire, Send, MutexInv
  <2>5. UNCHANGED at => FALSE
    BY <2>1
  <2> QED BY <2>2, <2>3, <2>4, <2>5
          DEF Next, Member, Deliver, Damage, SlaveMoves, Application, Observed, masterVars, vars
<1>3. Len(queue_rx) >= Expected(call[t])
  BY <1>1, <1>2 DEF Receive
<1> QED BY <1>1, <1>2, <1>3, ReplyIsWhole

(* A write that was answered was carried out, also when the reply was      *)
(* damaged: an exception cannot grow into an echo.                         *)
THEOREM WritesTakeEffect == Punctual /\ Spec => WriteTookEffect
<1>1. ASSUME SlaveInv, MutexInv, ChannelShape, PunctualInv, [Next]_vars, NEW t \in Task,
             Succeeds(t), call[t].fc \in Writes
      PROVE  ran[t]
  <2>1. \E b : /\ Answers(held[t], ran[t], call[t], b)
               /\ ~\E code \in 1 .. 4 : b = ExceptionBytes(call[t], code)
    BY <1>1, Returned
  <2>2. call[t].fc \notin Reads
    BY <1>1 DEF Reads, Writes
  <2> QED BY <2>1, <2>2 DEF Answers
<1>2. LineInv /\ PunctualInv /\ [Next]_vars =>
        \A t \in Task : Succeeds(t) /\ call[t].fc \in Writes => ran[t]
  BY <1>1 DEF LineInv
<1>3. Punctual => Punctual'
  OBVIOUS
<1> QED BY <1>2, <1>3, LineInvariant, PunctualInvariant, PTL DEF WriteTookEffect, Spec

(* A read that was answered, and whose reply was not damaged, returns item *)
(* by item what the slave had at a time since the request was sent         *)
(* (mbs_fc01 to 04, mbm_fc01 to 04).                                       *)
THEOREM ReadsAreCurrent == Punctual /\ Spec => ReadIsCurrent
<1>1. ASSUME SlaveInv, MutexInv, ChannelShape, PunctualInv, [Next]_vars, NEW t \in Task,
             Succeeds(t), call[t].fc \in Reads, ~Straddles(call[t]), damage = 0
      PROVE  /\ Len(result'.vals) = call[t].count
             /\ \A i \in 1 .. call[t].count :
                  result'.vals[i] \in held[t][Number(call[t], i)]
  <2> DEFINE f == call[t]
  <2>1. /\ Receive(t) /\ f \in Request /\ tx_frame = f
        /\ Answers(held[t], ran[t], f, queue_rx)
        /\ ~\E code \in 1 .. 4 : queue_rx = ExceptionBytes(f, code)
        /\ queue_rx \in Seq(Octet) /\ Len(queue_rx) = Expected(f)
    BY <1>1, Returned
  <2>2. f.fc \notin Writes
    BY <1>1 DEF Reads, Writes
  <2> HIDE DEF f
  <2>3. ReplySize(f) \in Byte
    BY <2>1, <2>2 DEF Answers
  <2>4. PICK items \in Seq(Items \X Values) :
          /\ Len(items) = f.count /\ DoneFits(f, items) /\ FromTable(held[t], f, items)
          /\ queue_rx = ReadBytes(f, items)
    BY <2>1, <2>2 DEF Answers
  <2>5. SubSeq(queue_rx, 1, Expected(f)) = queue_rx
    BY <2>1, SubSeqFull
  <2>6. result' = Evaluated(f, queue_rx)
    BY <2>1, <2>5 DEF Receive, Return
  <2>7. result'.vals = [i \in 1 .. f.count |-> Parsed(f, queue_rx, i)]
    <3>1. result'.err = "NONE" /\ f.fc \in Reads
      BY <1>1 DEF Succeeds, f
    <3> QED BY <2>6, <3>1 DEF Evaluated, Outcome
  <2>8. f.count \in Nat
    BY <2>1, RequestNumbers
  <2>9. ASSUME NEW i \in 1 .. f.count
        PROVE  result'.vals[i] \in held[t][Number(f, i)]
    <3>1. ~Straddles(f)
      BY <1>1 DEF f
    <3>2. Parsed(f, queue_rx, i) = items[i][2]
      BY <2>1, <2>3, <2>4, <3>1, ParsedIsRead
    <3>3. i \in DOMAIN items
      BY <2>4, LenProperties
    <3>4. items[i][2] \in held[t][Number(f, i)]
      BY <2>4, <3>3 DEF FromTable
    <3> QED BY <2>7, <3>2, <3>4
  <2>10. Len(result'.vals) = f.count
    BY <2>7, <2>8
  <2> QED BY <2>9, <2>10 DEF f
<1>2. LineInv /\ PunctualInv /\ [Next]_vars =>
        \A t \in Task : Succeeds(t) /\ call[t].fc \in Reads /\ ~Straddles(call[t])
                        /\ damage = 0 => Current(t)
  BY <1>1 DEF LineInv, Current
<1>3. Punctual => Punctual'
  OBVIOUS
<1> QED BY <1>2, <1>3, LineInvariant, PunctualInvariant, PTL DEF ReadIsCurrent, Spec
=============================================================================
