-------------------------- MODULE DatastreamProofs --------------------------
(***************************************************************************)
(* A datastream uses no memory outside its buffer but for the reasons      *)
(* EscapesExplained gives, and an integer is read as what was written, in  *)
(* as few bytes as possible: for every size of words, integers, bytes and  *)
(* buffers.                                                                *)
(***************************************************************************)
EXTENDS Datastream, WellFoundedInduction, TLAPS

\* A set of natural numbers that is not empty has a smallest one.
LEMMA Smallest ==
    ASSUME NEW T \in SUBSET Nat, T # {}
    PROVE  \E x \in T : \A y \in T : x <= y
<1>1. PICK x \in T : \A y \in T : ~(<<y, x>> \in OpToRel(<, Nat))
  BY NatLessThanWellFounded, WFMin
<1>2. \A y \in T : ~(y < x)
  BY <1>1 DEF OpToRel
<1> QED
  BY <1>2

\* The i-th byte has the bits from Digit * i on.
LEMMA DigitsApart ==
    ASSUME NEW i \in Nat, NEW j \in Nat, i < j
    PROVE  Digit * i + Digit <= Digit * j /\ Digit * i \in Nat /\ Digit * j \in Nat
<1>1. Digit \in Nat /\ Digit >= 1
  BY Constants
<1>2. ASSUME NEW d \in Nat, NEW k \in Nat, k >= 1
      PROVE  d * k >= d
  BY <1>2
<1>3. Digit * j = Digit * i + Digit * (j - i)
  BY <1>1
<1>4. Digit * (j - i) >= Digit
  BY <1>1, <1>2
<1>. QED
  BY <1>1, <1>3, <1>4

LEMMA BitPlace ==
    ASSUME NEW i \in Nat, NEW j \in Nat, NEW b \in 0 .. Digit - 1, NEW c \in 0 .. Digit - 1,
           b + Digit * i = c + Digit * j
    PROVE  i = j /\ b = c
<1>1. Digit \in Nat /\ Digit >= 1 /\ b \in Nat /\ c \in Nat /\ b < Digit /\ c < Digit
  BY Constants
<1>2. Digit * i \in Nat /\ Digit * j \in Nat
  BY <1>1
<1>3. CASE i < j
  BY <1>1, <1>2, <1>3, DigitsApart
<1>4. CASE j < i
  BY <1>1, <1>2, <1>4, DigitsApart
<1>5. CASE i = j
  BY <1>1, <1>2, <1>5
<1>. QED
  BY <1>3, <1>4, <1>5

\* Every number below Digit * n is a bit of one of the first n bytes.
LEMMA BitIsPlaced ==
    ASSUME NEW n \in Nat, NEW x \in Nat, x < Digit * n
    PROVE  \E i \in 0 .. n - 1 : \E b \in 0 .. Digit - 1 : x = b + Digit * i
<1>. DEFINE T == {k \in Nat : x < Digit * k}
<1>1. Digit \in Nat /\ Digit >= 1 /\ n \in T
  BY Constants
<1>2. PICK k \in T : \A y \in T : k <= y
  BY <1>1, Smallest
<1>3. k \in Nat /\ x < Digit * k /\ k <= n
  BY <1>1, <1>2
<1>4. k # 0
  BY <1>1, <1>3
<1>. DEFINE i == k - 1
<1>5. i \in Nat /\ k = i + 1 /\ i <= n - 1 /\ i < k
  BY <1>3, <1>4
<1>. HIDE DEF i
<1>6. ~(x < Digit * i)
  BY <1>2, <1>3, <1>5
<1>7. Digit * k = Digit * i + Digit /\ Digit * i \in Nat
  BY <1>1, <1>5
<1>. DEFINE b == x - Digit * i
<1>8. b \in 0 .. Digit - 1 /\ x = b + Digit * i
  BY <1>1, <1>3, <1>6, <1>7
<1>. HIDE DEF b
<1>. QED
  BY <1>5, <1>8

\* An integer has the smallest number of bytes with all its bits, at least one
\* and never more than it has bits.
LEMMA LengthIsSmallest ==
    ASSUME NEW v \in Word
    PROVE  /\ Length(v) \in 1 .. Width /\ v \subseteq 0 .. Digit * Length(v) - 1
           /\ \A k \in 1 .. Length(v) - 1 : ~(v \subseteq 0 .. Digit * k - 1)
<1>. DEFINE P(n) == /\ v \subseteq 0 .. Digit * n - 1
                    /\ \A k \in 1 .. n - 1 : ~(v \subseteq 0 .. Digit * k - 1)
            T == {n \in 1 .. Width : v \subseteq 0 .. Digit * n - 1}
<1>1. Width \in T
  <2>1. Width <= Digit * Width
    BY Constants
  <2>2. v \subseteq 0 .. Width - 1
    BY DEF Word, Bit
  <2>. QED
    BY <2>1, <2>2, Constants
<1>2. T \in SUBSET Nat /\ T # {}
  <2>1. \A n \in T : n \in Nat
    BY Constants
  <2>. HIDE DEF T
  <2>. QED
    BY <1>1, <2>1
<1>3. PICK n \in T : \A k \in T : n <= k
  BY <1>2, Smallest
<1>4. \A k \in 1 .. n - 1 : ~(v \subseteq 0 .. Digit * k - 1)
  BY <1>3, Constants
<1>5. \E m \in 1 .. Width : P(m)
  BY <1>3, <1>4
<1>6. Length(v) = CHOOSE m \in 1 .. Width : P(m)
  BY DEF Length
<1>. HIDE DEF P
<1>7. Length(v) \in 1 .. Width /\ P(Length(v))
  BY <1>5, <1>6
<1>. QED
  BY <1>7 DEF P

-----------------------------------------------------------------------------
(* Words.                                                                  *)

LEMMA WordType ==
    ASSUME NEW a \in Addr, NEW b \in Addr
    PROVE  Plus(a, b) \in Addr /\ Minus(a, b) \in Addr
BY Constants DEF Plus, Minus, Addr, Mem

LEMMA EndIsAddr == End \in Addr /\ Start \in Addr /\ Buffer \subseteq Addr
BY Constants DEF End, Addr, Mem, Buffer

\* read from inside the buffer stays inside, whatever size it is given.
LEMMA ReadInside ==
    ASSUME NEW a \in Start .. End, NEW n \in Addr, ReadChecks(a, n)
    PROVE  Span(a, n) \subseteq Buffer /\ Plus(a, n) \in Start .. End
<1>1. n <= End - a
  BY Constants DEF ReadChecks, Minus, Addr, Mem, End
<1>2. \A i \in 0 .. n - 1 : Plus(a, i) = a + i /\ a + i \in Buffer
  BY <1>1, Constants DEF Plus, Addr, Mem, End, Buffer
<1>3. Plus(a, n) = a + n
  BY <1>1, Constants DEF Plus, Addr, Mem, End
<1> QED
  BY <1>1, <1>2, <1>3, Constants DEF Span, Addr, Mem, End

\* So does write, unless the size is negative as a signed word; behind the
\* end it fails, unless it is far behind.
LEMMA WriteInside ==
    ASSUME NEW a \in Addr, a >= Start, a <= End + Half,
           NEW n \in Addr, n < Half, WriteChecks(a, n)
    PROVE  Span(a, n) \subseteq Buffer
<1>1. n = 0 \/ (a <= End /\ n <= End - a)
  BY Constants DEF WriteChecks, Signed, Minus, Addr, Mem, End
<1>2. \A i \in 0 .. n - 1 : Plus(a, i) = a + i /\ a + i \in Buffer
  BY <1>1, Constants DEF Plus, Addr, Mem, End, Buffer
<1> QED
  BY <1>2 DEF Span


\* A byte that put, get or operator<< of an integer may use.
LEMMA ByteInside ==
    ASSUME NEW a \in Addr, a >= Start,
           PutChecks(a) \/ (a <= End + Half /\ WriteChecks(a, 1))
    PROVE  a \in Buffer
BY Constants DEF PutChecks, WriteChecks, Signed, Minus, Addr, Mem, End, Buffer

\* Bytes used one after the other, with a check each, cannot step over the
\* end: the check at the end itself would fail.
LEMMA RunInside ==
    ASSUME NEW a \in Addr, a >= Start, NEW n \in 1 .. Mem - 1,
           \/ \A i \in 1 .. n : PutChecks(Plus(a, i - 1))
           \/ a <= End + Half /\ \A i \in 1 .. n : WriteChecks(Plus(a, i - 1), 1)
    PROVE  Span(a, n) \subseteq Buffer /\ Plus(a, n) \in Start .. End
<1>1. Plus(a, 0) = a
  BY Constants DEF Plus, Addr, Mem
<1>2. a \in Buffer
  <2>1. PutChecks(a) \/ (a <= End + Half /\ WriteChecks(a, 1))
    <3>1. 1 \in 1 .. n /\ 1 - 1 = 0
      BY Constants DEF Mem
    <3> QED
      BY <1>1, <3>1
  <2> QED
    BY <2>1, ByteInside
<1>3. a + n <= End
  <2>1. SUFFICES ASSUME a + n > End
                 PROVE  FALSE
    BY <1>2, Constants DEF Addr, Mem, End
  <2> DEFINE i == End - a + 1
  <2>2. i \in 1 .. n /\ Plus(a, i - 1) = End
    BY <1>2, <2>1, Constants DEF Buffer, Plus, Addr, Mem, End
  <2>3. ~PutChecks(End) /\ ~WriteChecks(End, 1)
    BY Constants DEF PutChecks, WriteChecks, Signed, Minus, Mem, End
  <2> HIDE DEF i
  <2> QED
    BY <2>2, <2>3
<1>4. \A i \in 0 .. n - 1 : Plus(a, i) = a + i /\ a + i \in Buffer
  BY <1>2, <1>3, Constants DEF Plus, Addr, Mem, End, Buffer
<1>5. Plus(a, n) = a + n
  BY <1>3, Constants DEF Plus, Addr, Mem, End
<1> QED
  BY <1>3, <1>4, <1>5, Constants DEF Span, Addr, Mem, End

-----------------------------------------------------------------------------
(* The bytes of an integer, and what is stored.                            *)

LEMMA PackedType ==
    ASSUME NEW signed \in BOOLEAN, NEW v \in Word
    PROVE  /\ Len(Packed(signed, v)) \in 1 .. Mem - 1
           /\ DOMAIN Packed(signed, v) = 1 .. Len(Packed(signed, v))
           /\ \A i \in 1 .. Len(Packed(signed, v)) : Packed(signed, v)[i] \in Byte
<1> DEFINE w == IF signed THEN ZigZag(v) ELSE v
<1>1. w \in Word
  BY DEF ZigZag, Word, Bit
<1>2. Packed(signed, v) = Encode(w)
  BY DEF Packed
<1> HIDE DEF w
<1>3. Length(w) \in 1 .. Width
  BY <1>1, LengthIsSmallest
<1>4. Length(w) \in 1 .. Mem - 1
  BY <1>3, Constants DEF Mem
<1>5. Encode(w) \in [1 .. Length(w) -> Byte]
  BY DEF Encode, Byte
<1>6. Len(Encode(w)) = Length(w)
  BY <1>4, <1>5
<1> QED
  BY <1>2, <1>4, <1>5, <1>6

LEMMA StoreType ==
    ASSUME NEW s, Len(s) \in Nat, \A i \in 1 .. Len(s) : s[i] \in Byte,
           TypeOK, Store(s)
    PROVE  buf' \in [Buffer -> Byte]
<1>1. \A a \in Buffer : Minus(a, pos) \in Nat
  BY EndIsAddr, WordType DEF TypeOK, Addr
<1>2. \A a \in Buffer : Minus(a, pos) < Len(s) => s[Minus(a, pos) + 1] \in Byte
  BY <1>1
<1> QED
  BY <1>2 DEF Store, TypeOK


-----------------------------------------------------------------------------
(* The steps.                                                              *)

Safe == TypeOK /\ EscapesExplained

\* An operation that leaves the position a word and whose use of memory is
\* explained.
Explained(op, touched, arg) ==
    \/ touched \subseteq Buffer
    \/ pos < Start
    \/ pos > End /\ op = "read"
    \/ pos > End + Half /\ op \in {"write", "pack signed", "pack unsigned"}
    \/ op = "write" /\ arg >= Half

LEMMA DidSafe ==
    ASSUME NEW op, NEW touched, NEW to \in Addr, NEW arg, NEW value,
           TypeOK, buf' \in [Buffer -> Byte],
           Did(op, touched, to, arg, value), Explained(op, touched, arg)
    PROVE  Safe'
BY DEF Safe, TypeOK, EscapesExplained, Explained, Did

LEMMA AbortSafe ==
    ASSUME TypeOK, Abort
    PROVE  Safe'
BY EndIsAddr DEF Safe, TypeOK, EscapesExplained, Abort, Nothing

LEMMA MoveSafe ==
    ASSUME TypeOK, NEW to \in Addr, Move(to)
    PROVE  Safe'
BY EndIsAddr DEF Safe, TypeOK, EscapesExplained, Move, Nothing

LEMMA ReadSafe ==
    ASSUME TypeOK, NEW n \in Addr, Read(n)
    PROVE  Safe'
<1>1. CASE ~ReadChecks(pos, n)
  BY <1>1, AbortSafe DEF Read
<1>2. CASE ReadChecks(pos, n)
  <2>1. Did("read", Span(pos, n), Plus(pos, n), n, {}) /\ buf' = buf
    BY <1>2 DEF Read
  <2>2. pos \in Start .. End => Span(pos, n) \subseteq Buffer
    BY <1>2, ReadInside
  <2>3. pos \in Start .. End \/ pos < Start \/ pos > End
    BY Constants DEF TypeOK, Addr, Mem, End
  <2>4. Explained("read", Span(pos, n), n)
    BY <2>2, <2>3 DEF Explained
  <2> QED
    BY <2>1, <2>4, DidSafe, WordType DEF TypeOK
<1> QED
  BY <1>1, <1>2

LEMMA WriteSafe ==
    ASSUME TypeOK, NEW n \in Addr, Write(n)
    PROVE  Safe'
<1>1. CASE ~WriteChecks(pos, n)
  BY <1>1, AbortSafe DEF Write
<1>2. CASE WriteChecks(pos, n)
  <2> DEFINE s == [i \in 1 .. n |-> Fill]
  <2>1. Did("write", Span(pos, n), Plus(pos, n), n, {}) /\ Store(s)
    BY <1>2 DEF Write
  <2>2. Len(s) \in Nat /\ \A i \in 1 .. Len(s) : s[i] \in Byte
    <3>1. n \in Nat
      BY DEF Addr
    <3>2. Fill \in Byte
      BY Constants
    <3>3. s \in Seq(Byte) /\ Len(s) = n
      BY <3>1, <3>2
    <3> QED
      BY <3>1, <3>2, <3>3
  <2>3. buf' \in [Buffer -> Byte]
    <3> HIDE DEF s
    <3> QED
      BY <2>1, <2>2, StoreType
  <2>4. CASE pos >= Start /\ pos <= End + Half /\ n < Half
    <3>1. Explained("write", Span(pos, n), n)
      BY <1>2, <2>4, WriteInside DEF TypeOK, Explained
    <3> QED
      BY <2>1, <2>3, <3>1, DidSafe, WordType DEF TypeOK
  <2>5. CASE ~(pos >= Start /\ pos <= End + Half /\ n < Half)
    <3>1. Explained("write", Span(pos, n), n)
      BY <2>5, Constants DEF TypeOK, Addr, Mem, End, Explained
    <3> QED
      BY <2>1, <2>3, <3>1, DidSafe, WordType DEF TypeOK
  <2> QED
    BY <2>4, <2>5
<1> QED
  BY <1>1, <1>2


LEMMA OneIsAddr == 1 \in Addr
BY Constants DEF Addr, Mem

\* put and get of one byte.
LEMMA PutGetSafe ==
    ASSUME TypeOK, NEW b \in Byte, Put(b) \/ Get
    PROVE  Safe'
<1>1. CASE ~PutChecks(pos)
  BY <1>1, AbortSafe DEF Put, Get
<1>2. CASE PutChecks(pos)
  <2>1. \/ Did("put", {pos}, Plus(pos, 1), 1, {}) /\ Store(<<b>>)
        \/ Did("get", {pos}, Plus(pos, 1), 1, {}) /\ buf' = buf
    BY <1>2 DEF Put, Get
  <2>2. buf' \in [Buffer -> Byte]
    <3>1. CASE Store(<<b>>)
      BY <3>1, StoreType
    <3>2. CASE buf' = buf
      BY <3>2 DEF TypeOK
    <3> QED
      BY <2>1, <3>1, <3>2
  <2>3. pos < Start \/ pos \in Buffer
    BY <1>2, ByteInside, Constants DEF TypeOK, Addr
  <2>4. \A op : Explained(op, {pos}, 1)
    BY <2>3 DEF Explained
  <2> QED
    BY <2>1, <2>2, <2>4, OneIsAddr, DidSafe, WordType DEF TypeOK
<1> QED
  BY <1>1, <1>2

LEMMA PackSafe ==
    ASSUME TypeOK, NEW signed \in BOOLEAN, NEW v \in Word, Pack(signed, v)
    PROVE  Safe'
<1> DEFINE s == Packed(signed, v)
           n == Len(s)
<1>1. n \in 1 .. Mem - 1 /\ DOMAIN s = 1 .. n /\ \A i \in 1 .. n : s[i] \in Byte
  BY PackedType
<1>2. n \in Addr /\ n \in Nat
  BY <1>1, Constants DEF Addr, Mem
<1> DEFINE Checked == \A i \in DOMAIN s : WriteChecks(Plus(pos, i - 1), 1)
<1>3. IF Checked THEN Did(PackOp(signed), Span(pos, n), Plus(pos, n), n, v) /\ Store(s)
                 ELSE Abort
  BY DEF Pack
<1> HIDE DEF s
<1>4. CASE ~Checked
  BY <1>3, <1>4, AbortSafe
<1>5. CASE Checked
  <2>1. buf' \in [Buffer -> Byte]
    BY <1>1, <1>2, <1>3, <1>5, StoreType
  <2>2. pos >= Start /\ pos <= End + Half => Span(pos, n) \subseteq Buffer
    <3>1. \A i \in 1 .. n : WriteChecks(Plus(pos, i - 1), 1)
      BY <1>1, <1>5
    <3> HIDE DEF n
    <3> QED
      BY <1>1, <3>1, RunInside DEF TypeOK
  <2>3. pos < Start \/ pos > End + Half \/ (pos >= Start /\ pos <= End + Half)
    BY Constants DEF TypeOK, Addr, Mem, End
  <2>4. PackOp(signed) \in {"pack signed", "pack unsigned"}
    BY DEF PackOp
  <2>5. Explained(PackOp(signed), Span(pos, n), n)
    BY <2>2, <2>3, <2>4 DEF Explained
  <2>6. Plus(pos, n) \in Addr
    BY <1>2, WordType DEF TypeOK
  <2> HIDE DEF n
  <2> QED
    BY <1>3, <1>5, <2>1, <2>5, <2>6, DidSafe
<1> QED
  BY <1>4, <1>5

\* Bytes read one by one up to the last of an integer.
LEMMA IntegerInside ==
    ASSUME TypeOK, NEW n \in 1 .. Mem - 1, Integer(pos, n), pos >= Start
    PROVE  Span(pos, n) \subseteq Buffer /\ Plus(pos, n) \in Start .. End
BY RunInside DEF TypeOK, Integer

LEMMA UnpackSafe ==
    ASSUME TypeOK, NEW signed \in BOOLEAN, Unpack(signed)
    PROVE  Safe'
<1>1. CASE Abort
  BY <1>1, AbortSafe
<1>2. ASSUME NEW n \in 1 .. Mem - 1, Integer(pos, n), NEW v,
             Did(UnpackOp(signed), Span(pos, n), Plus(pos, n), n, v), buf' = buf
      PROVE  Safe'
  <2>1. pos < Start \/ pos >= Start
    BY Constants DEF TypeOK, Addr
  <2>2. Explained(UnpackOp(signed), Span(pos, n), n)
    BY <1>2, <2>1, IntegerInside DEF Explained
  <2>3. n \in Addr
    BY Constants DEF Addr, Mem
  <2> QED
    BY <1>2, <2>2, <2>3, WordType, DidSafe DEF TypeOK
<1> QED
  BY <1>1, <1>2 DEF Unpack

LEMMA UnpackBytesSafe ==
    ASSUME TypeOK, UnpackBytes
    PROVE  Safe'
<1>1. CASE Abort
  BY <1>1, AbortSafe
<1>2. ASSUME NEW n \in 1 .. Mem - 1, NEW m \in Addr, Integer(pos, n),
             ReadChecks(Plus(pos, n), m),
             Did("bytes", Span(pos, n) \cup Span(Plus(pos, n), m), Plus(Plus(pos, n), m), m, {}),
             buf' = buf
      PROVE  Safe'
  <2>1. pos < Start \/ pos >= Start
    BY Constants DEF TypeOK, Addr
  <2>2. pos >= Start => Span(pos, n) \cup Span(Plus(pos, n), m) \subseteq Buffer
    BY <1>2, IntegerInside, ReadInside
  <2>3. Explained("bytes", Span(pos, n) \cup Span(Plus(pos, n), m), m)
    BY <2>1, <2>2 DEF Explained
  <2>4. n \in Addr
    BY Constants DEF Addr, Mem
  <2>5. Plus(Plus(pos, n), m) \in Addr
    BY <2>4, WordType DEF TypeOK
  <2> QED
    BY <1>2, <2>3, <2>5, DidSafe DEF TypeOK
<1> QED
  BY <1>1, <1>2 DEF UnpackBytes

LEMMA SafeAlways == Spec => []Safe
<1>1. Init => Safe
  <2> SUFFICES ASSUME Init
               PROVE  Safe
    OBVIOUS
  <2>1. last = Nothing /\ pos = Start /\ buf \in [Buffer -> Byte] /\ over \in BOOLEAN
    BY DEF Init
  <2>2. last.touched = {} /\ last.from = Start
    BY <2>1 DEF Nothing
  <2> QED
    BY <2>1, <2>2, EndIsAddr DEF Safe, TypeOK, EscapesExplained
<1>2. Safe /\ [Next]_vars => Safe'
  <2> SUFFICES ASSUME Safe, [Next]_vars
               PROVE  Safe'
    OBVIOUS
  <2>1. TypeOK
    BY DEF Safe
  <2>2. CASE UNCHANGED vars
    BY <2>2 DEF vars, Safe, TypeOK, EscapesExplained
  <2>3. ASSUME NEW n \in Addr, Skip(n) \/ Seekp(n)
        PROVE  Safe'
    <3>1. Plus(pos, n) \in Addr /\ Plus(Start, n) \in Addr
      BY <2>1, EndIsAddr, WordType DEF TypeOK
    <3> QED
      BY <2>1, <2>3, <3>1, MoveSafe DEF Skip, Seekp
  <2>4. ASSUME NEW n \in Addr, Read(n) \/ Write(n)
        PROVE  Safe'
    BY <2>1, <2>4, ReadSafe, WriteSafe
  <2>5. ASSUME NEW b \in Byte, Put(b) \/ Get
        PROVE  Safe'
    BY <2>1, <2>5, PutGetSafe
  <2>6. CASE Get
    BY <2>5, <2>6, Constants
  <2>7. ASSUME NEW signed \in BOOLEAN, Unpack(signed) \/ \E v \in Word : Pack(signed, v)
        PROVE  Safe'
    BY <2>1, <2>7, UnpackSafe, PackSafe
  <2>8. CASE UnpackBytes
    BY <2>1, <2>8, UnpackBytesSafe
  <2> QED
    BY <2>2, <2>3, <2>4, <2>5, <2>6, <2>7, <2>8 DEF Next
<1> QED
  BY <1>1, <1>2, PTL DEF Spec

\* Whatever a program does with a datastream, in any order: it uses memory
\* outside the buffer only for one of the reasons EscapesExplained gives.
THEOREM StreamSafety == Spec => []EscapesExplained
<1>1. Safe => EscapesExplained
  BY DEF Safe
<1> QED
  BY <1>1, SafeAlways, PTL

-----------------------------------------------------------------------------
(* Integers written and read.                                              *)

\* The signed integers and the words they are written as are in one-to-one
\* correspondence.
LEMMA ZigZagInverse ==
    ASSUME NEW v \in Word
    PROVE  /\ ZigZag(v) \in Word /\ UnZigZag(v) \in Word
           /\ UnZigZag(ZigZag(v)) = v /\ ZigZag(UnZigZag(v)) = v
<1>. Width \in Nat /\ Width >= 1 /\ v \subseteq 0 .. Width - 1
  BY Constants DEF Word, Bit
<1>1. ZigZag(v) \in Word /\ UnZigZag(v) \in Word
  BY DEF ZigZag, UnZigZag, Word, Bit
<1>2. UnZigZag(ZigZag(v)) = v
  <2>. DEFINE w == ZigZag(v)
  <2>1. 0 \in w <=> Width - 1 \in v
    BY DEF ZigZag, Bit
  <2>2. \A b \in 0 .. Width - 2 : b + 1 \in w <=> (b \in v <=> Width - 1 \notin v)
    BY DEF ZigZag, Bit
  <2>3. w \subseteq 0 .. Width - 1
    BY <1>1 DEF Word, Bit
  <2>. HIDE DEF w
  <2>. DEFINE h == {b - 1 : b \in w \ {0}}
  <2>4. h \subseteq 0 .. Width - 2
    BY <2>3
  <2>5. \A b \in 0 .. Width - 2 : b \in h <=> b + 1 \in w
    BY <2>3
  <2>6. UnZigZag(w) = IF 0 \in w THEN Bit \ h ELSE h
    BY DEF UnZigZag
  <2>. HIDE DEF h
  <2>7. CASE Width - 1 \in v
    <3>1. UnZigZag(w) = Bit \ h
      BY <2>1, <2>6, <2>7
    <3>2. \A b \in 0 .. Width - 1 : b \in h <=> b \notin v
      BY <2>2, <2>4, <2>5, <2>7
    <3>. QED
      BY <3>1, <3>2 DEF Bit, w
  <2>8. CASE Width - 1 \notin v
    <3>1. UnZigZag(w) = h
      BY <2>1, <2>6, <2>8
    <3>2. \A b \in 0 .. Width - 1 : b \in h <=> b \in v
      BY <2>2, <2>4, <2>5, <2>8
    <3>3. h \subseteq 0 .. Width - 1
      BY <2>4
    <3>4. h = v
      BY <3>2, <3>3
    <3>. QED
      BY <3>1, <3>4 DEF w
  <2>. QED
    BY <2>7, <2>8
<1>3. ZigZag(UnZigZag(v)) = v
  <2>. DEFINE w == UnZigZag(v)
              h == {b - 1 : b \in v \ {0}}
  <2>1. h \subseteq 0 .. Width - 2
    OBVIOUS
  <2>2. \A b \in 0 .. Width - 2 : b \in h <=> b + 1 \in v
    OBVIOUS
  <2>3. w = IF 0 \in v THEN Bit \ h ELSE h
    BY DEF UnZigZag
  <2>. HIDE DEF h, w
  <2>4. Width - 1 \in w <=> 0 \in v
    BY <2>1, <2>3 DEF Bit
  <2>5. \A b \in 0 .. Width - 2 : b \in w <=> (b + 1 \in v <=> 0 \notin v)
    BY <2>2, <2>3 DEF Bit
  <2>. DEFINE d == {b + 1 : b \in w} \cap Bit
  <2>6. w \subseteq 0 .. Width - 1
    BY <2>1, <2>3 DEF Bit
  <2>7. d \subseteq 1 .. Width - 1
    BY <2>6 DEF Bit
  <2>8. \A b \in 1 .. Width - 1 : b \in d <=> (b \in v <=> 0 \notin v)
    <3>. SUFFICES ASSUME NEW b \in 1 .. Width - 1
                  PROVE  b \in d <=> (b \in v <=> 0 \notin v)
      OBVIOUS
    <3>1. b - 1 \in 0 .. Width - 2 /\ (b - 1) + 1 = b
      OBVIOUS
    <3>2. b \in d <=> b - 1 \in w
      BY <2>6 DEF Bit
    <3>. QED
      BY <2>5, <3>1, <3>2
  <2>9. ZigZag(w) = IF Width - 1 \in w THEN Bit \ d ELSE d
    BY DEF ZigZag
  <2>. HIDE DEF d
  <2>10. CASE 0 \in v
    <3>1. ZigZag(w) = Bit \ d
      BY <2>4, <2>9, <2>10
    <3>2. \A b \in 0 .. Width - 1 : b \in d <=> b \notin v
      BY <2>7, <2>8, <2>10
    <3>. QED
      BY <3>1, <3>2 DEF Bit, w
  <2>11. CASE 0 \notin v
    <3>1. ZigZag(w) = d
      BY <2>4, <2>9, <2>11
    <3>2. \A b \in 0 .. Width - 1 : b \in d <=> b \in v
      BY <2>7, <2>8, <2>11
    <3>3. d \subseteq 0 .. Width - 1
      BY <2>7
    <3>4. d = v
      BY <3>2, <3>3
    <3>. QED
      BY <3>1, <3>4 DEF w
  <2>. QED
    BY <2>10, <2>11
<1>. QED
  BY <1>1, <1>2, <1>3

\* What n bytes are read as, if none of them lies behind the last bit.
ReadAs(s, n) == (UNION {{b + Digit * (i - 1) : b \in s[i].bits} : i \in 1 .. n}) \cap Bit

LEMMA InReadAs ==
    ASSUME NEW s, NEW n \in Nat, NEW i \in 1 .. n, NEW b \in s[i].bits, b + Digit * (i - 1) \in Bit
    PROVE  b + Digit * (i - 1) \in ReadAs(s, n)
<1>1. b + Digit * (i - 1) \in {c + Digit * (i - 1) : c \in s[i].bits}
  OBVIOUS
<1>. QED
  BY <1>1 DEF ReadAs

LEMMA DecodedOnce ==
    ASSUME NEW signed \in BOOLEAN, NEW n \in Nat \ {0}, Digit * (n - 1) < Width,
           NEW s, DOMAIN s = 1 .. n
    PROVE  Decodings(signed, s) = {ReadAs(s, n)}
<1>1. /\ Digit \in Nat /\ Digit >= 1 /\ Width \in Nat /\ ByMod \in Nat /\ ByMod >= Width
      /\ ByMod >= 1
  BY Constants
<1>2. \A i \in 1 .. n : Digit * (i - 1) \in Nat /\ Digit * (i - 1) < Width
  <2>. SUFFICES ASSUME NEW i \in 1 .. n
                PROVE  Digit * (i - 1) \in Nat /\ Digit * (i - 1) < Width
    OBVIOUS
  <2>1. i - 1 \in Nat /\ n - 1 \in Nat /\ (i - 1 < n - 1 \/ i - 1 = n - 1)
    OBVIOUS
  <2>2. Digit * (i - 1) \in Nat /\ Digit * (n - 1) \in Nat
    BY <1>1, <2>1
  <2>3. i - 1 < n - 1 => Digit * (i - 1) + Digit <= Digit * (n - 1)
    BY <2>1, DigitsApart
  <2>. QED
    BY <1>1, <2>1, <2>2, <2>3
<1>3. \A i \in 1 .. n : By(signed, i) = Digit * (i - 1)
  <2>1. ASSUME NEW x \in Nat, x < Width
        PROVE  x % ByMod = x
    BY <1>1, <2>1
  <2>. QED
    BY <1>2, <2>1 DEF By
<1>4. {i \in DOMAIN s : By(signed, i) < Width} = DOMAIN s
  BY <1>2, <1>3
<1>5. (UNION {{b + By(signed, i) : b \in s[i].bits} : i \in DOMAIN s}) \cap Bit = ReadAs(s, n)
  BY <1>3 DEF ReadAs
<1>. QED
  BY <1>4, <1>5 DEF Decodings

LEMMA EncodeFacts ==
    ASSUME NEW v \in Word
    PROVE  /\ Length(v) \in Nat \ {0} /\ Digit * (Length(v) - 1) < Width
           /\ DOMAIN Encode(v) = 1 .. Length(v) /\ Len(Encode(v)) = Length(v)
           /\ \A i \in 1 .. Length(v) :
                /\ Encode(v)[i].bits = {b \in 0 .. Digit - 1 : b + Digit * (i - 1) \in v}
                /\ Encode(v)[i].more = (i < Length(v))
<1>1. /\ Length(v) \in 1 .. Width /\ Width \in Nat /\ Digit \in Nat /\ Digit >= 1
      /\ \A k \in 1 .. Length(v) - 1 : ~(v \subseteq 0 .. Digit * k - 1)
      /\ v \subseteq 0 .. Width - 1
  BY LengthIsSmallest, Constants DEF Word, Bit
<1>2. Length(v) \in Nat /\ Length(v) >= 1
  BY <1>1
<1>. DEFINE n == Length(v)
<1>. HIDE DEF n
<1>3. Digit * (n - 1) < Width
  <2>1. CASE n = 1
    <3>1. Digit * (n - 1) = 0
      BY <1>1, <2>1
    <3>. QED
      BY <1>1, <1>2, <3>1 DEF n
  <2>2. CASE n # 1
    <3>1. n - 1 \in 1 .. n - 1 /\ n - 1 \in Nat
      BY <1>2, <2>2 DEF n
    <3>2. ~(v \subseteq 0 .. Digit * (n - 1) - 1)
      BY <1>1, <3>1 DEF n
    <3>3. Digit * (n - 1) \in Nat
      BY <1>1, <3>1
    <3>. QED
      BY <1>1, <3>2, <3>3
  <2>. QED
    BY <2>1, <2>2
<1>4. DOMAIN Encode(v) = 1 .. n
  BY DEF Encode, n
<1>5. Len(Encode(v)) = n
  <2>1. Encode(v) = [i \in 1 .. n |-> [bits |-> {b \in 0 .. Digit - 1 : b + Digit * (i - 1) \in v},
                                       more |-> i < n]]
    BY DEF Encode, n
  <2>. QED
    BY <1>2, <2>1 DEF n
<1>6. \A i \in 1 .. n : /\ Encode(v)[i].bits = {b \in 0 .. Digit - 1 : b + Digit * (i - 1) \in v}
                        /\ Encode(v)[i].more = (i < n)
  BY DEF Encode, n
<1>. QED
  BY <1>2, <1>3, <1>4, <1>5, <1>6 DEF n

\* Reading what was written gives the integer back.
LEMMA DecodeEncode ==
    ASSUME NEW signed \in BOOLEAN, NEW v \in Word
    PROVE  Decodings(signed, Encode(v)) = {v}
<1>. DEFINE n == Length(v)
            s == Encode(v)
<1>1. /\ n \in Nat \ {0} /\ Digit * (n - 1) < Width /\ DOMAIN s = 1 .. n
      /\ \A i \in 1 .. n : s[i].bits = {b \in 0 .. Digit - 1 : b + Digit * (i - 1) \in v}
      /\ v \subseteq 0 .. Digit * n - 1 /\ v \subseteq Bit
  BY EncodeFacts, LengthIsSmallest DEF Word
<1>. HIDE DEF n, s
<1>2. Digit \in Nat /\ Digit >= 1 /\ Digit * n \in Nat
  BY <1>1, Constants
<1>3. ASSUME NEW x \in v
      PROVE  x \in ReadAs(s, n)
  <2>1. x \in Nat /\ x < Digit * n
    BY <1>1, <1>2
  <2>2. PICK i \in 0 .. n - 1, b \in 0 .. Digit - 1 : x = b + Digit * i
    BY <1>1, <2>1, BitIsPlaced
  <2>3. i + 1 \in 1 .. n /\ (i + 1) - 1 = i
    BY <1>1
  <2>4. b \in s[i + 1].bits
    BY <1>1, <2>2, <2>3
  <2>5. b + Digit * ((i + 1) - 1) \in Bit
    BY <1>1, <2>2, <2>3
  <2>6. b + Digit * ((i + 1) - 1) \in ReadAs(s, n)
    BY <1>1, <2>3, <2>4, <2>5, InReadAs
  <2>. QED
    BY <2>2, <2>3, <2>6
<1>4. ASSUME NEW x \in ReadAs(s, n)
      PROVE  x \in v
  <2>1. PICK i \in 1 .. n : x \in {b + Digit * (i - 1) : b \in s[i].bits}
    BY DEF ReadAs
  <2>. QED
    BY <1>1, <2>1
<1>5. ReadAs(s, n) = v
  BY <1>3, <1>4
<1>. QED
  BY <1>1, <1>5, DecodedOnce DEF s

\* Fewer bytes are never read as it.
LEMMA ShorterIsOther ==
    ASSUME NEW signed \in BOOLEAN, NEW v \in Word, NEW n \in 1 .. Length(v) - 1,
           NEW s \in [1 .. n -> Byte]
    PROVE  v \notin Decodings(signed, s)
<1>1. /\ Length(v) \in Nat \ {0} /\ Digit * (Length(v) - 1) < Width
      /\ ~(v \subseteq 0 .. Digit * n - 1)
      /\ Digit \in Nat /\ Digit >= 1 /\ Width \in Nat
  BY EncodeFacts, LengthIsSmallest, Constants
<1>2. n \in Nat \ {0} /\ n - 1 \in Nat /\ n - 1 < Length(v) - 1 /\ Length(v) - 1 \in Nat
  BY <1>1
<1>3. Digit * (n - 1) < Width
  <2>1. Digit * (n - 1) + Digit <= Digit * (Length(v) - 1) /\ Digit * (n - 1) \in Nat
        /\ Digit * (Length(v) - 1) \in Nat
    BY <1>2, DigitsApart
  <2>. QED
    BY <1>1, <2>1
<1>4. Decodings(signed, s) = {ReadAs(s, n)}
  BY <1>2, <1>3, DecodedOnce
<1>5. ReadAs(s, n) \subseteq 0 .. Digit * n - 1
  <2>. SUFFICES ASSUME NEW x \in ReadAs(s, n)
                PROVE  x \in 0 .. Digit * n - 1
    OBVIOUS
  <2>1. PICK i \in 1 .. n : x \in {b + Digit * (i - 1) : b \in s[i].bits}
    BY DEF ReadAs
  <2>2. PICK b \in s[i].bits : x = b + Digit * (i - 1)
    BY <2>1
  <2>3. b \in 0 .. Digit - 1
    BY DEF Byte
  <2>4. i - 1 \in Nat /\ n \in Nat /\ i - 1 < n
    BY <1>2
  <2>5. Digit * (i - 1) + Digit <= Digit * n /\ Digit * (i - 1) \in Nat /\ Digit * n \in Nat
    BY <2>4, DigitsApart
  <2>. QED
    BY <1>1, <2>2, <2>3, <2>5
<1>. QED
  BY <1>1, <1>4, <1>5

\* Bytes that are not padded and hold no bit behind the last one are those
\* of the integer they are read as.
LEMMA EncodeDecode ==
    ASSUME NEW signed \in BOOLEAN, NEW n \in Nat \ {0}, NEW s \in [1 .. n -> Byte],
           \A i \in 1 .. n : s[i].more <=> i < n,
           n = 1 \/ s[n].bits # {},
           \A i \in 1 .. n : \A b \in s[i].bits : ~(b + Digit * (i - 1) >= Width)
    PROVE  \E w \in Word : Decodings(signed, s) = {w} /\ Encode(w) = s
<1>. DEFINE w == ReadAs(s, n)
<1>1. /\ Digit \in Nat /\ Digit >= 1 /\ Width \in Nat /\ Width >= 1 /\ n >= 1
      /\ \A i \in 1 .. n : Digit * (i - 1) \in Nat /\ i - 1 \in Nat
      /\ \A i \in 1 .. n : s[i].bits \subseteq 0 .. Digit - 1
  <2>1. Digit \in Nat /\ Digit >= 1 /\ Width \in Nat /\ Width >= 1 /\ n >= 1
    BY Constants
  <2>2. \A i \in 1 .. n : i - 1 \in Nat
    OBVIOUS
  <2>3. \A i \in 1 .. n : Digit * (i - 1) \in Nat
    BY <2>1, <2>2
  <2>4. \A i \in 1 .. n : s[i].bits \subseteq 0 .. Digit - 1
    BY DEF Byte
  <2>. QED
    BY <2>1, <2>2, <2>3, <2>4
<1>2. n \in 1 .. n
  BY <1>1
<1>3. Digit * (n - 1) < Width
  <2>1. CASE n = 1
    <3>1. Digit * (n - 1) = 0
      BY <1>1, <2>1
    <3>. QED
      BY <1>1, <3>1
  <2>2. CASE s[n].bits # {}
    <3>1. PICK b \in s[n].bits : TRUE
      BY <2>2
    <3>2. b \in Nat /\ b + Digit * (n - 1) < Width
      BY <1>1, <1>2
    <3>. QED
      BY <1>1, <1>2, <3>2
  <2>. QED
    BY <2>1, <2>2
<1>4. Decodings(signed, s) = {w}
  BY <1>3, DecodedOnce
<1>5. w \in Word
  <2>1. w \subseteq Bit
    BY DEF ReadAs
  <2>. QED
    BY <2>1 DEF Word
<1>6. \A i \in 1 .. n : \A b \in 0 .. Digit - 1 : b + Digit * (i - 1) \in w <=> b \in s[i].bits
  <2>. SUFFICES ASSUME NEW i \in 1 .. n, NEW b \in 0 .. Digit - 1
                PROVE  b + Digit * (i - 1) \in w <=> b \in s[i].bits
    OBVIOUS
  <2>1. ASSUME b \in s[i].bits
        PROVE  b + Digit * (i - 1) \in w
    <3>1. b + Digit * (i - 1) \in Nat /\ b + Digit * (i - 1) < Width
      BY <1>1, <2>1
    <3>2. b + Digit * (i - 1) \in Bit
      BY <1>1, <3>1 DEF Bit
    <3>. QED
      BY <2>1, <3>2, InReadAs
  <2>2. ASSUME b + Digit * (i - 1) \in w
        PROVE  b \in s[i].bits
    <3>1. PICK j \in 1 .. n : b + Digit * (i - 1) \in {c + Digit * (j - 1) : c \in s[j].bits}
      BY <2>2 DEF ReadAs
    <3>2. PICK c \in s[j].bits : b + Digit * (i - 1) = c + Digit * (j - 1)
      BY <3>1
    <3>3. i - 1 = j - 1 /\ b = c
      <4>1. i - 1 \in Nat /\ j - 1 \in Nat /\ c \in 0 .. Digit - 1
        BY <1>1
      <4>. QED
        BY <3>2, <4>1, BitPlace
    <3>4. i = j
      BY <3>3
    <3>. QED
      BY <3>3, <3>4
  <2>. QED
    BY <2>1, <2>2
<1>7. \A x \in w : x \in 0 .. Digit * n - 1
  <2>. SUFFICES ASSUME NEW x \in w
                PROVE  x \in 0 .. Digit * n - 1
    OBVIOUS
  <2>1. PICK i \in 1 .. n : x \in {b + Digit * (i - 1) : b \in s[i].bits}
    BY DEF ReadAs
  <2>2. PICK b \in s[i].bits : x = b + Digit * (i - 1)
    BY <2>1
  <2>3. i - 1 < n /\ i - 1 \in Nat /\ n \in Nat
    BY <1>1
  <2>4. Digit * (i - 1) + Digit <= Digit * n /\ Digit * (i - 1) \in Nat /\ Digit * n \in Nat
    BY <2>3, DigitsApart
  <2>5. b \in 0 .. Digit - 1
    BY <1>1
  <2>6. ASSUME NEW p \in Nat, NEW q \in Nat, p + Digit <= q
        PROVE  b + p \in 0 .. q - 1
    BY <1>1, <2>5, <2>6
  <2>. QED
    BY <2>2, <2>4, <2>6
<1>. HIDE DEF w
<1>8. Length(w) = n
  <2>1. /\ Length(w) \in 1 .. Width /\ w \subseteq 0 .. Digit * Length(w) - 1
        /\ \A k \in 1 .. Length(w) - 1 : ~(w \subseteq 0 .. Digit * k - 1)
    BY <1>5, LengthIsSmallest
  <2>2. Length(w) \in Nat /\ Length(w) >= 1
    BY <1>1, <2>1
  <2>3. ~(n < Length(w))
    BY <1>1, <1>7, <2>1, <2>2
  <2>4. ~(Length(w) < n)
    <3>. SUFFICES ASSUME Length(w) < n
                  PROVE  FALSE
      OBVIOUS
    <3>1. n # 1
      BY <2>2
    <3>2. PICK b \in s[n].bits : TRUE
      BY <3>1
    <3>3. b + Digit * (n - 1) \in w /\ b \in Nat
      BY <1>1, <1>2, <1>6
    <3>4. Digit * Length(w) <= Digit * (n - 1) /\ Digit * Length(w) \in Nat
          /\ Digit * (n - 1) \in Nat
      <4>1. n - 1 \in Nat /\ (Length(w) < n - 1 \/ Length(w) = n - 1)
        BY <1>1, <2>2
      <4>2. Digit * Length(w) \in Nat /\ Digit * (n - 1) \in Nat
        BY <1>1, <2>2, <4>1
      <4>3. Length(w) < n - 1 => Digit * Length(w) + Digit <= Digit * (n - 1)
        BY <2>2, <4>1, DigitsApart
      <4>. QED
        BY <1>1, <4>1, <4>2, <4>3
    <3>. QED
      BY <2>1, <3>3, <3>4
  <2>. QED
    BY <1>1, <2>2, <2>3, <2>4
<1>9. Encode(w) = s
  <2>1. \A i \in 1 .. n :
          [bits |-> {b \in 0 .. Digit - 1 : b + Digit * (i - 1) \in w}, more |-> i < n] = s[i]
    <3>. SUFFICES ASSUME NEW i \in 1 .. n
                  PROVE  [bits |-> {b \in 0 .. Digit - 1 : b + Digit * (i - 1) \in w},
                          more |-> i < n] = s[i]
      OBVIOUS
    <3>1. s[i] = [bits |-> s[i].bits, more |-> s[i].more] /\ s[i].more \in BOOLEAN
      BY DEF Byte
    <3>2. s[i].bits = {b \in 0 .. Digit - 1 : b + Digit * (i - 1) \in w}
      BY <1>1, <1>6
    <3>3. s[i].more = (i < n)
      BY <3>1
    <3>. QED
      BY <3>1, <3>2, <3>3
  <2>2. Encode(w) = [i \in 1 .. n |-> [bits |-> {b \in 0 .. Digit - 1 : b + Digit * (i - 1) \in w},
                                       more |-> i < n]]
    BY <1>8 DEF Encode
  <2>3. s = [i \in 1 .. n |-> s[i]]
    OBVIOUS
  <2>. QED
    BY <2>1, <2>2, <2>3
<1>. QED
  BY <1>4, <1>5, <1>9


-----------------------------------------------------------------------------
(* The stream after an integer was written or read.                        *)

\* Bytes inside the buffer follow each other without wrapping.
LEMMA SpanInside ==
    ASSUME NEW a \in Addr, NEW n \in 1 .. Mem - 1, Span(a, n) \subseteq Buffer
    PROVE  /\ a + n <= End /\ Plus(a, n) = a + n
           /\ \A i \in 1 .. n : Plus(a, i - 1) = a + (i - 1) /\ a + (i - 1) \in Buffer
<1>1. \A i \in 0 .. n - 1 : Plus(a, i) \in Buffer
  BY DEF Span
<1>2. a \in Buffer
  <2>1. 0 \in 0 .. n - 1 /\ Plus(a, 0) = a
    BY Constants DEF Plus, Addr, Mem
  <2>. QED
    BY <1>1, <2>1
<1>3. a + n <= End
  <2>1. SUFFICES ASSUME a + n > End
                 PROVE  FALSE
    BY <1>2, Constants DEF Addr, Mem, End
  <2>2. End - a \in 0 .. n - 1 /\ Plus(a, End - a) = End
    BY <1>2, <2>1, Constants DEF Buffer, Plus, Addr, Mem, End
  <2>3. End \notin Buffer
    BY Constants DEF Buffer, End
  <2>. QED
    BY <1>1, <2>2, <2>3
<1>4. \A i \in 1 .. n : Plus(a, i - 1) = a + (i - 1) /\ a + (i - 1) \in Buffer
  BY <1>2, <1>3, Constants DEF Plus, Addr, Mem, End, Buffer
<1>5. Plus(a, n) = a + n
  BY <1>3, Constants DEF Plus, Addr, Mem, End
<1>. QED
  BY <1>3, <1>4, <1>5

\* What is stored inside the buffer is found there.
LEMMA StoredBytes ==
    ASSUME TypeOK, NEW s, Len(s) \in 1 .. Mem - 1,
           Store(s), Span(pos, Len(s)) \subseteq Buffer
    PROVE  \A i \in 1 .. Len(s) : buf'[pos + (i - 1)] = s[i]
<1>. SUFFICES ASSUME NEW i \in 1 .. Len(s)
              PROVE  buf'[pos + (i - 1)] = s[i]
  OBVIOUS
<1>1. pos \in Addr /\ pos \in Nat /\ i \in Nat /\ i >= 1 /\ i <= Len(s) /\ Len(s) \in Nat
  BY Constants DEF TypeOK, Addr, Mem
<1>2. pos + (i - 1) \in Buffer
  BY <1>1, SpanInside
<1>3. Minus(pos + (i - 1), pos) = i - 1
  BY <1>1 DEF Minus
<1>4. i - 1 < Len(s) /\ (i - 1) + 1 = i
  BY <1>1
<1>. QED
  BY <1>2, <1>3, <1>4 DEF Store

\* The words that n bytes may be read as.
LEMMA DecodingsType ==
    ASSUME NEW signed \in BOOLEAN, NEW s, NEW w \in Decodings(signed, s)
    PROVE  w \in Word
BY DEF Decodings, Word

\* An integer is the only one its bytes are read as, and none of fewer bytes
\* is read as it.
LEMMA UnpackPacked ==
    ASSUME NEW signed \in BOOLEAN, NEW v \in Word
    PROVE  /\ Unpacked(signed, Packed(signed, v)) = {v}
           /\ \A n \in 1 .. Len(Packed(signed, v)) - 1 : \A s \in [1 .. n -> Byte] :
                v \notin Unpacked(signed, s)
<1>. DEFINE w == IF signed THEN ZigZag(v) ELSE v
<1>1. w \in Word /\ Packed(signed, v) = Encode(w) /\ Len(Packed(signed, v)) = Length(w)
  <2>1. w \in Word
    BY ZigZagInverse
  <2>2. Packed(signed, v) = Encode(w)
    BY DEF Packed
  <2>. HIDE DEF w
  <2>. QED
    BY <2>1, <2>2, EncodeFacts
<1>2. Decodings(signed, Packed(signed, v)) = {w}
  <2>. HIDE DEF w
  <2>. QED
    BY <1>1, DecodeEncode
<1>3. Unpacked(signed, Packed(signed, v)) = {v}
  <2>1. CASE signed
    BY <1>2, <2>1, ZigZagInverse DEF Unpacked
  <2>2. CASE ~signed
    BY <1>2, <2>2 DEF Unpacked
  <2>. QED
    BY <2>1, <2>2
<1>4. ASSUME NEW n \in 1 .. Length(w) - 1, NEW s \in [1 .. n -> Byte],
             v \in Unpacked(signed, s)
      PROVE  FALSE
  <2>1. w \notin Decodings(signed, s)
    <3>. HIDE DEF w
    <3>. QED
      BY <1>1, ShorterIsOther
  <2>2. CASE signed
    <3>1. PICK x \in Decodings(signed, s) : v = UnZigZag(x)
      BY <1>4, <2>2 DEF Unpacked
    <3>2. ZigZag(v) = x
      BY <3>1, DecodingsType, ZigZagInverse
    <3>. QED
      BY <2>1, <2>2, <3>2
  <2>3. CASE ~signed
    BY <1>4, <2>1, <2>3 DEF Unpacked
  <2>. QED
    BY <2>2, <2>3
<1>. QED
  BY <1>1, <1>3, <1>4

LEMMA PackedFlags ==
    ASSUME NEW signed \in BOOLEAN, NEW v \in Word
    PROVE  \A i \in 1 .. Len(Packed(signed, v)) :
             Packed(signed, v)[i].more <=> i < Len(Packed(signed, v))
<1>. DEFINE w == IF signed THEN ZigZag(v) ELSE v
<1>1. w \in Word
  BY ZigZagInverse
<1>2. Packed(signed, v) = Encode(w)
  BY DEF Packed
<1>. HIDE DEF w
<1>3. /\ Len(Encode(w)) = Length(w)
      /\ \A i \in 1 .. Length(w) : Encode(w)[i].more = (i < Length(w))
  BY <1>1, EncodeFacts
<1>. QED
  BY <1>2, <1>3

LEMMA OpNames ==
    /\ \A signed \in BOOLEAN : /\ PackOp(signed) \in {"pack signed", "pack unsigned"}
                               /\ UnpackOp(signed) \in {"unpack signed", "unpack unsigned"}
    /\ \A signed, sg \in BOOLEAN : PackOp(sg) = PackOp(signed) => sg = signed
    /\ \A signed, sg \in BOOLEAN : UnpackOp(sg) = UnpackOp(signed) => sg = signed
<1>1. PackOp(TRUE) = "pack signed" /\ PackOp(FALSE) = "pack unsigned"
  BY DEF PackOp
<1>2. UnpackOp(TRUE) = "unpack signed" /\ UnpackOp(FALSE) = "unpack unsigned"
  BY DEF UnpackOp
<1>3. \A signed \in BOOLEAN : signed = TRUE \/ signed = FALSE
  OBVIOUS
<1>. QED
  BY <1>1, <1>2, <1>3

LEMMA PackRoundTrip ==
    ASSUME TypeOK, NEW signed \in BOOLEAN, NEW v \in Word, Pack(signed, v)
    PROVE  RoundTrip'
<1>. DEFINE s == Packed(signed, v)
            n == Len(s)
<1>1. n \in 1 .. Mem - 1 /\ DOMAIN s = 1 .. n
  BY PackedType
<1>2. CASE Abort
  BY <1>2 DEF Abort, Nothing, RoundTrip, PackOp
<1>3. CASE Did(PackOp(signed), Span(pos, n), Plus(pos, n), n, v) /\ Store(s)
  <2>1. /\ last'.op = PackOp(signed) /\ last'.from = pos /\ last'.arg = n /\ last'.value = v
        /\ last'.touched = Span(pos, n) /\ pos' = Plus(pos, n)
    BY <1>3 DEF Did
  <2>2. \A sg \in BOOLEAN : PackOp(sg) = PackOp(signed) => sg = signed
    BY OpNames
  <2>. SUFFICES ASSUME Span(pos, n) \subseteq Buffer
                PROVE  /\ Integer(last.from, last.arg)'
                       /\ Unpacked(signed, Bytes(last.from, last.arg)') = {v}
                       /\ pos' = pos + n
                       /\ \A k \in 1 .. n - 1 : \A t \in [1 .. k -> Byte] :
                            v \notin Unpacked(signed, t)
    BY <2>1, <2>2 DEF RoundTrip
  <2>. HIDE DEF n
  <2>3. /\ pos + n <= End /\ Plus(pos, n) = pos + n
        /\ \A i \in 1 .. n : Plus(pos, i - 1) = pos + (i - 1) /\ pos + (i - 1) \in Buffer
    BY <1>1, SpanInside DEF TypeOK
  <2>4. \A i \in 1 .. n : buf'[pos + (i - 1)] = s[i]
    BY <1>1, <1>3, StoredBytes DEF n
  <2>5. \A i \in 1 .. n : At(Plus(last.from, i - 1))' = s[i]
    BY <2>1, <2>3, <2>4 DEF At
  <2>6. Bytes(last.from, last.arg)' = s
    <3>1. Bytes(last.from, last.arg)' = [i \in 1 .. n |-> At(Plus(last.from, i - 1))']
      BY <2>1 DEF Bytes
    <3>2. s = [i \in 1 .. n |-> s[i]]
      <4>1. s = Encode(IF signed THEN ZigZag(v) ELSE v)
        BY DEF Packed
      <4>. HIDE DEF s
      <4>. QED
        BY <1>1, <4>1 DEF Encode
    <3>. HIDE DEF s
    <3>. QED
      BY <2>5, <3>1, <3>2
  <2>7. Integer(last.from, last.arg)'
    <3>1. \A i \in 1 .. n : s[i].more <=> i < n
      BY PackedFlags DEF n
    <3>2. \A i \in 1 .. n : pos + (i - 1) < End
      BY <2>3, Constants DEF Buffer, End
    <3>. HIDE DEF s
    <3>. QED
      BY <2>1, <2>3, <2>5, <3>1, <3>2 DEF Integer, PutChecks
  <2>8. /\ Unpacked(signed, s) = {v}
        /\ \A k \in 1 .. n - 1 : \A t \in [1 .. k -> Byte] : v \notin Unpacked(signed, t)
    BY UnpackPacked DEF n
  <2>. QED
    BY <2>1, <2>3, <2>6, <2>7, <2>8
<1>. QED
  BY <1>2, <1>3 DEF Pack

LEMMA UnpackOneEncoding ==
    ASSUME TypeOK, NEW signed \in BOOLEAN, Unpack(signed)
    PROVE  OneEncoding'
<1>1. CASE Abort
  BY <1>1 DEF Abort, Nothing, OneEncoding, UnpackOp
<1>2. ASSUME NEW n \in 1 .. Mem - 1, Integer(pos, n),
             NEW v \in Unpacked(signed, Bytes(pos, n)),
             Did(UnpackOp(signed), Span(pos, n), Plus(pos, n), n, v), buf' = buf
      PROVE  OneEncoding'
  <2>. DEFINE s == Bytes(pos, n)
  <2>1. last'.op = UnpackOp(signed) /\ last'.from = pos /\ last'.arg = n /\ last'.value = v
    BY <1>2 DEF Did
  <2>2. \A sg \in BOOLEAN : UnpackOp(sg) = UnpackOp(signed) => sg = signed
    BY OpNames
  <2>3. Bytes(last.from, last.arg)' = s
    BY <1>2, <2>1 DEF Bytes, At
  <2>4. n \in Nat \ {0} /\ \A i \in 1 .. n : i - 1 \in Addr
    BY Constants DEF Addr, Mem
  <2>5. s \in [1 .. n -> Byte]
    <3>1. \A a \in Addr : At(a) \in Byte
      BY Constants DEF At, TypeOK
    <3>2. \A i \in 1 .. n : Plus(pos, i - 1) \in Addr
      BY <2>4, WordType DEF TypeOK
    <3>. QED
      BY <3>1, <3>2 DEF Bytes
  <2>6. Len(s) = n /\ DOMAIN s = 1 .. n
    BY <2>4, <2>5
  <2>7. \A i \in 1 .. n : s[i].more <=> i < n
    BY <1>2 DEF Bytes, Integer
  <2>8. v \in Unpacked(signed, s)
    OBVIOUS
  <2>. HIDE DEF s
  <2>9. SUFFICES ASSUME ~(n > 1 /\ s[n].bits = {}),
                        \A i \in 1 .. n : \A b \in s[i].bits : ~(b + Digit * (i - 1) >= Width)
                 PROVE  s = Packed(signed, v)
    BY <2>1, <2>2, <2>3, <2>6 DEF OneEncoding
  <2>10. n = 1 \/ s[n].bits # {}
    BY <2>4, <2>9
  <2>11. PICK w \in Word : Decodings(signed, s) = {w} /\ Encode(w) = s
    BY <2>4, <2>5, <2>7, <2>9, <2>10, EncodeDecode
  <2>12. w = IF signed THEN ZigZag(v) ELSE v
    <3>1. CASE signed
      <4>1. v = UnZigZag(w)
        BY <2>8, <2>11, <3>1 DEF Unpacked
      <4>. QED
        BY <3>1, <4>1, ZigZagInverse
    <3>2. CASE ~signed
      BY <2>8, <2>11, <3>2 DEF Unpacked
    <3>. QED
      BY <3>1, <3>2
  <2>. QED
    BY <2>11, <2>12 DEF Packed
<1>. QED
  BY <1>1, <1>2 DEF Unpack

\* The operations that neither write nor read an integer.
OtherStep ==
    \/ UnpackBytes
    \/ Get
    \/ \E n \in Addr : Skip(n) \/ Seekp(n) \/ Read(n) \/ Write(n)
    \/ \E b \in Byte : Put(b)

LEMMA OtherOps ==
    ASSUME OtherStep
    PROVE  last'.op \in {"none", "read", "write", "put", "get", "bytes"}
<1>1. CASE UnpackBytes
  <2>1. CASE Abort
    BY <2>1 DEF Abort, Nothing
  <2>2. ASSUME NEW touched, NEW to, NEW m, Did("bytes", touched, to, m, {})
        PROVE  last'.op = "bytes"
    BY <2>2 DEF Did
  <2>. QED
    BY <1>1, <2>1, <2>2 DEF UnpackBytes
<1>2. CASE Get
  BY <1>2 DEF Get, Did, Abort, Nothing
<1>3. ASSUME NEW n \in Addr, Skip(n) \/ Seekp(n) \/ Read(n) \/ Write(n)
      PROVE  last'.op \in {"none", "read", "write"}
  BY <1>3 DEF Skip, Seekp, Read, Write, Move, Did, Abort, Nothing
<1>4. ASSUME NEW b \in Byte, Put(b)
      PROVE  last'.op \in {"none", "put"}
  BY <1>4 DEF Put, Did, Abort, Nothing
<1>. QED
  BY <1>1, <1>2, <1>3, <1>4 DEF OtherStep

LEMMA TypePreserved == Spec => []TypeOK
<1>1. Safe => TypeOK
  BY DEF Safe
<1>. QED
  BY <1>1, SafeAlways, PTL

\* What operator<< writes of an integer into the buffer, operator>> reads
\* again as that integer and to the same position, and no fewer bytes are
\* read as it: for integers of every width, signed or not.
THEOREM IntegersRoundTrip == Spec => []RoundTrip
<1>1. Init => RoundTrip
  BY DEF Init, Nothing, RoundTrip, PackOp
<1>2. TypeOK /\ RoundTrip /\ [Next]_vars => RoundTrip'
  <2>. SUFFICES ASSUME TypeOK, RoundTrip, [Next]_vars
                PROVE  RoundTrip'
    OBVIOUS
  <2>1. CASE UNCHANGED vars
    BY <2>1 DEF vars, RoundTrip, Integer, Bytes, At
  <2>2. ASSUME NEW signed \in BOOLEAN, NEW v \in Word, Pack(signed, v)
        PROVE  RoundTrip'
    BY <2>2, PackRoundTrip
  <2>3. ASSUME NEW signed \in BOOLEAN, Unpack(signed)
        PROVE  RoundTrip'
    <3>1. last'.op \in {"none", "unpack signed", "unpack unsigned"}
      <4>1. CASE Abort
        BY <4>1 DEF Abort, Nothing
      <4>2. ASSUME NEW touched, NEW to, NEW n, NEW v, Did(UnpackOp(signed), touched, to, n, v)
            PROVE  last'.op \in {"unpack signed", "unpack unsigned"}
        BY <4>2, OpNames DEF Did
      <4>. QED
        BY <2>3, <4>1, <4>2 DEF Unpack
    <3>. QED
      BY <3>1 DEF RoundTrip, PackOp
  <2>4. CASE OtherStep
    BY <2>4, OtherOps DEF RoundTrip, PackOp
  <2>. QED
    BY <2>1, <2>2, <2>3, <2>4 DEF Next, OtherStep
<1>. QED
  BY <1>1, <1>2, TypePreserved, PTL DEF Spec

\* An integer operator>> reads would be written as the bytes it was read
\* from, unless they are padded or have more bits than the integer.
THEOREM EncodingsUnique == Spec => []OneEncoding
<1>1. Init => OneEncoding
  BY DEF Init, Nothing, OneEncoding, UnpackOp
<1>2. TypeOK /\ OneEncoding /\ [Next]_vars => OneEncoding'
  <2>. SUFFICES ASSUME TypeOK, OneEncoding, [Next]_vars
                PROVE  OneEncoding'
    OBVIOUS
  <2>1. CASE UNCHANGED vars
    BY <2>1 DEF vars, OneEncoding, Bytes, At
  <2>2. ASSUME NEW signed \in BOOLEAN, NEW v \in Word, Pack(signed, v)
        PROVE  OneEncoding'
    <3>1. last'.op \in {"none", "pack signed", "pack unsigned"}
      <4>1. CASE Abort
        BY <4>1 DEF Abort, Nothing
      <4>2. ASSUME NEW touched, NEW to, NEW n, Did(PackOp(signed), touched, to, n, v)
            PROVE  last'.op \in {"pack signed", "pack unsigned"}
        BY <4>2, OpNames DEF Did
      <4>. QED
        BY <2>2, <4>1, <4>2 DEF Pack
    <3>. QED
      BY <3>1 DEF OneEncoding, UnpackOp
  <2>3. ASSUME NEW signed \in BOOLEAN, Unpack(signed)
        PROVE  OneEncoding'
    BY <2>3, UnpackOneEncoding
  <2>4. CASE OtherStep
    BY <2>4, OtherOps DEF OneEncoding, UnpackOp
  <2>. QED
    BY <2>1, <2>2, <2>3, <2>4 DEF Next, OtherStep
<1>. QED
  BY <1>1, <1>2, TypePreserved, PTL DEF Spec
=============================================================================
