----------------------------- MODULE Datastream -----------------------------
(***************************************************************************)
(* eosio::datastream over a buffer (core/eosio/datastream.hpp) and the     *)
(* variable length integers in it (core/eosio/varint.hpp).                 *)
(*                                                                         *)
(* Pointers and sizes are words, Mem of them, and wrap.  The value of an   *)
(* integer is the set of those of its Width bits that are 1.  A byte of a  *)
(* variable length integer has Digit bits of it and one, here "more", that *)
(* says whether another byte follows.  The code has Mem = 2^32, Width = 32 *)
(* and Digit = 7.                                                          *)
(***************************************************************************)
EXTENDS Integers, Sequences

CONSTANTS
    Half,         \* the largest word is 2 * Half - 1
    Width,        \* the bits of an integer
    Digit,        \* the bits of an integer in a byte
    ByMod,        \* the shift `by` of unsigned_int has the type uint8_t
    Start, Size,  \* the buffer
    Around,       \* the bytes around the buffer
    Fill          \* a byte the program has to write

Mem == 2 * Half
Addr == 0 .. Mem - 1
End == Start + Size
Buffer == Start .. End - 1

Bit == 0 .. Width - 1
Word == SUBSET Bit
Byte == [bits : SUBSET (0 .. Digit - 1), more : BOOLEAN]

ASSUME Constants ==
    /\ Half \in Nat \ {0, 1} /\ Width \in Nat \ {0} /\ Width < Mem
    /\ Digit \in Nat \ {0} /\ ByMod \in Nat /\ ByMod >= Width
    /\ Start \in Nat \ {0} /\ Size \in Nat
    /\ Size < Half /\ End < Mem
    /\ Around \in [Addr -> Byte] /\ Fill \in Byte

VARIABLES
    buf,   \* the contents of the buffer
    pos,   \* _pos
    last,  \* the last operation, if it used memory: see Did
    over   \* a check failed, or the program used memory that is not its own

vars == <<buf, pos, last, over>>

\* The arithmetic of unsigned words, and a word read as a signed integer.
Plus(a, b) == IF a + b >= Mem THEN a + b - Mem ELSE a + b
Minus(a, b) == IF a >= b THEN a - b ELSE a - b + Mem
Signed(a) == IF a >= Half THEN a - Mem ELSE a

\* The n addresses from a on.
Span(a, n) == {Plus(a, i) : i \in 0 .. n - 1}

At(a) == IF a \in Buffer THEN buf[a] ELSE Around[a]

-----------------------------------------------------------------------------
(* Variable length integers.                                               *)

LengthCountsFlag(v) ==
    CHOOSE n \in 1 .. Width : /\ v \subseteq 0 .. (Digit + 1) * n - 1
                              /\ \A k \in 1 .. n - 1 : ~(v \subseteq 0 .. (Digit + 1) * k - 1)

\* How many bytes operator<< makes of an integer: as long as a bit is left.
Length(v) ==
    CHOOSE n \in 1 .. Width : /\ v \subseteq 0 .. Digit * n - 1
                              /\ \A k \in 1 .. n - 1 : ~(v \subseteq 0 .. Digit * k - 1)

Encode(v) ==
    [i \in 1 .. Length(v) |-> [bits |-> {b \in 0 .. Digit - 1 : b + Digit * (i - 1) \in v},
                               more |-> i < Length(v)]]

\* by, when the i-th byte is read: an uint8_t or an int.
By(signed, i) == IF signed THEN Digit * (i - 1) ELSE (Digit * (i - 1)) % ByMod

\* The words operator>> may make of the bytes s.  Bits shifted out of a word
\* are lost; a shift by the width or more may give anything.
Decodings(signed, s) ==
    LET sane == {i \in DOMAIN s : By(signed, i) < Width}
        read == (UNION {{b + By(signed, i) : b \in s[i].bits} : i \in sane}) \cap Bit
    IN  IF sane = DOMAIN s THEN {read} ELSE {read \cup any : any \in Word}

\* (v << 1) ^ (v >> 31), and back.
ZigZag(v) ==
    LET doubled == {b + 1 : b \in v} \cap Bit
    IN  IF Width - 1 \in v THEN Bit \ doubled ELSE doubled

UnZigZagNoSign(w) == {b - 1 : b \in w \ {0}}

UnZigZag(w) ==
    LET halved == {b - 1 : b \in w \ {0}}
    IN  IF 0 \in w THEN Bit \ halved ELSE halved

Packed(signed, v) == Encode(IF signed THEN ZigZag(v) ELSE v)

Unpacked(signed, s) ==
    IF signed THEN {UnZigZag(w) : w \in Decodings(signed, s)} ELSE Decodings(signed, s)

\* The integer that stands for the size n.
BitsOf(n) == {b \in Bit : (n \div 2 ^ b) % 2 = 1}

-----------------------------------------------------------------------------

Nothing == [op |-> "none", from |-> Start, touched |-> {}, arg |-> 0, value |-> {}]

Init ==
    /\ buf \in [Buffer -> Byte]
    /\ pos = Start
    /\ last = Nothing
    /\ over = FALSE

\* An operation used the addresses `touched` from the position on; the
\* position is then `to`.
Did(op, touched, to, arg, value) ==
    /\ last' = [op |-> op, from |-> pos, touched |-> touched, arg |-> arg, value |-> value]
    /\ pos' = to
    /\ over' = ~(touched \subseteq Buffer)

\* eosio::check fails: the transaction is rolled back.
Abort ==
    /\ over' = TRUE
    /\ last' = Nothing
    /\ UNCHANGED <<buf, pos>>

\* The bytes s are stored from pos on.
Store(s) ==
    buf' = [a \in Buffer |-> IF Minus(a, pos) < Len(s) THEN s[Minus(a, pos) + 1] ELSE buf[a]]

Move(to) ==
    /\ pos' = to
    /\ last' = Nothing
    /\ UNCHANGED <<buf, over>>

Skip(n) == Move(Plus(pos, n))

Seekp(n) == Move(Plus(Start, n))

ReadChecksSigned(a, n) == Signed(Minus(End, a)) >= Signed(n)

\* The check of read, of write and of write of a char; of put and get.
ReadChecks(a, n) == Minus(End, a) >= n
WriteChecks(a, n) == Signed(Minus(End, a)) >= Signed(n)
PutChecks(a) == a < End

Read(n) ==
    IF ReadChecks(pos, n)
      THEN Did("read", Span(pos, n), Plus(pos, n), n, {}) /\ UNCHANGED buf
      ELSE Abort

Write(n) ==
    IF WriteChecks(pos, n)
      THEN Did("write", Span(pos, n), Plus(pos, n), n, {}) /\ Store([i \in 1 .. n |-> Fill])
      ELSE Abort

Put(b) ==
    IF PutChecks(pos)
      THEN Did("put", {pos}, Plus(pos, 1), 1, {}) /\ Store(<<b>>)
      ELSE Abort

Get ==
    IF PutChecks(pos)
      THEN Did("get", {pos}, Plus(pos, 1), 1, {}) /\ UNCHANGED buf
      ELSE Abort

PackOp(signed) == IF signed THEN "pack signed" ELSE "pack unsigned"
UnpackOp(signed) == IF signed THEN "unpack signed" ELSE "unpack unsigned"

\* operator<<: the bytes are written one by one.
Pack(signed, v) ==
    LET s == Packed(signed, v)
    IN  IF \A i \in DOMAIN s : WriteChecks(Plus(pos, i - 1), 1)
          THEN Did(PackOp(signed), Span(pos, Len(s)), Plus(pos, Len(s)), Len(s), v) /\ Store(s)
          ELSE Abort

\* n bytes make up an integer that begins at a.
Bytes(a, n) == [i \in 1 .. n |-> At(Plus(a, i - 1))]

Integer(a, n) ==
    /\ \A i \in 1 .. n : PutChecks(Plus(a, i - 1))
    /\ \A i \in 1 .. n : At(Plus(a, i - 1)).more <=> i < n

\* operator>>: bytes until one is the last, or get fails.
Unpack(signed) ==
    \/ \E n \in 1 .. Mem - 1 : Integer(pos, n) /\
         \E v \in Unpacked(signed, Bytes(pos, n)) :
           Did(UnpackOp(signed), Span(pos, n), Plus(pos, n), n, v) /\ UNCHANGED buf
    \/ (\A n \in 1 .. Mem - 1 : ~Integer(pos, n)) /\ Abort

\* A vector of chars or a string: its size, and as many bytes.
UnpackBytes ==
    \/ \E n \in 1 .. Mem - 1, m \in Addr :
         /\ Integer(pos, n) /\ m < 2 ^ Width /\ BitsOf(m) \in Decodings(FALSE, Bytes(pos, n))
         /\ IF ReadChecks(Plus(pos, n), m)
              THEN /\ Did("bytes", Span(pos, n) \cup Span(Plus(pos, n), m),
                          Plus(Plus(pos, n), m), m, {})
                   /\ UNCHANGED buf
              ELSE Abort
    \/ (\A n \in 1 .. Mem - 1 : ~Integer(pos, n)) /\ Abort

Next ==
    /\ ~over
    /\ \/ \E n \in Addr : Skip(n)
       \/ \E n \in Addr : Seekp(n)
       \/ \E n \in Addr : Read(n)
       \/ \E n \in Addr : Write(n)
       \/ \E b \in Byte : Put(b)
       \/ Get
       \/ \E signed \in BOOLEAN, v \in Word : Pack(signed, v)
       \/ \E signed \in BOOLEAN : Unpack(signed)
       \/ UnpackBytes

Spec == Init /\ [][Next]_vars

-----------------------------------------------------------------------------

TypeOK ==
    /\ buf \in [Buffer -> Byte]
    /\ pos \in Addr
    /\ last.from \in Addr
    /\ over \in BOOLEAN

\* No operation touches memory outside the buffer, unless a skip or seekp
\* left the stream outside, or the size given to write is negative as an
\* int32_t.  Behind the end read may pass its check, for it compares unsigned
\* words, and writing only so far behind that the difference of the pointers
\* is positive again.  A vector or a string is no exception, whatever size
\* the data claim, nor is an integer that never ends.
EscapesExplained ==
    \/ last.touched \subseteq Buffer
    \/ last.from < Start
    \/ last.from > End /\ last.op = "read"
    \/ last.from > End + Half /\ last.op \in {"write", "pack signed", "pack unsigned"}
    \/ last.op = "write" /\ last.arg >= Half

\* An integer written can be read again from the place it was written to, as
\* what it was and as far as the position is now, and no shorter sequence of
\* bytes is read as it: "as few bytes as possible".
RoundTrip ==
    \A signed \in BOOLEAN : last.op = PackOp(signed) /\ last.touched \subseteq Buffer =>
      /\ Integer(last.from, last.arg)
      /\ Unpacked(signed, Bytes(last.from, last.arg)) = {last.value}
      /\ pos = last.from + last.arg
      /\ \A n \in 1 .. last.arg - 1 : \A s \in [1 .. n -> Byte] :
           last.value \notin Unpacked(signed, s)

\* An integer read would be written as the bytes it was read from, unless
\* these are padded with zeros or have more bits than a word: nothing keeps
\* operator>> from reading such bytes, so one value has many encodings.
OneEncoding ==
    \A signed \in BOOLEAN : last.op = UnpackOp(signed) =>
      LET s == Bytes(last.from, last.arg)
      IN  \/ s = Packed(signed, last.value)
          \/ Len(s) > 1 /\ s[Len(s)].bits = {}
          \/ \E i \in DOMAIN s : \E b \in s[i].bits : b + Digit * (i - 1) >= Width
=============================================================================
