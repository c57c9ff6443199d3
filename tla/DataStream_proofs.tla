------------------------- MODULE DataStream_proofs --------------------------
(***************************************************************************)
(* Proofs about DataStream: the header codec, the bitmap, the scan for the *)
(* missing chunks and the frames of a chunk, for every base, file size,    *)
(* chunk size and frame size, and from them the invariants of the stream,  *)
(* whatever frames another build writes and wherever it is cut.            *)
(***************************************************************************)
EXTENDS DataStream, ChunkLayout_proofs, SequenceTheorems, TLAPS

-----------------------------------------------------------------------------
(* The header codec. *)

\* A number of two digits, and the digits of a number.
LEMMA Pair ==
    ASSUME NEW B \in Nat \ {0}, NEW N \in Nat \ {0}, NEW a \in 0..B - 1, NEW b \in 0..N - 1
    PROVE  /\ a + b * B \in 0..N * B - 1
           /\ (a + b * B) \div B = b
           /\ (a + b * B) % B = a
<1>1. (a + b * B) \div B = b /\ (a + b * B) % B = a
  OBVIOUS
<1>2. b * B \in Nat /\ N * B \in Nat
  OBVIOUS
<1>3. b * B + B <= N * B
  BY MultiplesApart
<1> QED
  BY <1>1, <1>2, <1>3

LEMMA Unpair ==
    ASSUME NEW B \in Nat \ {0}, NEW N \in Nat \ {0}, NEW n \in 0..N * B - 1
    PROVE  /\ n % B \in 0..B - 1
           /\ n \div B \in 0..N - 1
           /\ n = (n % B) + (n \div B) * B
<1>1. n \in Nat /\ N * B \in Nat
  OBVIOUS
<1>2. n % B \in 0..B - 1 /\ n \div B \in Nat /\ n = (n % B) + (n \div B) * B
  BY <1>1
<1>3. ASSUME N <= n \div B PROVE FALSE
  <2>1. N * B <= (n \div B) * B
    BY <1>2, <1>3, Multiples
  <2>2. (n \div B) * B \in Nat
    BY <1>2
  <2> QED
    BY <1>1, <1>2, <2>1, <2>2
<1> QED
  BY <1>2, <1>3

Base2 == Base * Base
Base4 == Base2 * Base2

LEMMA Widths ==
    /\ Base \in Nat \ {0} /\ Base2 \in Nat \ {0} /\ Base4 \in Nat \ {0}
    /\ U8 = 0..Base - 1
    /\ U16 = 0..Base * Base - 1
    /\ U32 = 0..Base2 * Base2 - 1
    /\ U64 = 0..Base4 * Base4 - 1
<1>1. Base \in Nat \ {0}
  BY HeaderAssumption
<1>2. Base2 \in Nat \ {0}
  BY <1>1 DEF Base2
<1>3. Base4 \in Nat \ {0}
  BY <1>2 DEF Base4
<1> QED
  BY <1>1, <1>2, <1>3 DEF U8, U16, U32, U64, Base2, Base4

\* The two lemmas with the sum as an operator, for the steps that only need
\* what it is.
Joined(a, b, B) == a + b * B

LEMMA Join ==
    ASSUME NEW B \in Nat \ {0}, NEW a \in 0..B - 1, NEW b \in 0..B - 1
    PROVE  /\ Joined(a, b, B) \in 0..B * B - 1
           /\ Joined(a, b, B) \div B = b
           /\ Joined(a, b, B) % B = a
  BY Pair DEF Joined

LEMMA Split ==
    ASSUME NEW B \in Nat \ {0}, NEW n \in 0..B * B - 1
    PROVE  /\ n % B \in 0..B - 1
           /\ n \div B \in 0..B - 1
           /\ n = Joined(n % B, n \div B, B)
  BY Unpair DEF Joined

\* to_le_bytes after from_le_bytes.
LEMMA Bytes2 ==
    ASSUME NEW b, NEW at \in Nat, \A k \in 1..2 : b[at + k] \in U8
    PROVE  /\ Le2(b, at) \in U16
           /\ \A k \in 1..2 : ToLe2(Le2(b, at))[k] = b[at + k]
<1> DEFINE lo == b[at + 1]  hi == b[at + 2]  n == Le2(b, at)
<1>1. lo \in U8 /\ hi \in U8
  OBVIOUS
<1>2. n = Joined(lo, hi, Base)
  BY DEF Le2, Joined
<1>3. \A k \in 1..2 : b[at + k] = <<lo, hi>>[k]
  OBVIOUS
<1> HIDE DEF n, lo, hi
<1>4. n \in U16 /\ n \div Base = hi /\ n % Base = lo
  BY <1>1, <1>2, Widths, Join
<1>5. ToLe2(n) = <<lo, hi>>
  BY <1>4 DEF ToLe2
<1> QED
  BY <1>3, <1>4, <1>5 DEF n

LEMMA Bytes4 ==
    ASSUME NEW b, NEW at \in Nat, \A k \in 1..4 : b[at + k] \in U8
    PROVE  /\ Le4(b, at) \in U32
           /\ \A k \in 1..4 : ToLe4(Le4(b, at))[k] = b[at + k]
<1> DEFINE lo == Le2(b, at)  hi == Le2(b, at + 2)  n == Le4(b, at)
<1>1. lo \in U16 /\ \A k \in 1..2 : ToLe2(lo)[k] = b[at + k]
  BY Bytes2
<1>2. hi \in U16 /\ \A k \in 1..2 : ToLe2(hi)[k] = b[(at + 2) + k]
  <2>1. at + 2 \in Nat /\ \A k \in 1..2 : b[(at + 2) + k] \in U8
    BY \A k \in 1..2 : (at + 2) + k = at + (k + 2) /\ k + 2 \in 1..4
  <2> QED
    BY <2>1, Bytes2
<1>3. n = Joined(lo, hi, Base2)
  BY DEF Le4, Base2, Joined
<1> HIDE DEF n, lo, hi
<1>4. n \in U32 /\ n \div Base2 = hi /\ n % Base2 = lo
  BY <1>1, <1>2, <1>3, Widths, Join DEF Base2
<1>5. ToLe4(n) = [k \in 1..4 |-> IF k < 3 THEN ToLe2(lo)[k] ELSE ToLe2(hi)[k - 2]]
  BY <1>4 DEF ToLe4, Base2
<1>6. ASSUME NEW k \in 1..4 PROVE ToLe4(n)[k] = b[at + k]
  <2>1. CASE k < 3
    BY <1>1, <1>5, <2>1
  <2>2. CASE ~(k < 3)
    <3>1. k - 2 \in 1..2 /\ (at + 2) + (k - 2) = at + k
      BY <2>2
    <3> QED
      BY <1>2, <1>5, <2>2, <3>1
  <2> QED
    BY <2>1, <2>2
<1> QED
  BY <1>4, <1>6 DEF n

LEMMA Bytes8 ==
    ASSUME NEW b, NEW at \in Nat, \A k \in 1..8 : b[at + k] \in U8
    PROVE  /\ Le8(b, at) \in U64
           /\ \A k \in 1..8 : ToLe8(Le8(b, at))[k] = b[at + k]
<1> DEFINE lo == Le4(b, at)  hi == Le4(b, at + 4)  n == Le8(b, at)
<1>1. lo \in U32 /\ \A k \in 1..4 : ToLe4(lo)[k] = b[at + k]
  BY Bytes4
<1>2. hi \in U32 /\ \A k \in 1..4 : ToLe4(hi)[k] = b[(at + 4) + k]
  <2>1. at + 4 \in Nat /\ \A k \in 1..4 : b[(at + 4) + k] \in U8
    BY \A k \in 1..4 : (at + 4) + k = at + (k + 4) /\ k + 4 \in 1..8
  <2> QED
    BY <2>1, Bytes4
<1>3. n = Joined(lo, hi, Base4)
  BY DEF Le8, Base2, Base4, Joined
<1> HIDE DEF n, lo, hi
<1>4. n \in U64 /\ n \div Base4 = hi /\ n % Base4 = lo
  BY <1>1, <1>2, <1>3, Widths, Join DEF Base4
<1>5. ToLe8(n) = [k \in 1..8 |-> IF k < 5 THEN ToLe4(lo)[k] ELSE ToLe4(hi)[k - 4]]
  BY <1>4 DEF ToLe8, Base2, Base4
<1>6. ASSUME NEW k \in 1..8 PROVE ToLe8(n)[k] = b[at + k]
  <2>1. CASE k < 5
    BY <1>1, <1>5, <2>1
  <2>2. CASE ~(k < 5)
    <3>1. k - 4 \in 1..4 /\ (at + 4) + (k - 4) = at + k
      BY <2>2
    <3> QED
      BY <1>2, <1>5, <2>2, <3>1
  <2> QED
    BY <2>1, <2>2
<1> QED
  BY <1>4, <1>6 DEF n

\* to_le_bytes makes bytes.
LEMMA Digits2 ==
    ASSUME NEW n \in U16
    PROVE  \A k \in 1..2 : ToLe2(n)[k] \in U8
<1>1. n % Base \in U8 /\ n \div Base \in U8
  BY Widths, Split
<1> QED
  BY <1>1 DEF ToLe2

LEMMA Digits4 ==
    ASSUME NEW n \in U32
    PROVE  \A k \in 1..4 : ToLe4(n)[k] \in U8
<1> DEFINE lo == n % Base2  hi == n \div Base2
<1>1. lo \in U16 /\ hi \in U16
  BY Widths, Split DEF Base2
<1>2. ToLe4(n) = [k \in 1..4 |-> IF k < 3 THEN ToLe2(lo)[k] ELSE ToLe2(hi)[k - 2]]
  BY DEF ToLe4, Base2
<1> HIDE DEF lo, hi
<1>3. \A k \in 1..2 : ToLe2(lo)[k] \in U8 /\ ToLe2(hi)[k] \in U8
  BY <1>1, Digits2
<1>4. \A k \in 1..4 : (k < 3 => k \in 1..2) /\ (~(k < 3) => k - 2 \in 1..2)
  OBVIOUS
<1> QED
  BY <1>2, <1>3, <1>4

LEMMA Digits8 ==
    ASSUME NEW n \in U64
    PROVE  \A k \in 1..8 : ToLe8(n)[k] \in U8
<1> DEFINE lo == n % Base4  hi == n \div Base4
<1>1. lo \in U32 /\ hi \in U32
  BY Widths, Split DEF Base4
<1>2. ToLe8(n) = [k \in 1..8 |-> IF k < 5 THEN ToLe4(lo)[k] ELSE ToLe4(hi)[k - 4]]
  BY DEF ToLe8, Base2, Base4
<1> HIDE DEF lo, hi
<1>3. \A k \in 1..4 : ToLe4(lo)[k] \in U8 /\ ToLe4(hi)[k] \in U8
  BY <1>1, Digits4
<1>4. \A k \in 1..8 : (k < 5 => k \in 1..4) /\ (~(k < 5) => k - 4 \in 1..4)
  OBVIOUS
<1> QED
  BY <1>2, <1>3, <1>4

\* from_le_bytes after to_le_bytes.
LEMMA Number2 ==
    ASSUME NEW n \in U16, NEW b, NEW at \in Nat, \A k \in 1..2 : b[at + k] = ToLe2(n)[k]
    PROVE  Le2(b, at) = n
<1>1. n % Base \in U8 /\ n \div Base \in U8 /\ n = Joined(n % Base, n \div Base, Base)
  BY Widths, Split
<1>2. b[at + 1] = n % Base /\ b[at + 2] = n \div Base
  BY DEF ToLe2
<1> QED
  BY <1>1, <1>2 DEF Le2, Joined

LEMMA Number4 ==
    ASSUME NEW n \in U32, NEW b, NEW at \in Nat, \A k \in 1..4 : b[at + k] = ToLe4(n)[k]
    PROVE  Le4(b, at) = n
<1> DEFINE lo == n % Base2  hi == n \div Base2
<1>1. lo \in U16 /\ hi \in U16 /\ n = Joined(lo, hi, Base2)
  BY Widths, Split DEF Base2
<1>2. ToLe4(n) = [k \in 1..4 |-> IF k < 3 THEN ToLe2(lo)[k] ELSE ToLe2(hi)[k - 2]]
  BY DEF ToLe4, Base2
<1> HIDE DEF lo, hi
<1>3. Le2(b, at) = lo
  <2>1. \A k \in 1..2 : b[at + k] = ToLe2(lo)[k]
    BY <1>2
  <2> QED
    BY <1>1, <2>1, Number2
<1>4. Le2(b, at + 2) = hi
  <2>1. ASSUME NEW k \in 1..2 PROVE b[(at + 2) + k] = ToLe2(hi)[k]
    <3>1. b[at + (k + 2)] = ToLe4(n)[k + 2] /\ at + (k + 2) = (at + 2) + k
      OBVIOUS
    <3> QED
      BY <1>2, <3>1
  <2> QED
    BY <1>1, <2>1, Number2
<1> QED
  BY <1>1, <1>3, <1>4 DEF Le4, Base2, Joined

LEMMA Number8 ==
    ASSUME NEW n \in U64, NEW b, NEW at \in Nat, \A k \in 1..8 : b[at + k] = ToLe8(n)[k]
    PROVE  Le8(b, at) = n
<1> DEFINE lo == n % Base4  hi == n \div Base4
<1>1. lo \in U32 /\ hi \in U32 /\ n = Joined(lo, hi, Base4)
  BY Widths, Split DEF Base4
<1>2. ToLe8(n) = [k \in 1..8 |-> IF k < 5 THEN ToLe4(lo)[k] ELSE ToLe4(hi)[k - 4]]
  BY DEF ToLe8, Base2, Base4
<1> HIDE DEF lo, hi
<1>3. Le4(b, at) = lo
  <2>1. \A k \in 1..4 : b[at + k] = ToLe4(lo)[k]
    BY <1>2
  <2> QED
    BY <1>1, <2>1, Number4
<1>4. Le4(b, at + 4) = hi
  <2>1. ASSUME NEW k \in 1..4 PROVE b[(at + 4) + k] = ToLe4(hi)[k]
    <3>1. b[at + (k + 4)] = ToLe8(n)[k + 4] /\ at + (k + 4) = (at + 4) + k
      OBVIOUS
    <3> QED
      BY <1>2, <3>1
  <2> QED
    BY <1>1, <2>1, Number4
<1> QED
  BY <1>1, <1>3, <1>4 DEF Le8, Base2, Base4, Joined
-----------------------------------------------------------------------------
\* Where FrameHeader::encode puts what.
LEMMA EncodedAt ==
    ASSUME NEW h
    PROVE  /\ \A k \in 1..2 : Encode(h)[0 + k] = ToLe2(MAGIC)[k]
           /\ Encode(h)[3] = PROTOCOL_VERSION
           /\ Encode(h)[4] = Code(h.type)
           /\ \A k \in 1..2 : Encode(h)[4 + k] = ToLe2(h.flags)[k]
           /\ \A k \in 1..2 : Encode(h)[6 + k] = ToLe2(0)[k]
           /\ \A k \in 1..8 : Encode(h)[8 + k] = ToLe8(h.file_id)[k]
           /\ \A k \in 1..8 : Encode(h)[16 + k] = ToLe8(h.offset)[k]
           /\ \A k \in 1..4 : Encode(h)[24 + k] = ToLe4(h.length)[k]
           /\ \A k \in 1..4 : Encode(h)[28 + k] = ToLe4(0)[k]
<1>1. /\ \A p \in 1..2 : Encode(h)[p] = ToLe2(MAGIC)[p]
      /\ Encode(h)[3] = PROTOCOL_VERSION
      /\ Encode(h)[4] = Code(h.type)
      /\ \A p \in 5..6 : Encode(h)[p] = ToLe2(h.flags)[p - 4]
      /\ \A p \in 7..8 : Encode(h)[p] = ToLe2(0)[p - 6]
  BY DEF Encode
<1>2. /\ \A p \in 9..16 : Encode(h)[p] = ToLe8(h.file_id)[p - 8]
      /\ \A p \in 17..24 : Encode(h)[p] = ToLe8(h.offset)[p - 16]
      /\ \A p \in 25..28 : Encode(h)[p] = ToLe4(h.length)[p - 24]
      /\ \A p \in 29..32 : Encode(h)[p] = ToLe4(0)[p - 28]
  BY DEF Encode
<1> QED
  BY <1>1, <1>2

\* The positions of a header, field by field.
LEMMA Positions ==
    ASSUME NEW p \in 1..32
    PROVE  \/ p = 3 \/ p = 4
           \/ \E k \in 1..2 : p = 0 + k \/ p = 4 + k \/ p = 6 + k
           \/ \E k \in 1..8 : p = 8 + k \/ p = 16 + k
           \/ \E k \in 1..4 : p = 24 + k \/ p = 28 + k
<1>1. p \in 1..2 \/ p = 3 \/ p = 4 \/ p \in 5..6 \/ p \in 7..8
      \/ p \in 9..16 \/ p \in 17..24 \/ p \in 25..28 \/ p \in 29..32
  OBVIOUS
<1>2. p \in 1..2 => p \in 1..2 /\ p = 0 + p
  OBVIOUS
<1>3. p \in 5..6 => p - 4 \in 1..2 /\ p = 4 + (p - 4)
  OBVIOUS
<1>4. p \in 7..8 => p - 6 \in 1..2 /\ p = 6 + (p - 6)
  OBVIOUS
<1>5. p \in 9..16 => p - 8 \in 1..8 /\ p = 8 + (p - 8)
  OBVIOUS
<1>6. p \in 17..24 => p - 16 \in 1..8 /\ p = 16 + (p - 16)
  OBVIOUS
<1>7. p \in 25..28 => p - 24 \in 1..4 /\ p = 24 + (p - 24)
  OBVIOUS
<1>8. p \in 29..32 => p - 28 \in 1..4 /\ p = 28 + (p - 28)
  OBVIOUS
<1> QED
  BY <1>1, <1>2, <1>3, <1>4, <1>5, <1>6, <1>7, <1>8, Zenon

LEMMA InHeader ==
    /\ \A k \in 1..2 : 0 + k \in 1..32 /\ 4 + k \in 1..32 /\ 6 + k \in 1..32
    /\ \A k \in 1..8 : 8 + k \in 1..32 /\ 16 + k \in 1..32
    /\ \A k \in 1..4 : 24 + k \in 1..32 /\ 28 + k \in 1..32
    /\ {0, 4, 6, 8, 16, 24, 28} \subseteq Nat
  OBVIOUS

\* The message type of a code and the code of a message type.
LEMMA Codes ==
    /\ \A k \in 0..3 : MsgTypes[k + 1] \in {MsgTypes[j] : j \in 1..4} /\ Code(MsgTypes[k + 1]) = k
    /\ \A t \in {MsgTypes[j] : j \in 1..4} : Code(t) \in 0..3 /\ MsgTypes[Code(t) + 1] = t
<1>1. /\ MsgTypes[1] = "Control" /\ MsgTypes[2] = "FileData"
      /\ MsgTypes[3] = "FileEnd" /\ MsgTypes[4] = "Keepalive"
  BY DEF MsgTypes
<1>2. \A k, j \in 0..3 : MsgTypes[k + 1] = MsgTypes[j + 1] => k = j
  BY <1>1
<1>3. ASSUME NEW k \in 0..3 PROVE Code(MsgTypes[k + 1]) = k
  <2>1. \E c \in 0..3 : MsgTypes[c + 1] = MsgTypes[k + 1]
    OBVIOUS
  <2>2. Code(MsgTypes[k + 1]) \in 0..3 /\ MsgTypes[Code(MsgTypes[k + 1]) + 1] = MsgTypes[k + 1]
    BY <2>1, Zenon DEF Code
  <2> QED
    BY <1>2, <2>2
<1>4. ASSUME NEW k \in 0..3 PROVE k + 1 \in 1..4
  OBVIOUS
<1>5. ASSUME NEW t \in {MsgTypes[j] : j \in 1..4}
      PROVE  Code(t) \in 0..3 /\ MsgTypes[Code(t) + 1] = t
  <2>1. PICK j \in 1..4 : t = MsgTypes[j]
    OBVIOUS
  <2>2. j - 1 \in 0..3 /\ (j - 1) + 1 = j
    OBVIOUS
  <2>3. \E c \in 0..3 : MsgTypes[c + 1] = t
    BY <2>1, <2>2, Zenon
  <2> QED
    BY <2>3, Zenon DEF Code
<1> QED
  BY <1>3, <1>4, <1>5

\* encode writes 32 bytes.
LEMMA EncodedType ==
    ASSUME NEW h \in FrameHeader
    PROVE  Encode(h) \in Seq(U8) /\ Len(Encode(h)) = 32
<1>1. h.type \in {MsgTypes[k] : k \in 1..4} /\ h.flags \in U16 /\ h.file_id \in U64
      /\ h.offset \in U64 /\ h.length \in U32
  BY DEF FrameHeader
<1>2. 0 \in U16 /\ 0 \in U32 /\ MAGIC \in U16 /\ PROTOCOL_VERSION \in U8
  BY HeaderAssumption, Widths DEF U16, U32, Base2
<1>3. 0..3 \subseteq U8
  BY HeaderAssumption DEF U8
<1>4. /\ \A k \in 1..2 : ToLe2(MAGIC)[k] \in U8 /\ ToLe2(h.flags)[k] \in U8 /\ ToLe2(0)[k] \in U8
      /\ \A k \in 1..8 : ToLe8(h.file_id)[k] \in U8 /\ ToLe8(h.offset)[k] \in U8
      /\ \A k \in 1..4 : ToLe4(h.length)[k] \in U8 /\ ToLe4(0)[k] \in U8
  BY <1>1, <1>2, Digits2, Digits4, Digits8
<1>5. Code(h.type) \in U8
  BY <1>1, <1>3, Codes
<1>6. ASSUME NEW p \in 1..32 PROVE Encode(h)[p] \in U8
  <2>1. /\ \A k \in 1..2 : Encode(h)[0 + k] \in U8 /\ Encode(h)[4 + k] \in U8
                          /\ Encode(h)[6 + k] \in U8
        /\ Encode(h)[3] \in U8 /\ Encode(h)[4] \in U8
    BY <1>2, <1>4, <1>5, EncodedAt
  <2>2. \A k \in 1..8 : Encode(h)[8 + k] \in U8 /\ Encode(h)[16 + k] \in U8
    BY <1>4, EncodedAt
  <2>3. \A k \in 1..4 : Encode(h)[24 + k] \in U8 /\ Encode(h)[28 + k] \in U8
    BY <1>4, EncodedAt
  <2> QED
    BY <2>1, <2>2, <2>3, Positions, Zenon
<1>7. Encode(h) \in [1..32 -> U8] /\ DOMAIN Encode(h) = 1..32
  <2>1. Encode(h) = [p \in 1..32 |-> Encode(h)[p]]
    BY DEF Encode
  <2> QED
    BY <1>6, <2>1, Zenon
<1>8. Encode(h) \in Seq(U8)
  BY <1>7, SeqDef, 32 \in Nat
<1> QED
  BY <1>7, <1>8, LenProperties

LEMMA EncodedOffset ==
    ASSUME NEW h \in FrameHeader
    PROVE  Le8(Encode(h), 16) = h.offset
<1>1. h.offset \in U64
  BY DEF FrameHeader
<1>2. \A k \in 1..8 : Encode(h)[16 + k] = ToLe8(h.offset)[k]
  BY EncodedAt, Zenon
<1> QED
  BY <1>1, <1>2, InHeader, Number8, Zenon

\* decode reads what encode wrote, or refuses it.
LEMMA DecodeEncode ==
    ASSUME NEW h \in FrameHeader
    PROVE  /\ Decode(Encode(h)) \in {h, BadHeader}
           /\ /\ h.flags = 0
              /\ h.length <= MAX_FRAME_PAYLOAD
              /\ h.type = "Keepalive" => h.length = 0
              => Decode(Encode(h)) = h
<1> DEFINE b == Encode(h)
<1>1. h.type \in {MsgTypes[k] : k \in 1..4} /\ h.flags \in U16 /\ h.file_id \in U64
      /\ h.offset \in U64 /\ h.length \in U32
  BY DEF FrameHeader
<1>2. 0 \in U16 /\ 0 \in U32 /\ MAGIC \in U16 /\ 0 \in Nat
  BY HeaderAssumption, Widths DEF U16, U32, Base2
<1>3. Len(b) = 32 /\ b[3] = PROTOCOL_VERSION /\ b[4] = Code(h.type)
  BY EncodedType, EncodedAt
<1> HIDE DEF b
<1>4. Le2(b, 0) = MAGIC /\ Le2(b, 4) = h.flags /\ Le2(b, 6) = 0
  <2>1. \A k \in 1..2 : /\ b[0 + k] = ToLe2(MAGIC)[k]
                        /\ b[4 + k] = ToLe2(h.flags)[k]
                        /\ b[6 + k] = ToLe2(0)[k]
    BY EncodedAt, Zenon DEF b
  <2>2. Le2(b, 0) = MAGIC
    BY <1>2, <2>1, InHeader, Number2, Zenon
  <2>3. Le2(b, 4) = h.flags
    BY <1>1, <2>1, InHeader, Number2, Zenon
  <2>4. Le2(b, 6) = 0
    BY <1>2, <2>1, InHeader, Number2, Zenon
  <2> QED
    BY <2>2, <2>3, <2>4
<1>5. Le8(b, 8) = h.file_id /\ Le8(b, 16) = h.offset
  <2>1. \A k \in 1..8 : b[8 + k] = ToLe8(h.file_id)[k] /\ b[16 + k] = ToLe8(h.offset)[k]
    BY EncodedAt, Zenon DEF b
  <2> QED
    BY <1>1, <2>1, InHeader, Number8, Zenon
<1>6. Le4(b, 24) = h.length /\ Le4(b, 28) = 0
  <2>1. \A k \in 1..4 : b[24 + k] = ToLe4(h.length)[k] /\ b[28 + k] = ToLe4(0)[k]
    BY EncodedAt, Zenon DEF b
  <2> QED
    <3>1. Le4(b, 24) = h.length
      BY <1>1, <2>1, InHeader, Number4, Zenon
    <3>2. Le4(b, 28) = 0
      BY <1>2, <2>1, InHeader, Number4, Zenon
    <3> QED
      BY <3>1, <3>2
<1>7. b[4] \in 0..3 /\ MsgTypes[b[4] + 1] = h.type
  BY <1>1, <1>3, Codes
<1>8. h = [type |-> h.type, flags |-> h.flags, file_id |-> h.file_id,
           offset |-> h.offset, length |-> h.length]
  BY DEF FrameHeader
<1>9. Decode(b) =
        IF \/ h.flags > 1
           \/ h.length > MAX_FRAME_PAYLOAD
           \/ h.type = "Keepalive" /\ h.length # 0
        THEN BadHeader ELSE h
  BY <1>3, <1>4, <1>5, <1>6, <1>7, <1>8 DEF Decode
<1>10. h.length \in Nat /\ MAX_FRAME_PAYLOAD \in Nat
  BY <1>1, HeaderAssumption DEF U32
<1> QED
  BY <1>9, <1>10 DEF b

\* What decode returns for 32 bytes, and that they are its only encoding.
LEMMA Decoded ==
    ASSUME NEW b \in Seq(U8), Len(b) = 32
    PROVE  /\ Decode(b) = BadHeader \/ Decode(b) \in FrameHeader
           /\ Canonical(b)
<1> SUFFICES ASSUME Decode(b) # BadHeader
             PROVE  Decode(b) \in FrameHeader /\ Encode(Decode(b)) = b
  BY DEF Canonical
<1> DEFINE h == Decode(b)
<1>1. \A p \in 1..32 : b[p] \in U8
  BY ElementOfSeq
<1>2. /\ Le2(b, 0) = MAGIC /\ b[3] = PROTOCOL_VERSION /\ ~(b[4] > 3)
      /\ Le2(b, 6) = 0 /\ Le4(b, 28) = 0
      /\ h = [type |-> MsgTypes[b[4] + 1], flags |-> Le2(b, 4), file_id |-> Le8(b, 8),
              offset |-> Le8(b, 16), length |-> Le4(b, 24)]
  BY DEF Decode
<1>3. /\ \A k \in 1..2 : ToLe2(MAGIC)[k] = b[0 + k]
      /\ \A k \in 1..2 : ToLe2(Le2(b, 4))[k] = b[4 + k]
      /\ \A k \in 1..2 : ToLe2(0)[k] = b[6 + k]
      /\ Le2(b, 4) \in U16
  <2>1. \A k \in 1..2 : b[0 + k] \in U8 /\ b[4 + k] \in U8 /\ b[6 + k] \in U8
    BY <1>1, InHeader, Zenon
  <2>2. \A k \in 1..2 : ToLe2(Le2(b, 0))[k] = b[0 + k]
    BY <2>1, InHeader, Bytes2, Zenon
  <2>3. Le2(b, 4) \in U16 /\ \A k \in 1..2 : ToLe2(Le2(b, 4))[k] = b[4 + k]
    BY <2>1, InHeader, Bytes2, Zenon
  <2>4. \A k \in 1..2 : ToLe2(Le2(b, 6))[k] = b[6 + k]
    BY <2>1, InHeader, Bytes2, Zenon
  <2> QED
    BY <1>2, <2>2, <2>3, <2>4, Zenon
<1>4. /\ \A k \in 1..8 : ToLe8(Le8(b, 8))[k] = b[8 + k]
      /\ \A k \in 1..8 : ToLe8(Le8(b, 16))[k] = b[16 + k]
      /\ Le8(b, 8) \in U64 /\ Le8(b, 16) \in U64
  <2>1. (\A k \in 1..8 : b[8 + k] \in U8) /\ (\A k \in 1..8 : b[16 + k] \in U8)
    BY <1>1
  <2>2. Le8(b, 8) \in U64 /\ \A k \in 1..8 : ToLe8(Le8(b, 8))[k] = b[8 + k]
    BY <2>1, Bytes8, 8 \in Nat
  <2>3. Le8(b, 16) \in U64 /\ \A k \in 1..8 : ToLe8(Le8(b, 16))[k] = b[16 + k]
    BY <2>1, Bytes8, 16 \in Nat
  <2> QED
    BY <2>2, <2>3
<1>5. /\ \A k \in 1..4 : ToLe4(Le4(b, 24))[k] = b[24 + k]
      /\ \A k \in 1..4 : ToLe4(0)[k] = b[28 + k]
      /\ Le4(b, 24) \in U32
  <2>1. (\A k \in 1..4 : b[24 + k] \in U8) /\ (\A k \in 1..4 : b[28 + k] \in U8)
    BY <1>1
  <2>2. Le4(b, 24) \in U32 /\ \A k \in 1..4 : ToLe4(Le4(b, 24))[k] = b[24 + k]
    BY <2>1, Bytes4, 24 \in Nat
  <2>3. \A k \in 1..4 : ToLe4(Le4(b, 28))[k] = b[28 + k]
    BY <2>1, Bytes4, 28 \in Nat
  <2> QED
    BY <1>2, <2>2, <2>3, Zenon
<1>6. b[4] \in 0..3
  <2>1. b[4] \in Nat /\ ~(b[4] > 3)
    BY <1>1, <1>2, Widths
  <2> QED
    BY <2>1
<1>7. Code(MsgTypes[b[4] + 1]) = b[4] /\ MsgTypes[b[4] + 1] \in {MsgTypes[k] : k \in 1..4}
  BY <1>6, Codes
<1> HIDE DEF h
<1>8. h \in FrameHeader
  BY <1>2, <1>3, <1>4, <1>5, <1>7 DEF FrameHeader
<1>9. /\ h.type = MsgTypes[b[4] + 1] /\ h.flags = Le2(b, 4) /\ h.file_id = Le8(b, 8)
      /\ h.offset = Le8(b, 16) /\ h.length = Le4(b, 24)
  BY <1>2
<1>10. ASSUME NEW p \in 1..32 PROVE Encode(h)[p] = b[p]
  <2>1. /\ \A k \in 1..2 : ToLe2(h.flags)[k] = b[4 + k]
        /\ \A k \in 1..8 : ToLe8(h.file_id)[k] = b[8 + k]
        /\ \A k \in 1..8 : ToLe8(h.offset)[k] = b[16 + k]
        /\ \A k \in 1..4 : ToLe4(h.length)[k] = b[24 + k]
        /\ Code(h.type) = b[4]
    BY <1>3, <1>4, <1>5, <1>7, <1>9, Zenon
  <2>2. /\ \A k \in 1..2 : Encode(h)[0 + k] = b[0 + k] /\ Encode(h)[4 + k] = b[4 + k]
                          /\ Encode(h)[6 + k] = b[6 + k]
        /\ Encode(h)[3] = b[3] /\ Encode(h)[4] = b[4]
    <3>1. /\ \A k \in 1..2 : Encode(h)[0 + k] = ToLe2(MAGIC)[k]
          /\ \A k \in 1..2 : Encode(h)[4 + k] = ToLe2(h.flags)[k]
          /\ \A k \in 1..2 : Encode(h)[6 + k] = ToLe2(0)[k]
      BY EncodedAt, Zenon
    <3>2. Encode(h)[3] = PROTOCOL_VERSION /\ Encode(h)[4] = Code(h.type)
      BY EncodedAt, Zenon
    <3>3. \A k \in 1..2 : ToLe2(MAGIC)[k] = b[0 + k] /\ ToLe2(h.flags)[k] = b[4 + k]
                          /\ ToLe2(0)[k] = b[6 + k]
      BY <1>3, <2>1
    <3> QED
      BY <1>2, <2>1, <3>1, <3>2, <3>3
  <2>3. \A k \in 1..8 : Encode(h)[8 + k] = b[8 + k] /\ Encode(h)[16 + k] = b[16 + k]
    <3>1. \A k \in 1..8 : Encode(h)[8 + k] = ToLe8(h.file_id)[k]
                          /\ Encode(h)[16 + k] = ToLe8(h.offset)[k]
      BY EncodedAt, Zenon
    <3> QED
      BY <2>1, <3>1
  <2>4. \A k \in 1..4 : Encode(h)[24 + k] = b[24 + k] /\ Encode(h)[28 + k] = b[28 + k]
    <3>1. \A k \in 1..4 : Encode(h)[24 + k] = ToLe4(h.length)[k]
                          /\ Encode(h)[28 + k] = ToLe4(0)[k]
      BY EncodedAt, Zenon
    <3> QED
      BY <1>5, <2>1, <3>1
  <2> QED
    BY <2>2, <2>3, <2>4, Positions, Zenon
<1>11. Encode(h) = b
  BY <1>8, <1>10, EncodedType, SeqEqual
<1> QED
  BY <1>8, <1>11 DEF h

-----------------------------------------------------------------------------
(* The bitmap. *)

LEMMA Powers ==
    /\ 2^0 = 1 /\ 2^1 = 2 /\ 2^2 = 4 /\ 2^3 = 8
    /\ 2^4 = 16 /\ 2^5 = 32 /\ 2^6 = 64 /\ 2^7 = 128
    /\ Bits = 8 /\ 0..2^Bits - 1 = 0..255
  BY DEF Bits

\* Setting a clear bit of a byte sets that bit and no other.
LEMMA BitAdded ==
    ASSUME NEW b \in 0..255, NEW k \in 0..7, ~BitSet(b, k)
    PROVE  /\ b + 2^k \in 0..255
           /\ \A j \in 0..7 : BitSet(b + 2^k, j) <=> j = k \/ BitSet(b, j)
<1>1. k = 0 \/ k = 1 \/ k = 2 \/ k = 3 \/ k = 4 \/ k = 5 \/ k = 6 \/ k = 7
  OBVIOUS
<1>2. \A j \in 0..7 : j = 0 \/ j = 1 \/ j = 2 \/ j = 3 \/ j = 4 \/ j = 5 \/ j = 6 \/ j = 7
  OBVIOUS
<1>3. CASE k = 0
  BY <1>2, <1>3, Powers DEF BitSet
<1>4. CASE k = 1
  BY <1>2, <1>4, Powers DEF BitSet
<1>5. CASE k = 2
  BY <1>2, <1>5, Powers DEF BitSet
<1>6. CASE k = 3
  BY <1>2, <1>6, Powers DEF BitSet
<1>7. CASE k = 4
  BY <1>2, <1>7, Powers DEF BitSet
<1>8. CASE k = 5
  BY <1>2, <1>8, Powers DEF BitSet
<1>9. CASE k = 6
  BY <1>2, <1>9, Powers DEF BitSet
<1>10. CASE k = 7
  BY <1>2, <1>10, Powers DEF BitSet
<1> QED
  BY <1>1, <1>3, <1>4, <1>5, <1>6, <1>7, <1>8, <1>9, <1>10

\* The bytes of a bitmap are as many as its chunks need.
BitmapOf(n) ==
    {m \in [bits : Bitstring, count : Nat, set_count : Nat] :
        m.count = n /\ Len(m.bits) = DivCeil(n, Bits)}

\* No bit stands for no chunk.
Unpadded(m) ==
    \A p \in 1..Len(m.bits), k \in 0..7 : BitSet(m.bits[p], k) => (p - 1) * 8 + k < m.count

LEMMA ByteCount ==
    ASSUME NEW n \in Nat
    PROVE  /\ DivCeil(n, Bits) \in Nat
           /\ n <= DivCeil(n, Bits) * 8
           /\ DivCeil(n, Bits) * 8 < n + 8
           /\ \A i \in 0..n - 1 : i \div Bits + 1 \in 1..DivCeil(n, Bits) /\ i % Bits \in 0..7
  BY DEF DivCeil, Bits

\* A byte and a bit of it name one chunk.
LEMMA ByteAndBit ==
    /\ \A i, j \in Nat : i \div 8 = j \div 8 /\ i % 8 = j % 8 => i = j
    /\ \A p \in Nat, k \in 0..7 : (p * 8 + k) \div 8 = p /\ (p * 8 + k) % 8 = k
    /\ \A i \in Nat : i \div 8 \in Nat /\ i % 8 \in 0..7 /\ i = (i \div 8) * 8 + (i % 8)
<1>1. ASSUME NEW i \in Nat
      PROVE  i \div 8 \in Nat /\ i % 8 \in 0..7 /\ i = (i \div 8) * 8 + (i % 8)
  OBVIOUS
<1>2. \A p \in Nat, k \in 0..7 : (p * 8 + k) \div 8 = p /\ (p * 8 + k) % 8 = k
  OBVIOUS
<1>3. \A i, j \in Nat : i \div 8 = j \div 8 /\ i % 8 = j % 8 => i = j
  OBVIOUS
<1> QED
  BY <1>1, <1>2, <1>3, Zenon

LEMMA BitmapBytes ==
    ASSUME NEW n \in Nat, NEW m \in BitmapOf(n)
    PROVE  /\ m.count = n /\ m.set_count \in Nat /\ m.bits \in Seq(0..255)
           /\ m.bits \in [1..Len(m.bits) -> 0..255]
           /\ Len(m.bits) \in Nat /\ Len(m.bits) = DivCeil(n, Bits)
           /\ \A i \in 0..n - 1 : m.bits[i \div 8 + 1] \in 0..255 /\ i \div 8 + 1 \in 1..Len(m.bits)
           /\ \A i \in 0..n - 1 : Get(m, i) <=> BitSet(m.bits[i \div 8 + 1], i % 8)
           /\ \A i \in 0..n - 1 : Get(m, i) \in BOOLEAN
<1>1. m.bits \in Seq(0..255) /\ m.count = n /\ m.set_count \in Nat
      /\ Len(m.bits) = DivCeil(n, Bits)
  BY Powers DEF BitmapOf, Bitstring
<1>2. m.bits \in [1..Len(m.bits) -> 0..255] /\ Len(m.bits) \in Nat
  BY <1>1, LenProperties
<1>3. ASSUME NEW i \in 0..n - 1
      PROVE  i \div 8 + 1 \in 1..Len(m.bits) /\ m.bits[i \div 8 + 1] \in 0..255
  <2>1. i \div 8 + 1 \in 1..Len(m.bits)
    BY <1>1, ByteCount DEF Bits
  <2> QED
    BY <1>2, <2>1
<1>4. ASSUME NEW i \in 0..n - 1
      PROVE  Get(m, i) = BitSet(m.bits[i \div 8 + 1], i % 8)
  BY <1>1 DEF Get, Bits
<1>5. ASSUME NEW i \in 0..n - 1 PROVE BitSet(m.bits[i \div 8 + 1], i % 8) \in BOOLEAN
  BY DEF BitSet
<1> QED
  BY <1>1, <1>2, <1>3, <1>4, <1>5

\* ChunkBitmap::set sets its bit and no other, and counts it once.
LEMMA BitmapSet ==
    ASSUME NEW n \in Nat, NEW m \in BitmapOf(n), NEW i \in 0..n - 1
    PROVE  /\ Set(m, i) \in BitmapOf(n)
           /\ \A j \in 0..n - 1 : Get(Set(m, i), j) <=> j = i \/ Get(m, j)
           /\ Get(m, i) => Set(m, i) = m
           /\ ~Get(m, i) =>
                /\ Set(m, i).set_count = m.set_count + 1
                /\ Len(Set(m, i).bits) = Len(m.bits)
                /\ \A p \in 1..Len(m.bits), k \in 0..7 :
                      BitSet(Set(m, i).bits[p], k) <=>
                          (p = i \div 8 + 1 /\ k = i % 8) \/ BitSet(m.bits[p], k)
<1>1. /\ m.count = n /\ m.set_count \in Nat /\ m.bits \in Seq(0..255)
      /\ m.bits \in [1..Len(m.bits) -> 0..255]
      /\ Len(m.bits) \in Nat /\ Len(m.bits) = DivCeil(n, Bits)
      /\ \A j \in 0..n - 1 : m.bits[j \div 8 + 1] \in 0..255 /\ j \div 8 + 1 \in 1..Len(m.bits)
      /\ \A j \in 0..n - 1 : Get(m, j) <=> BitSet(m.bits[j \div 8 + 1], j % 8)
  <2>1. /\ m.count = n /\ m.set_count \in Nat /\ m.bits \in Seq(0..255)
        /\ m.bits \in [1..Len(m.bits) -> 0..255]
        /\ Len(m.bits) \in Nat /\ Len(m.bits) = DivCeil(n, Bits)
    BY BitmapBytes
  <2>2. ASSUME NEW j \in 0..n - 1
        PROVE  /\ m.bits[j \div 8 + 1] \in 0..255 /\ j \div 8 + 1 \in 1..Len(m.bits)
               /\ Get(m, j) <=> BitSet(m.bits[j \div 8 + 1], j % 8)
    BY BitmapBytes
  <2> QED
    BY <2>1, <2>2
<1>2. ~(i >= m.count) /\ i % 8 \in 0..7 /\ i \in Nat
  <2>1. m.count = n
    BY <1>1
  <2> QED
    BY <2>1
<1>3. CASE Get(m, i)
  <2>1. Set(m, i) = m
    BY <1>2, <1>3 DEF Set
  <2> QED
    BY <1>3, <2>1
<1>4. CASE ~Get(m, i)
  <2> DEFINE q == i \div 8 + 1  k0 == i % 8  s == Set(m, i)  b == m.bits[q] + 2^k0
  <2>1. s = [m EXCEPT !.bits[q] = @ + 2^k0, !.set_count = @ + 1]
    BY <1>2, <1>4 DEF Set, Bits
  <2>2. m \in [bits : Bitstring, count : Nat, set_count : Nat]
    BY DEF BitmapOf
  <2>3. s.bits = [m.bits EXCEPT ![q] = b] /\ s.count = n /\ s.set_count = m.set_count + 1
        /\ s = [bits |-> s.bits, count |-> s.count, set_count |-> s.set_count]
    BY <1>1, <2>1, <2>2
  <2>4. q \in 1..Len(m.bits) /\ m.bits[q] \in 0..255 /\ ~BitSet(m.bits[q], k0) /\ k0 \in 0..7
    BY <1>1, <1>2, <1>4
  <2> HIDE DEF q, k0, s
  <2>5. b \in 0..255 /\ \A j \in 0..7 : BitSet(b, j) <=> j = k0 \/ BitSet(m.bits[q], j)
    BY <2>4, BitAdded
  <2> HIDE DEF b
  <2>6. s.bits \in Seq(0..255) /\ Len(s.bits) = Len(m.bits)
        /\ \A p \in 1..Len(m.bits) : s.bits[p] = IF p = q THEN b ELSE m.bits[p]
    <3> DEFINE e == [m.bits EXCEPT ![q] = b]
    <3>1. e \in Seq(0..255) /\ Len(e) = Len(m.bits)
          /\ \A p \in 1..Len(m.bits) : e[p] = IF p = q THEN b ELSE m.bits[p]
      BY <1>1, <2>4, <2>5, ExceptSeq
    <3> HIDE DEF e
    <3> QED
      BY <2>3, <3>1 DEF e
  <2>7. s \in BitmapOf(n)
    <3>1. s.bits \in Bitstring /\ s.count \in Nat /\ s.set_count \in Nat
      BY <1>1, <2>3, <2>6, Powers DEF Bitstring
    <3>2. s \in [bits : Bitstring, count : Nat, set_count : Nat]
      BY <2>3, <3>1
    <3> QED
      BY <1>1, <2>3, <2>6, <3>2 DEF BitmapOf
  <2>8. ASSUME NEW p \in 1..Len(m.bits), NEW k \in 0..7
        PROVE  BitSet(s.bits[p], k) <=> (p = q /\ k = k0) \/ BitSet(m.bits[p], k)
    BY <2>5, <2>6
  <2>9. ASSUME NEW j \in 0..n - 1 PROVE Get(s, j) <=> j = i \/ Get(m, j)
    <3> DEFINE r == j \div 8 + 1
    <3>1. Get(s, j) <=> BitSet(s.bits[r], j % 8)
      BY <2>7, BitmapBytes
    <3>2. r \in 1..Len(m.bits) /\ (Get(m, j) <=> BitSet(m.bits[r], j % 8)) /\ j % 8 \in 0..7
      <4>1. j % 8 \in 0..7
        OBVIOUS
      <4> QED
        BY <1>1, <4>1, Zenon
    <3>3. (r = q /\ j % 8 = k0) <=> j = i
      <4>1. j \in Nat /\ j \div 8 \in Nat /\ i \div 8 \in Nat
        BY <1>2
      <4>2. r = q <=> j \div 8 = i \div 8
        BY <4>1 DEF q
      <4> QED
        BY <1>2, <4>1, <4>2, ByteAndBit DEF k0
    <3> HIDE DEF r
    <3> QED
      BY <2>8, <3>1, <3>2, <3>3
  <2> QED
    BY <1>4, <2>3, <2>6, <2>7, <2>8, <2>9 DEF s, q, k0
<1> QED
  BY <1>3, <1>4

\* The positions of the set bits.
OneBits(bytes) == {p \in (1..Len(bytes)) \X (0..7) : BitSet(bytes[p[1]], p[2])}

LEMMA OnesFinite ==
    ASSUME NEW bytes \in Seq(0..255)
    PROVE  IsFiniteSet(OneBits(bytes)) /\ Ones(bytes) = Cardinality(OneBits(bytes))
           /\ Ones(bytes) \in Nat
<1>1. IsFiniteSet(1..Len(bytes)) /\ IsFiniteSet(0..7)
  <2>1. Len(bytes) \in Int /\ 1 \in Int /\ 0 \in Int /\ 7 \in Int
    BY LenProperties
  <2> QED
    BY <2>1, FS_Interval, Zenon
<1>2. IsFiniteSet((1..Len(bytes)) \X (0..7))
  BY <1>1, FS_Product
<1>3. IsFiniteSet(OneBits(bytes))
  BY <1>2, FS_Subset DEF OneBits
<1>4. Ones(bytes) = Cardinality(OneBits(bytes))
  BY DEF Ones, OneBits, Bits
<1> QED
  BY <1>3, <1>4, FS_CardinalityType

\* A bitmap as every session keeps it: its count is that of its bits.
Sound(m, n) == m \in BitmapOf(n) /\ Unpadded(m) /\ m.set_count = Ones(m.bits)

\* ChunkBitmap::from_bytes accepts sound bitmaps only.
LEMMA Parsed ==
    ASSUME NEW n \in Nat, NEW bytes \in Bitstring, NEW m, m = FromBytes(bytes, n), m # Err
    PROVE  Sound(m, n) /\ m.bits = bytes
<1> DEFINE e == DivCeil(n, Bits)
<1>1. bytes \in Seq(0..255)
  BY Powers DEF Bitstring
<1>2. Len(bytes) = e /\ m = [bits |-> bytes, count |-> n, set_count |-> Ones(bytes)]
      /\ (e * 8 - n > 0 /\ bytes # <<>> =>
            ~\E k \in 8 - (e * 8 - n)..7 : BitSet(bytes[e], k))
  BY Powers DEF FromBytes
<1>3. m \in BitmapOf(n)
  <2>1. m \in [bits : Bitstring, count : Nat, set_count : Nat]
    BY <1>1, <1>2, OnesFinite
  <2> QED
    BY <1>2, <2>1 DEF BitmapOf
<1>4. ASSUME NEW p \in 1..Len(m.bits), NEW k \in 0..7, BitSet(m.bits[p], k)
      PROVE  (p - 1) * 8 + k < m.count
  <2>1. e \in Nat /\ n <= e * 8 /\ e * 8 < n + 8
    BY ByteCount
  <2>2. m.bits = bytes /\ m.count = n /\ Len(bytes) = e
    BY <1>2
  <2>3. p \in 1..e
    BY <2>2
  <2>4. CASE p < e
    <3> HIDE DEF e
    <3> QED
      BY <2>1, <2>2, <2>3, <2>4
  <2>5. CASE p = e
    <3>1. bytes # <<>>
      BY <2>2, <2>3, <1>1, EmptySeq
    <3>2. SUFFICES ASSUME ~((p - 1) * 8 + k < n) PROVE FALSE
      BY <2>2
    <3>3. e * 8 - n > 0 /\ k \in 8 - (e * 8 - n)..7
      <4> HIDE DEF e
      <4> QED
        BY <2>1, <2>3, <2>5, <3>2
    <3> QED
      BY <1>2, <1>4, <2>2, <2>5, <3>1, <3>3
  <2> QED
    BY <2>1, <2>3, <2>4, <2>5
<1> QED
  BY <1>2, <1>3, <1>4 DEF Sound, Unpadded

\* ChunkBitmap::new has no chunk.
LEMMA Fresh ==
    ASSUME NEW n \in Nat
    PROVE  Sound(NewBitmap(n), n)
<1> DEFINE m == NewBitmap(n)  e == DivCeil(n, Bits)
<1>1. e \in Nat
  BY ByteCount
<1>2. m.bits = [b \in 1..e |-> 0] /\ m.count = n /\ m.set_count = 0
      /\ m = [bits |-> m.bits, count |-> n, set_count |-> 0]
  BY DEF NewBitmap
<1> HIDE DEF m, e
<1>3. m.bits \in [1..e -> 0..255]
  BY <1>2
<1>4. m.bits \in Seq(0..255)
  BY <1>1, <1>3, SeqDef
<1>5. Len(m.bits) = e
  BY <1>1, <1>2, <1>4, LenProperties
<1>6. m \in BitmapOf(n)
  <2>1. m \in [bits : Bitstring, count : Nat, set_count : Nat]
    <3>1. m.bits \in Bitstring /\ 0 \in Nat
      BY <1>4, Powers DEF Bitstring
    <3> QED
      BY <1>2, <3>1
  <2> QED
    BY <1>2, <1>5, <2>1 DEF BitmapOf, e
<1>7. \A p \in 1..Len(m.bits), k \in 0..7 : ~BitSet(m.bits[p], k)
  <2>1. \A k \in 0..7 : ~BitSet(0, k)
    <3>1. \A k \in 0..7 : k = 0 \/ k = 1 \/ k = 2 \/ k = 3 \/ k = 4 \/ k = 5 \/ k = 6 \/ k = 7
      OBVIOUS
    <3>2. ASSUME NEW b \in 0..255, b < 1, NEW k \in 0..7 PROVE ~BitSet(b, k)
      <4>1. CASE k = 0
        BY <3>2, <4>1, Powers DEF BitSet
      <4>2. CASE k = 1
        BY <3>2, <4>2, Powers DEF BitSet
      <4>3. CASE k = 2
        BY <3>2, <4>3, Powers DEF BitSet
      <4>4. CASE k = 3
        BY <3>2, <4>4, Powers DEF BitSet
      <4>5. CASE k = 4
        BY <3>2, <4>5, Powers DEF BitSet
      <4>6. CASE k = 5
        BY <3>2, <4>6, Powers DEF BitSet
      <4>7. CASE k = 6
        BY <3>2, <4>7, Powers DEF BitSet
      <4>8. CASE k = 7
        BY <3>2, <4>8, Powers DEF BitSet
      <4> QED
        BY <3>1, <4>1, <4>2, <4>3, <4>4, <4>5, <4>6, <4>7, <4>8
    <3> QED
      BY <3>2
  <2> QED
    BY <1>2, <1>5, <2>1
<1>8. Ones(m.bits) = 0
  <2>1. OneBits(m.bits) = {}
    BY <1>7 DEF OneBits
  <2> QED
    BY <1>4, <2>1, OnesFinite, FS_EmptySet
<1> QED
  BY <1>2, <1>6, <1>7, <1>8 DEF Sound, Unpadded, m

\* Setting a bit keeps the count that of the bits.
LEMMA SetSound ==
    ASSUME NEW n \in Nat, NEW m, Sound(m, n), NEW i \in 0..n - 1
    PROVE  Sound(Set(m, i), n)
<1>1. m \in BitmapOf(n) /\ Unpadded(m) /\ m.set_count = Ones(m.bits)
  BY DEF Sound
<1>2. CASE Get(m, i)
  <2>1. Set(m, i) = m
    BY <1>1, <1>2, BitmapSet
  <2> QED
    BY <2>1
<1>3. CASE ~Get(m, i)
  <2> DEFINE s == Set(m, i)  q == <<i \div 8 + 1, i % 8>>
  <2>1. /\ s \in BitmapOf(n) /\ s.set_count = m.set_count + 1 /\ Len(s.bits) = Len(m.bits)
        /\ \A p \in 1..Len(m.bits), k \in 0..7 :
              BitSet(s.bits[p], k) <=> (p = i \div 8 + 1 /\ k = i % 8) \/ BitSet(m.bits[p], k)
    BY <1>1, <1>3, BitmapSet
  <2>2. m.bits \in Seq(0..255) /\ s.bits \in Seq(0..255) /\ m.count = n /\ s.count = n
    BY <1>1, <2>1, BitmapBytes
  <2>3. i \div 8 + 1 \in 1..Len(m.bits) /\ i % 8 \in 0..7
        /\ ~BitSet(m.bits[i \div 8 + 1], i % 8)
    <3>1. i % 8 \in 0..7
      OBVIOUS
    <3> QED
      BY <1>1, <1>3, <3>1, BitmapBytes
  <2> HIDE DEF s
  <2>4. OneBits(s.bits) = OneBits(m.bits) \cup {q} /\ q \notin OneBits(m.bits)
    <3>1. ASSUME NEW a \in 1..Len(m.bits), NEW k \in 0..7
          PROVE  <<a, k>> \in OneBits(s.bits) <=> <<a, k>> \in OneBits(m.bits) \/ <<a, k>> = q
      BY <2>1 DEF OneBits
    <3>2. q \notin OneBits(m.bits)
      BY <2>3 DEF OneBits
    <3>3. OneBits(s.bits) \subseteq (1..Len(m.bits)) \X (0..7)
          /\ OneBits(m.bits) \subseteq (1..Len(m.bits)) \X (0..7)
          /\ q \in (1..Len(m.bits)) \X (0..7)
      BY <2>1, <2>3 DEF OneBits
    <3> HIDE DEF q
    <3>4. ASSUME NEW x \in (1..Len(m.bits)) \X (0..7)
          PROVE  x \in OneBits(s.bits) <=> x \in OneBits(m.bits) \cup {q}
      <4>1. PICK a \in 1..Len(m.bits), k \in 0..7 : x = <<a, k>>
        OBVIOUS
      <4> QED
        BY <3>1, <4>1
    <3> QED
      BY <3>2, <3>3, <3>4
  <2>5. Ones(s.bits) = Ones(m.bits) + 1
    <3>1. IsFiniteSet(OneBits(m.bits)) /\ Ones(m.bits) = Cardinality(OneBits(m.bits))
          /\ Ones(s.bits) = Cardinality(OneBits(s.bits))
      BY <2>2, OnesFinite
    <3> HIDE DEF q
    <3> QED
      BY <2>4, <3>1, FS_AddElement
  <2>6. (i \div 8 + 1 - 1) * 8 + (i % 8) = i
    BY ByteAndBit
  <2>7. Unpadded(s)
    <3> SUFFICES ASSUME NEW p \in 1..Len(s.bits), NEW k \in 0..7, BitSet(s.bits[p], k)
                 PROVE  (p - 1) * 8 + k < n
      BY <2>2 DEF Unpadded
    <3>1. CASE p = i \div 8 + 1 /\ k = i % 8
      BY <2>6, <3>1
    <3>2. CASE BitSet(m.bits[p], k)
      BY <1>1, <2>1, <2>2, <3>2 DEF Unpadded
    <3> QED
      BY <2>1, <3>1, <3>2
  <2> QED
    BY <1>1, <2>1, <2>5, <2>7 DEF Sound, s
<1> QED
  BY <1>2, <1>3

\* The set bits and the chunks a sound bitmap has are as many.
LEMMA SoundCounted ==
    ASSUME NEW n \in Nat, NEW m, Sound(m, n)
    PROVE  Counted(m) /\ m.set_count \in 0..n /\ IsFiniteSet(Present(m))
<1>1. m \in BitmapOf(n) /\ Unpadded(m) /\ m.set_count = Ones(m.bits)
  BY DEF Sound
<1>2. m.bits \in Seq(0..255) /\ m.count = n /\ Len(m.bits) \in Nat
  BY <1>1, BitmapBytes
<1> DEFINE P == Present(m)  O == OneBits(m.bits)  g == [p \in O |-> (p[1] - 1) * 8 + p[2]]
<1>3. \A i \in 0..n - 1 : i \in P <=> BitSet(m.bits[i \div 8 + 1], i % 8)
  BY <1>1, <1>2, BitmapBytes DEF Present
<1>4. P \subseteq 0..n - 1 /\ IsFiniteSet(0..n - 1) /\ Cardinality(0..n - 1) = n
  <2>1. 0 \in Int /\ n - 1 \in Int
    OBVIOUS
  <2>2. IsFiniteSet(0..n - 1) /\ Cardinality(0..n - 1) = n
    BY <2>1, FS_Interval
  <2> QED
    BY <1>2, <2>2 DEF Present
<1>5. IsFiniteSet(P) /\ Cardinality(P) <= n /\ Cardinality(P) \in Nat
  BY <1>4, FS_Subset, FS_CardinalityType
<1>6. ASSUME NEW a \in 1..Len(m.bits), NEW k \in 0..7, <<a, k>> \in O
      PROVE  /\ g[<<a, k>>] \in P
             /\ g[<<a, k>>] \div 8 + 1 = a /\ g[<<a, k>>] % 8 = k
  <2> DEFINE i == (a - 1) * 8 + k
  <2>1. BitSet(m.bits[a], k)
    BY <1>6 DEF OneBits
  <2>2. g[<<a, k>>] = i /\ a - 1 \in Nat /\ a \in Nat
    BY <1>2, <1>6
  <2>3. i < n
    BY <1>1, <1>2, <2>1 DEF Unpadded
  <2>4. i \div 8 = a - 1 /\ i % 8 = k
    BY <2>2, ByteAndBit
  <2>5. i \in 0..n - 1 /\ i \div 8 + 1 = a
    BY <2>2, <2>3, <2>4
  <2> HIDE DEF g, O, P, i
  <2> QED
    BY <1>3, <2>1, <2>2, <2>4, <2>5
<1>7. ASSUME NEW i \in P PROVE \E p \in O : g[p] = i
  <2>1. i \in 0..n - 1
    BY <1>4
  <2>2. BitSet(m.bits[i \div 8 + 1], i % 8) /\ i % 8 \in 0..7 /\ i \in Nat
    <3>1. i % 8 \in 0..7
      BY <2>1
    <3>2. BitSet(m.bits[i \div 8 + 1], i % 8)
      BY <1>3, <2>1, Zenon
    <3> QED
      BY <2>1, <3>1, <3>2
  <2>3. i \div 8 + 1 \in 1..Len(m.bits)
    BY <1>1, <2>1, BitmapBytes
  <2>4. PICK a \in 1..Len(m.bits), k \in 0..7 : a = i \div 8 + 1 /\ k = i % 8
    BY <2>2, <2>3
  <2>5. <<a, k>> \in O
    BY <2>2, <2>4 DEF OneBits
  <2>6. g[<<a, k>>] = (a - 1) * 8 + k
    BY <2>5
  <2>7. (a - 1) * 8 + k = i
    <3>1. a - 1 = i \div 8
      BY <2>2, <2>4, ByteAndBit
    <3> QED
      BY <2>2, <2>4, <3>1, ByteAndBit
  <2> HIDE DEF g, O, P
  <2> QED
    BY <2>5, <2>6, <2>7
<1>8. g \in Bijection(O, P)
  <2>1. \A p \in O : \E a \in 1..Len(m.bits), k \in 0..7 : p = <<a, k>>
    BY DEF OneBits
  <2>2. DOMAIN g = O /\ g = [p \in O |-> g[p]]
    OBVIOUS
  <2> HIDE DEF P, O, g
  <2>3. g \in [O -> P]
    <3>1. \A p \in O : g[p] \in P
      <4> SUFFICES ASSUME NEW p \in O PROVE g[p] \in P
        OBVIOUS
      <4>1. PICK a \in 1..Len(m.bits), k \in 0..7 : p = <<a, k>>
        BY <2>1
      <4> QED
        BY <1>6, <4>1
    <3> QED
      BY <2>2, <3>1
  <2>4. ASSUME NEW p \in O, NEW q \in O, g[p] = g[q] PROVE p = q
    <3>1. PICK a \in 1..Len(m.bits), k \in 0..7 : p = <<a, k>>
      BY <2>1
    <3>2. PICK c \in 1..Len(m.bits), j \in 0..7 : q = <<c, j>>
      BY <2>1
    <3>3. a = c /\ k = j
      <4>1. g[p] \div 8 + 1 = a /\ g[p] % 8 = k
        BY <1>6, <3>1
      <4>2. g[q] \div 8 + 1 = c /\ g[q] % 8 = j
        BY <1>6, <3>2
      <4> QED
        BY <2>4, <4>1, <4>2
    <3> QED
      BY <3>1, <3>2, <3>3
  <2>5. g \in Injection(O, P)
    <3>1. \A p, q \in O : g[p] = g[q] => p = q
      BY <2>4
    <3> QED
      BY <2>3, <3>1, Zenon DEF Injection, IsInjective
  <2>6. g \in Surjection(O, P)
    BY <1>7, <2>3 DEF Surjection
  <2> QED
    BY <2>5, <2>6 DEF Bijection
<1>9. Cardinality(P) = Cardinality(O)
  BY <1>2, <1>8, OnesFinite, FS_Bijection DEF ExistsBijection
<1>10. Ones(m.bits) = Cardinality(O)
  BY <1>2, OnesFinite
<1> QED
  BY <1>1, <1>5, <1>9, <1>10 DEF Counted

-----------------------------------------------------------------------------
(* The frames of a chunk. *)

LEMMA FileFacts ==
    ASSUME NEW f \in FileId
    PROVE  /\ FileSize[f] \in Nat /\ FileSize[f] \in U64 /\ f \in U64 /\ f \in Nat
           /\ Layout(f).count \in Nat
           /\ Layout(f).file_size = FileSize[f] /\ Layout(f).chunk_size = ChunkSize
           /\ ChunkSize \in Nat \ {0}
<1>1. FileSize[f] \in U64 /\ f \in U64 /\ ValidChunkSize(ChunkSize)
  BY StreamAssumption
<1>2. FileSize[f] \in Nat /\ f \in Nat
  BY <1>1, Widths
<1> QED
  BY <1>1, <1>2, Geometry DEF Layout

\* What is below a number that fits a field fits it too.
LEMMA Below ==
    ASSUME NEW y \in Nat
    PROVE  /\ \A x \in U64 : y <= x => y \in U64
           /\ \A x \in U32 : y <= x => y \in U32
<1>1. ASSUME NEW K \in Nat, NEW x \in 0..K - 1, y <= x PROVE y \in 0..K - 1
  BY <1>1
<1>2. Base4 * Base4 \in Nat /\ Base2 * Base2 \in Nat
  BY Widths
<1> QED
  BY <1>1, <1>2, Widths

LEMMA FunctionIsSeq ==
    ASSUME NEW T, NEW n \in Nat, NEW g \in [1..n -> T]
    PROVE  g \in Seq(T) /\ Len(g) = n
<1>1. g \in Seq(T)
  BY SeqDef
<1>2. DOMAIN g = 1..n /\ DOMAIN g = 1..Len(g) /\ Len(g) \in Nat
  BY <1>1, LenProperties
<1> QED
  BY <1>1, <1>2

\* A chunk is a run of at least one and at most chunk_size bytes of its file.
Start(f, i) == ChunkRange(Layout(f), i)[1]
Length(f, i) == ChunkRange(Layout(f), i)[2]

LEMMA ChunkFacts ==
    ASSUME NEW f \in FileId, NEW i \in 0..Layout(f).count - 1
    PROVE  /\ ChunkRange(Layout(f), i) = <<Start(f, i), Length(f, i)>>
           /\ Start(f, i) \in Nat /\ Start(f, i) = i * ChunkSize
           /\ Length(f, i) \in Nat /\ Length(f, i) > 0 /\ Length(f, i) <= ChunkSize
           /\ Start(f, i) + Length(f, i) <= FileSize[f]
<1>1. FileSize[f] \in Nat /\ ValidChunkSize(ChunkSize) /\ Layout(f) = NewLayout(FileSize[f], ChunkSize)
  BY FileFacts, StreamAssumption DEF Layout
<1>2. ChunkSize \in Nat \ {0}
      /\ ChunkRange(Layout(f), i) = <<i * ChunkSize, AtMost(FileSize[f] - i * ChunkSize, ChunkSize)>>
  BY <1>1, Geometry
<1>3. /\ ChunkRange(Layout(f), i)[1] = i * ChunkSize /\ i * ChunkSize \in Nat
      /\ ChunkRange(Layout(f), i)[2] \in 1..ChunkSize
      /\ i * ChunkSize + ChunkRange(Layout(f), i)[2] <= FileSize[f]
  BY <1>1, ChunkLength
<1> QED
  BY <1>2, <1>3 DEF Start, Length

LEMMA ChunkBytesFacts ==
    ASSUME NEW f \in FileId, NEW i \in 0..Layout(f).count - 1
    PROVE  /\ ChunkBytes(f, i) \in Seq(Byte) /\ Len(ChunkBytes(f, i)) = Length(f, i)
           /\ \A k \in 1..Length(f, i) : ChunkBytes(f, i)[k] = <<f, Start(f, i) + k - 1>>
<1>1. Start(f, i) \in Nat /\ Length(f, i) \in Nat /\ f \in Nat
  BY ChunkFacts, FileFacts
<1>2. ChunkBytes(f, i) = [k \in 1..Length(f, i) |-> <<f, Start(f, i) + k - 1>>]
  BY DEF ChunkBytes, Start, Length
<1>3. ChunkBytes(f, i) \in [1..Length(f, i) -> Byte]
  BY <1>1, <1>2 DEF Byte
<1> QED
  BY <1>1, <1>2, <1>3, FunctionIsSeq

\* A frame that carries the l bytes of file f from offset o.
Carries(fr, f, o, l) ==
    /\ fr \in [bytes : Seq(U8), payload : Seq(Byte)]
    /\ fr.bytes = Encode(Header("FileData", f, o, l))
    /\ Len(fr.payload) = l
    /\ \A k \in 1..l : fr.payload[k] = <<f, o + k - 1>>

\* The length of the nth part of l bytes.
PartLen(l, z, n) == (IF n * z < l THEN n * z ELSE l) - (n - 1) * z

\* The parts are consecutive: all but the last are whole, none is empty.
LEMMA Parts ==
    ASSUME NEW l \in Nat, l > 0, NEW z \in Nat \ {0}
    PROVE  /\ DivCeil(l, z) \in Nat \ {0}
           /\ \A n \in 1..DivCeil(l, z) :
                 /\ (n - 1) * z \in Nat /\ (n - 1) * z < l
                 /\ PartLen(l, z, n) \in 1..z
                 /\ (n - 1) * z + PartLen(l, z, n) <= l
                 /\ n < DivCeil(l, z) => PartLen(l, z, n) = z /\ (n - 1) * z + z = n * z
                 /\ n = DivCeil(l, z) => (n - 1) * z + PartLen(l, z, n) = l
<1> DEFINE N == DivCeil(l, z)
<1>1. N \in Nat /\ l <= N * z /\ \A i \in Nat : i < N <=> i * z < l
  BY Ceiling
<1>2. N # 0
  <2>1. 0 * z < l
    OBVIOUS
  <2> QED
    BY <1>1, <2>1
<1> HIDE DEF N
<1>3. ASSUME NEW n \in 1..N
      PROVE  /\ (n - 1) * z \in Nat /\ (n - 1) * z < l
             /\ PartLen(l, z, n) \in 1..z
             /\ (n - 1) * z + PartLen(l, z, n) <= l
             /\ n < N => PartLen(l, z, n) = z /\ (n - 1) * z + z = n * z
             /\ n = N => (n - 1) * z + PartLen(l, z, n) = l
  <2>1. n - 1 \in Nat /\ n \in Nat /\ n - 1 < N
    BY <1>1
  <2>2. (n - 1) * z \in Nat /\ n * z \in Nat
    BY <2>1
  <2>3. (n - 1) * z + z = n * z
    BY <2>1
  <2>4. (n - 1) * z < l
    BY <1>1, <2>1
  <2>5. n < N => n * z < l
    BY <1>1, <2>1
  <2>6. n = N => ~(n * z < l)
    BY <1>1, <2>1
  <2> DEFINE a == (n - 1) * z  b == n * z
  <2>7. PartLen(l, z, n) = (IF b < l THEN b ELSE l) - a
    BY DEF PartLen
  <2> HIDE DEF a, b
  <2>8. a \in Nat /\ b \in Nat /\ a + z = b /\ a < l /\ (n < N => b < l) /\ (n = N => ~(b < l))
    BY <2>2, <2>3, <2>4, <2>5, <2>6 DEF a, b
  <2>9. /\ PartLen(l, z, n) \in 1..z
        /\ a + PartLen(l, z, n) <= l
        /\ n < N => PartLen(l, z, n) = z /\ a + z = b
        /\ n = N => a + PartLen(l, z, n) = l
    BY <2>7, <2>8
  <2> QED
    BY <2>2, <2>4, <2>9 DEF a, b
<1> QED
  BY <1>1, <1>2, <1>3 DEF N

\* payload.chunks(frame_size): the nth frame carries the nth part.
LEMMA Framed ==
    ASSUME NEW f \in FileId, NEW i \in 0..Layout(f).count - 1, NEW z \in U32 \ {0}
    PROVE  /\ Frames(f, i, z) \in Seq([bytes : Seq(U8), payload : Seq(Byte)])
           /\ Len(Frames(f, i, z)) = DivCeil(Length(f, i), z)
           /\ \A n \in 1..DivCeil(Length(f, i), z) :
                 /\ Carries(Frames(f, i, z)[n], f, Start(f, i) + (n - 1) * z,
                            PartLen(Length(f, i), z, n))
                 /\ Header("FileData", f, Start(f, i) + (n - 1) * z,
                           PartLen(Length(f, i), z, n)) \in FrameHeader
<1> DEFINE bytes == ChunkBytes(f, i)  s == Start(f, i)  l == Length(f, i)
           N == DivCeil(l, z)  frames == Frames(f, i, z)
<1>1. s \in Nat /\ l \in Nat /\ l > 0 /\ s + l <= FileSize[f]
  BY ChunkFacts
<1>2. bytes \in Seq(Byte) /\ Len(bytes) = l /\ \A k \in 1..l : bytes[k] = <<f, s + k - 1>>
  BY ChunkBytesFacts
<1>3. z \in Nat \ {0} /\ f \in U64 /\ FileSize[f] \in U64 /\ f \in Nat /\ FileSize[f] \in Nat
  BY FileFacts DEF U32
<1>4. N \in Nat \ {0}
      /\ \A n \in 1..N : /\ (n - 1) * z \in Nat /\ (n - 1) * z < l
                         /\ PartLen(l, z, n) \in 1..z
                         /\ (n - 1) * z + PartLen(l, z, n) <= l
  BY <1>1, <1>3, Parts
<1>5. frames = [n \in 1..N |->
        [bytes |-> Encode(Header("FileData", f, s + (n - 1) * z,
                     Len(SubSeq(bytes, (n - 1) * z + 1,
                                IF (n - 1 + 1) * z < l THEN (n - 1 + 1) * z ELSE l)))),
         payload |-> SubSeq(bytes, (n - 1) * z + 1,
                            IF (n - 1 + 1) * z < l THEN (n - 1 + 1) * z ELSE l)]]
  BY DEF Frames, PartStart, Start, Length
<1> HIDE DEF frames, bytes, N, s, l
<1>6. ASSUME NEW n \in 1..N
      PROVE  /\ Carries(frames[n], f, s + (n - 1) * z, PartLen(l, z, n))
             /\ Header("FileData", f, s + (n - 1) * z, PartLen(l, z, n)) \in FrameHeader
  <2> DEFINE a == (n - 1) * z  e == IF n * z < l THEN n * z ELSE l  p == SubSeq(bytes, a + 1, e)
  <2>1. n - 1 + 1 = n /\ n \in Nat
    BY <1>4
  <2>2. frames[n] = [bytes |-> Encode(Header("FileData", f, s + a, Len(p))), payload |-> p]
    BY <1>5, <2>1
  <2>3. PartLen(l, z, n) = e - a
    BY DEF PartLen
  <2>4. a \in Nat /\ a < l /\ e - a \in 1..z /\ a + (e - a) <= l
    BY <1>4, <2>3
  <2>5. e \in Nat
    BY <1>1, <1>3, <2>1
  <2> HIDE DEF a, e
  <2>6. e <= l /\ a < e
    BY <1>1, <1>3, <2>4, <2>5
  <2>7. \A k \in a + 1..e : bytes[k] \in Byte
    BY <1>1, <1>2, <2>4, <2>5, <2>6, ElementOfSeq
  <2>8. p \in Seq(Byte) /\ Len(p) = e - a
    <3>1. p \in Seq(Byte) /\ Len(p) = (IF a + 1 <= e THEN e - (a + 1) + 1 ELSE 0)
      BY <2>4, <2>5, <2>7, SubSeqProperties
    <3> HIDE DEF p
    <3> QED
      BY <2>4, <2>5, <2>6, <3>1
  <2>9. ASSUME NEW k \in 1..e - a PROVE p[k] = <<f, s + a + k - 1>>
    <3>1. k \in 1..e - (a + 1) + 1 /\ a + 1 + k - 1 = a + k
      BY <2>4, <2>5
    <3>2. p[k] = bytes[a + 1 + k - 1]
      BY <2>4, <2>5, <2>7, <3>1, SubSeqProperties
    <3>3. a + k \in 1..l /\ s + (a + k) - 1 = s + a + k - 1
      BY <1>1, <2>4, <2>5, <2>6
    <3>4. bytes[a + k] = <<f, s + (a + k) - 1>>
      BY <1>2, <3>3
    <3> HIDE DEF p
    <3> QED
      BY <3>1, <3>2, <3>3, <3>4
  <2> HIDE DEF p
  <2>10. Header("FileData", f, s + a, e - a) \in FrameHeader
    <3>1. s + a \in U64
      BY <1>1, <1>3, <2>4, Below
    <3>2. e - a \in U32
      BY <1>3, <2>4, Below
    <3>3. 0 \in U16 /\ "FileData" \in {MsgTypes[k] : k \in 1..4}
      <4>1. MsgTypes[2] = "FileData" /\ 2 \in 1..4
        BY DEF MsgTypes
      <4>2. 0 \in U16
        BY Widths DEF Base2
      <4> QED
        BY <4>1, <4>2, Zenon
    <3> QED
      BY <1>3, <3>1, <3>2, <3>3 DEF Header, FrameHeader
  <2>11. Encode(Header("FileData", f, s + a, e - a)) \in Seq(U8)
    BY <2>10, EncodedType
  <2>12. Carries(frames[n], f, s + a, e - a)
    BY <2>2, <2>8, <2>9, <2>11 DEF Carries
  <2> QED
    BY <2>3, <2>10, <2>12 DEF a
<1>7. frames \in [1..N -> [bytes : Seq(U8), payload : Seq(Byte)]]
  <2>1. \A n \in 1..N : frames[n] \in [bytes : Seq(U8), payload : Seq(Byte)]
    BY <1>6 DEF Carries
  <2>2. frames = [n \in 1..N |-> frames[n]]
    BY <1>5
  <2> QED
    BY <2>1, <2>2
<1>8. frames \in Seq([bytes : Seq(U8), payload : Seq(Byte)]) /\ Len(frames) = N
  BY <1>4, <1>7, FunctionIsSeq
<1> QED
  BY <1>6, <1>8 DEF frames, N, s, l

-----------------------------------------------------------------------------
(* missing_ranges. *)

LEMMA RangesAppend ==
    ASSUME NEW r \in Seq(Nat \X Nat), NEW a \in Nat, NEW b \in Nat
    PROVE  /\ Append(r, <<a, b>>) \in Seq(Nat \X Nat)
           /\ InRanges(Append(r, <<a, b>>)) = InRanges(r) \cup (a..b - 1)
           /\ Coalesced(r) /\ a < b /\ (\A k \in 1..Len(r) : r[k][2] < a)
                => Coalesced(Append(r, <<a, b>>))
<1> DEFINE s == Append(r, <<a, b>>)  n == Len(r)
<1>1. n \in Nat /\ s \in Seq(Nat \X Nat) /\ Len(s) = n + 1
      /\ (\A k \in 1..n : s[k] = r[k]) /\ s[n + 1] = <<a, b>>
  BY LenProperties, <<a, b>> \in Nat \X Nat
<1> HIDE DEF s, n
<1>2. s[n + 1][1] = a /\ s[n + 1][2] = b
  BY <1>1
<1>3. 1..n + 1 = (1..n) \cup {n + 1}
  <2>1. n \in Nat
    BY <1>1
  <2> QED
    BY <2>1
<1>4. InRanges(s) = InRanges(r) \cup (a..b - 1)
  <2>1. InRanges(s) = UNION {s[k][1]..s[k][2] - 1 : k \in (1..n) \cup {n + 1}}
    BY <1>1, <1>3 DEF InRanges
  <2>2. InRanges(r) = UNION {r[k][1]..r[k][2] - 1 : k \in 1..n}
    BY DEF InRanges, n
  <2>3. \A x : x \in InRanges(s) <=> x \in InRanges(r) \/ x \in a..b - 1
    <3> TAKE x
    <3>1. x \in InRanges(s) <=> \E k \in (1..n) \cup {n + 1} : x \in s[k][1]..s[k][2] - 1
      BY <2>1
    <3>2. x \in InRanges(r) <=> \E k \in 1..n : x \in r[k][1]..r[k][2] - 1
      BY <2>2
    <3> QED
      BY <1>1, <1>2, <3>1, <3>2
  <2> QED
    BY <2>3
<1>5. ASSUME Coalesced(r), a < b, \A k \in 1..n : r[k][2] < a
      PROVE  Coalesced(s)
  <2>1. ASSUME NEW k \in 1..Len(s) PROVE s[k][1] < s[k][2]
    <3>1. k \in 1..n \/ k = n + 1
      BY <1>1
    <3> QED
      BY <1>1, <1>2, <1>5, <3>1 DEF Coalesced, n
  <2>2. ASSUME NEW k \in 1..Len(s) - 1 PROVE s[k][2] < s[k + 1][1]
    <3>1. CASE k = n
      <4>1. n \in 1..n
        BY <1>1, <3>1
      <4>2. s[k][2] = r[n][2] /\ s[k + 1][1] = a
        BY <1>1, <1>2, <3>1, <4>1
      <4> QED
        BY <1>5, <4>1, <4>2
    <3>2. CASE k # n
      <4>1. k \in 1..n - 1 /\ k \in 1..n /\ k + 1 \in 1..n
        BY <1>1, <3>2
      <4> QED
        BY <1>1, <1>5, <4>1 DEF Coalesced, n
    <3> QED
      BY <3>1, <3>2
  <2> QED
    BY <2>1, <2>2 DEF Coalesced
<1> QED
  BY <1>1, <1>4, <1>5 DEF s, n

LEMMA NoRanges ==
    /\ <<>> \in Seq(Nat \X Nat) /\ Len(<<>>) = 0
    /\ InRanges(<<>>) = {} /\ Coalesced(<<>>)
  BY DEF InRanges, Coalesced

Scans == [at : Nat, run : Nat \cup {Err}, ranges : Seq(Nat \X Nat)]

\* The loop of missing_ranges after its first s.at passes over a bitmap: the
\* ranges found end before the open run, or before a chunk already seen to be
\* there, and with that run they are the chunks the bitmap lacks.
Scanning(s, m) ==
    /\ s.at <= m.count
    /\ s.run # Err => s.run < s.at
    /\ \A k \in 1..Len(s.ranges) : s.ranges[k][2] < (IF s.run = Err THEN s.at ELSE s.run)
    /\ Coalesced(s.ranges)
    /\ InRanges(Scanned(s, s.at)) = {i \in 0..s.at - 1 : ~Get(m, i)}

LEMMA ScanStarts ==
    ASSUME NEW m, m.count \in Nat
    PROVE  NewScan \in Scans /\ Scanning(NewScan, m)
<1>1. NewScan.at = 0 /\ NewScan.run = Err /\ NewScan.ranges = <<>>
      /\ NewScan = [at |-> 0, run |-> Err, ranges |-> <<>>]
  BY DEF NewScan
<1>2. NewScan \in Scans
  BY <1>1, NoRanges DEF Scans
<1>3. Scanned(NewScan, 0) = <<>>
  BY <1>1 DEF Scanned
<1> QED
  BY <1>1, <1>2, <1>3, NoRanges DEF Scanning

LEMMA ScanStep ==
    ASSUME NEW n \in Nat, NEW m \in BitmapOf(n), NEW s \in Scans, Scanning(s, m), s.at < n
    PROVE  ScanBit(s, Get(m, s.at)) \in Scans /\ Scanning(ScanBit(s, Get(m, s.at)), m)
<1> DEFINE t == ScanBit(s, Get(m, s.at))  a == s.at
           Lacks(k) == {i \in 0..k - 1 : ~Get(m, i)}
<1>1. a \in Nat /\ s.run \in Nat \cup {Err} /\ s.ranges \in Seq(Nat \X Nat) /\ m.count = n
      /\ s = [at |-> s.at, run |-> s.run, ranges |-> s.ranges]
  BY BitmapBytes DEF Scans
<1>2. Get(m, a) \in BOOLEAN
  BY <1>1, BitmapBytes
<1>3. /\ s.run # Err => s.run < a
      /\ \A k \in 1..Len(s.ranges) : s.ranges[k][2] < (IF s.run = Err THEN a ELSE s.run)
      /\ Coalesced(s.ranges) /\ InRanges(Scanned(s, a)) = Lacks(a)
  BY DEF Scanning
<1>4. Lacks(a + 1) = IF Get(m, a) THEN Lacks(a) ELSE Lacks(a) \cup {a}
  BY <1>1
<1>5. SUFFICES /\ t \in Scans /\ t.at = a + 1
               /\ t.run # Err => t.run < a + 1
               /\ \A k \in 1..Len(t.ranges) : t.ranges[k][2] < (IF t.run = Err THEN a + 1 ELSE t.run)
               /\ Coalesced(t.ranges) /\ InRanges(Scanned(t, a + 1)) = Lacks(a + 1)
  BY <1>1 DEF Scanning
<1> HIDE DEF Lacks
<1>6. s.ranges \in [1..Len(s.ranges) -> Nat \X Nat] /\ Len(s.ranges) \in Nat
  BY <1>1, LenProperties
<1>7. \A k \in 1..Len(s.ranges) : s.ranges[k][2] \in Nat
  BY <1>6
<1>8. CASE ~Get(m, a) /\ s.run = Err
  <2>1. t = [at |-> a + 1, run |-> a, ranges |-> s.ranges]
    BY <1>1, <1>8 DEF ScanBit
  <2>2. Scanned(s, a) = s.ranges
    BY <1>8 DEF Scanned
  <2>3. Scanned(t, a + 1) = Append(s.ranges, <<a, a + 1>>)
    BY <1>1, <2>1, NoneAssumption DEF Scanned
  <2>4. InRanges(Append(s.ranges, <<a, a + 1>>)) = InRanges(s.ranges) \cup (a..a + 1 - 1)
        /\ a..a + 1 - 1 = {a}
    <3>1. a + 1 \in Nat /\ a..a + 1 - 1 = {a}
      BY <1>1
    <3> QED
      BY <1>1, <3>1, RangesAppend
  <2>5. InRanges(Scanned(t, a + 1)) = Lacks(a + 1)
    BY <1>3, <1>4, <1>8, <2>2, <2>3, <2>4
  <2>6. t \in Scans /\ t.at = a + 1 /\ t.run = a /\ t.run # Err /\ t.ranges = s.ranges
    BY <1>1, <2>1, NoneAssumption DEF Scans
  <2> HIDE DEF t
  <2> QED
    BY <1>1, <1>3, <1>8, <2>5, <2>6
<1>9. CASE Get(m, a) /\ s.run # Err
  <2> DEFINE u == Append(s.ranges, <<s.run, a>>)
  <2>1. t = [at |-> a + 1, run |-> Err, ranges |-> u]
    BY <1>1, <1>9 DEF ScanBit
  <2>2. Scanned(s, a) = u
    BY <1>9 DEF Scanned
  <2>3. Scanned(t, a + 1) = u
    BY <2>1 DEF Scanned
  <2>4. s.run \in Nat /\ s.run < a /\ \A k \in 1..Len(s.ranges) : s.ranges[k][2] < s.run
    BY <1>1, <1>3, <1>9
  <2>5. u \in Seq(Nat \X Nat) /\ Coalesced(u)
    BY <1>1, <1>3, <2>4, RangesAppend
  <2>6. ASSUME NEW k \in 1..Len(u) PROVE u[k][2] < a + 1
    <3>1. Len(u) = Len(s.ranges) + 1 /\ u[Len(s.ranges) + 1] = <<s.run, a>>
          /\ \A j \in 1..Len(s.ranges) : u[j] = s.ranges[j]
      BY <1>1, <2>4, <<s.run, a>> \in Nat \X Nat
    <3>2. k \in 1..Len(s.ranges) \/ k = Len(s.ranges) + 1
      BY <1>6, <3>1
    <3> HIDE DEF u
    <3>3. CASE k = Len(s.ranges) + 1
      BY <1>1, <3>1, <3>3
    <3>4. CASE k \in 1..Len(s.ranges)
      <4>1. u[k][2] = s.ranges[k][2]
        BY <3>1, <3>4
      <4>2. s.ranges[k][2] \in Nat /\ s.ranges[k][2] < s.run
        BY <1>7, <2>4, <3>4
      <4>3. a \in Nat /\ s.run \in Nat /\ s.run < a
        BY <1>1, <2>4
      <4> QED
        BY <4>1, <4>2, <4>3
    <3> QED
      BY <3>2, <3>3, <3>4
  <2>7. t \in Scans /\ t.at = a + 1 /\ t.run = Err /\ t.ranges = u
    <3>1. a + 1 \in Nat
      BY <1>1
    <3> HIDE DEF u
    <3> QED
      BY <2>1, <2>5, <3>1, NoneAssumption DEF Scans
  <2> HIDE DEF t, u
  <2> QED
    BY <1>3, <1>4, <1>9, <2>2, <2>3, <2>5, <2>6, <2>7
<1>10. CASE Get(m, a) /\ s.run = Err
  <2>1. t = [at |-> a + 1, run |-> Err, ranges |-> s.ranges]
    BY <1>1, <1>10 DEF ScanBit
  <2>3. t \in Scans /\ t.at = a + 1 /\ t.run = Err /\ t.ranges = s.ranges
    <3>1. a + 1 \in Nat
      BY <1>1
    <3> QED
      BY <1>1, <2>1, <3>1 DEF Scans
  <2>2. Scanned(s, a) = s.ranges /\ Scanned(t, a + 1) = s.ranges
    <3> HIDE DEF t
    <3> QED
      BY <1>10, <2>3 DEF Scanned
  <2> HIDE DEF t
  <2>4. \A k \in 1..Len(s.ranges) : s.ranges[k][2] < a + 1
    BY <1>1, <1>3, <1>7, <1>10
  <2> QED
    BY <1>3, <1>4, <1>10, <2>2, <2>3, <2>4
<1>11. CASE ~Get(m, a) /\ s.run # Err
  <2>1. t = [at |-> a + 1, run |-> s.run, ranges |-> s.ranges]
    BY <1>1, <1>11 DEF ScanBit
  <2>2. Scanned(s, a) = Append(s.ranges, <<s.run, a>>)
        /\ Scanned(t, a + 1) = Append(s.ranges, <<s.run, a + 1>>)
    BY <1>11, <2>1 DEF Scanned
  <2>3. s.run \in Nat /\ s.run < a /\ a + 1 \in Nat
    BY <1>1, <1>3, <1>11
  <2>4. InRanges(Scanned(s, a)) = InRanges(s.ranges) \cup (s.run..a - 1)
        /\ InRanges(Scanned(t, a + 1)) = InRanges(s.ranges) \cup (s.run..(a + 1) - 1)
    <3>1. InRanges(Append(s.ranges, <<s.run, a>>)) = InRanges(s.ranges) \cup (s.run..a - 1)
      BY <1>1, <2>3, RangesAppend
    <3>2. InRanges(Append(s.ranges, <<s.run, a + 1>>))
            = InRanges(s.ranges) \cup (s.run..(a + 1) - 1)
      <4> DEFINE b == a + 1
      <4>1. b \in Nat
        BY <2>3
      <4> HIDE DEF b
      <4>2. InRanges(Append(s.ranges, <<s.run, b>>)) = InRanges(s.ranges) \cup (s.run..b - 1)
        BY <1>1, <2>3, <4>1, RangesAppend
      <4> QED
        BY <4>2 DEF b
    <3> QED
      BY <2>2, <3>1, <3>2, Zenon
  <2>5. s.run..(a + 1) - 1 = (s.run..a - 1) \cup {a}
    BY <1>1, <2>3
  <2>6. t \in Scans /\ t.at = a + 1 /\ t.run = s.run /\ t.ranges = s.ranges
    BY <1>1, <2>1 DEF Scans
  <2> HIDE DEF t
  <2>7. InRanges(Scanned(t, a + 1)) = Lacks(a + 1)
    <3>1. InRanges(Scanned(s, a)) = Lacks(a) /\ Lacks(a + 1) = Lacks(a) \cup {a}
      BY <1>3, <1>4, <1>11
    <3> QED
      BY <2>4, <2>5, <3>1
  <2>8. t.run < a + 1
    BY <1>1, <2>3, <2>6
  <2> QED
    BY <1>3, <1>11, <2>6, <2>7, <2>8
<1> QED
  BY <1>2, <1>8, <1>9, <1>10, <1>11

\* When the loop is over, the ranges are the chunks the bitmap lacks.
LEMMA ScanEnds ==
    ASSUME NEW s, NEW m, Scanning(s, m), s.at = m.count
    PROVE  InRanges(Scanned(s, m.count)) = {i \in 0..m.count - 1 : ~Get(m, i)}
  BY DEF Scanning

-----------------------------------------------------------------------------
(* The sender: the loop over the entries. *)

Typed ==
    /\ frameSize \in FrameSizes
    /\ answer \in [FileId -> Bitstring \cup {None}]
    /\ send \in {"accept", "sending", "closed", "refused"}
    /\ file \in FileId \cup {Cardinality(FileId)}
    /\ scan \in Scans
    /\ queue \subseteq Chunks
    /\ toSend \in Nat
    /\ tail \in {"none", "header", "payload"}
    /\ honest \in BOOLEAN
    /\ foreign \in 0..MaxForeign

\* What the loop has found so far, in the entry it is at and in the earlier ones.
ScanExact ==
    send = "accept" =>
        IF file \in FileId /\ Had(file) # Err THEN Scanning(scan, Had(file))
        ELSE scan = NewScan

Missing(f) == {c \in Chunks : c[1] < f /\ ~Get(Had(c[1]), c[2])}

QueueExact == send = "accept" => queue = Missing(file)

SendInv == Typed /\ ScanExact /\ QueueExact

LEMMA FileIds ==
    /\ Cardinality(FileId) \in Nat
    /\ \A f \in FileId : f \in Nat /\ f + 1 \in FileId \cup {Cardinality(FileId)}
    /\ Cardinality(FileId) \notin FileId
    /\ \A f \in FileId \cup {Cardinality(FileId)} : f \in Nat
    /\ \A f \in FileId : f < Cardinality(FileId)
<1>1. Cardinality(FileId) \in Nat
  BY StreamAssumption, FS_CardinalityType
<1> QED
  BY <1>1, StreamAssumption

LEMMA IsChunk ==
    \A c : c \in Chunks <=> \E f \in FileId : \E i \in 0..Layout(f).count - 1 : c = <<f, i>>
  BY DEF Chunks

\* The bitmaps the receiver starts with.
LEMMA HaveSound ==
    ASSUME NEW have \in Have, NEW f \in FileId
    PROVE  /\ Sound(FromBytes(have[f], Layout(f).count), Layout(f).count)
           /\ FromBytes(have[f], Layout(f).count).bits = have[f]
           /\ have[f] \in Bitstring
<1>1. have[f] \in Bitstring /\ FromBytes(have[f], Layout(f).count) # Err
  BY PeersAssumption
<1> QED
  BY <1>1, FileFacts, Parsed

LEMMA HadSound ==
    ASSUME Typed, NEW f \in FileId, Had(f) # Err
    PROVE  Sound(Had(f), Layout(f).count)
<1>1. Layout(f).count \in Nat /\ answer[f] \in Bitstring \cup {None}
  BY FileFacts DEF Typed
<1>2. CASE answer[f] = None
  BY <1>1, <1>2, Fresh DEF Had
<1>3. CASE answer[f] # None
  BY <1>1, <1>3, Parsed DEF Had
<1> QED
  BY <1>2, <1>3

LEMMA SoundHas ==
    ASSUME NEW n \in Nat, NEW m, Sound(m, n)
    PROVE  m \in BitmapOf(n) /\ m.count = n
  BY BitmapBytes DEF Sound

LEMMA SenderInit == Init => SendInv
<1> SUFFICES ASSUME Init PROVE SendInv
  OBVIOUS
<1>1. PICK have \in Have : bitmap = [f \in FileId |-> FromBytes(have[f], Layout(f).count)]
  BY DEF Init
<1>2. \A f \in FileId : bitmap[f].bits = have[f] /\ have[f] \in Bitstring
  BY <1>1, HaveSound
<1>3. \E bytes \in Answers \cup {bitmap[0].bits} :
         /\ answer = [f \in FileId |-> IF f = 0 THEN bytes ELSE bitmap[f].bits]
         /\ honest = (bytes = bitmap[0].bits)
  BY DEF Init
<1>4. PICK bytes \in Answers \cup {bitmap[0].bits} :
         /\ answer = [f \in FileId |-> IF f = 0 THEN bytes ELSE bitmap[f].bits]
         /\ honest = (bytes = bitmap[0].bits)
  BY <1>3
<1>5. bytes \in Bitstring \cup {None}
  BY <1>2, PeersAssumption, StreamAssumption
<1>6. answer \in [FileId -> Bitstring \cup {None}]
  BY <1>2, <1>4, <1>5
<1>7. frameSize \in FrameSizes /\ send = "accept" /\ file = 0 /\ scan = NewScan /\ queue = {}
      /\ toSend = 0 /\ tail = "none" /\ honest \in BOOLEAN /\ foreign \in 0..MaxForeign
  BY <1>4, StreamAssumption DEF Init
<1>8. NewScan \in Scans
  <2>1. NewBitmap(0).count \in Nat
    BY DEF NewBitmap
  <2> QED
    BY <2>1, ScanStarts
<1>9. Typed
  BY <1>6, <1>7, <1>8, StreamAssumption DEF Typed
<1>10. ScanExact
  <2>1. ASSUME Had(0) # Err PROVE Scanning(NewScan, Had(0))
    <3>1. Sound(Had(0), Layout(0).count) /\ Layout(0).count \in Nat
      BY <1>9, <2>1, HadSound, StreamAssumption, FileFacts
    <3> QED
      BY <3>1, SoundHas, ScanStarts
  <2> QED
    BY <1>7, <2>1 DEF ScanExact
<1>11. QueueExact
  <2>1. ASSUME NEW c \in Missing(0) PROVE FALSE
    <3>1. PICK f \in FileId : \E i \in 0..Layout(f).count - 1 : c = <<f, i>>
      BY <2>1, IsChunk DEF Missing
    <3>2. c[1] < 0
      BY <2>1 DEF Missing
    <3> QED
      BY <3>1, <3>2, FileIds
  <2> QED
    BY <1>7, <2>1 DEF QueueExact
<1> QED
  BY <1>9, <1>10, <1>11 DEF SendInv

\* What a step that leaves the loop alone keeps.
LEMMA LoopStays ==
    ASSUME Typed', SendInv, UNCHANGED <<answer, send, loopVars>>,
           send = "accept" => UNCHANGED queue
    PROVE  SendInv'
<1>1. ScanExact'
  BY DEF SendInv, ScanExact, Had, loopVars
<1>2. QueueExact'
  <2>1. Missing(file)' = Missing(file)
    BY DEF Missing, Had, loopVars
  <2> QED
    BY <2>1 DEF SendInv, QueueExact, loopVars
<1> QED
  BY <1>1, <1>2 DEF SendInv

LEMMA LoopOver ==
    ASSUME Typed', send' # "accept"
    PROVE  SendInv'
  BY DEF SendInv, ScanExact, QueueExact

\* The ranges of a whole pass are the chunks the entry misses, all of them
\* chunks of the file.
LEMMA WholePass ==
    ASSUME SendInv, send = "accept", file \in FileId, Had(file) # Err,
           scan.at = Layout(file).count
    PROVE  /\ InRanges(Scanned(scan, Layout(file).count))
                = {i \in 0..Layout(file).count - 1 : ~Get(Had(file), i)}
           /\ Layout(file).count \in Nat
<1>1. Sound(Had(file), Layout(file).count) /\ Layout(file).count \in Nat
  BY HadSound, FileFacts DEF SendInv
<1>2. Had(file).count = Layout(file).count
  BY <1>1, SoundHas
<1>3. Scanning(scan, Had(file))
  BY DEF SendInv, ScanExact
<1> QED
  BY <1>1, <1>2, <1>3, ScanEnds

LEMMA QueueStep == SendInv /\ QueueMissing => SendInv'
<1> SUFFICES ASSUME SendInv, QueueMissing PROVE SendInv'
  OBVIOUS
<1> DEFINE missing == InRanges(Scanned(scan, Layout(file).count))
<1>1. /\ send = "accept" /\ file \in FileId /\ Had(file) # Err /\ scan.at = Layout(file).count
      /\ queue' = queue \cup ({file} \X missing)
      /\ toSend' = toSend + Cardinality({p \in 0..FileSize[file] - 1 :
                                             IndexOf(Layout(file), p) \in missing})
      /\ file' = file + 1 /\ scan' = NewScan
      /\ UNCHANGED <<frameSize, answer, send, tail, honest, foreign>>
  BY DEF QueueMissing
<1>2. missing = {i \in 0..Layout(file).count - 1 : ~Get(Had(file), i)}
  BY <1>1, WholePass
<1>3. toSend' \in Nat
  <2> DEFINE S == {p \in 0..FileSize[file] - 1 : IndexOf(Layout(file), p) \in missing}
  <2>1. FileSize[file] \in Nat
    BY <1>1, FileFacts
  <2>2. IsFiniteSet(0..FileSize[file] - 1)
    BY <2>1, FS_Interval
  <2>3. IsFiniteSet(S)
    BY <2>2, FS_Subset
  <2>4. Cardinality(S) \in Nat
    BY <2>3, FS_CardinalityType
  <2>5. toSend' = toSend + Cardinality(S)
    BY <1>1
  <2> HIDE DEF S
  <2> QED
    BY <2>4, <2>5 DEF SendInv, Typed
<1> HIDE DEF missing
<1>4. \A f : Had(f)' = Had(f)
  BY <1>1 DEF Had
<1>5. \A c : c \in {file} \X missing <=> c \in Chunks /\ c[1] = file /\ ~Get(Had(c[1]), c[2])
  <2>1. ASSUME NEW c, c \in {file} \X missing
        PROVE  c \in Chunks /\ c[1] = file /\ ~Get(Had(c[1]), c[2])
    <3>1. PICK i \in missing : c = <<file, i>>
      BY <2>1
    <3>2. i \in 0..Layout(file).count - 1 /\ ~Get(Had(file), i)
      BY <1>2, <3>1
    <3> QED
      BY <1>1, <3>1, <3>2, IsChunk
  <2>2. ASSUME NEW c, c \in Chunks, c[1] = file, ~Get(Had(c[1]), c[2])
        PROVE  c \in {file} \X missing
    <3>1. PICK f \in FileId : \E i \in 0..Layout(f).count - 1 : c = <<f, i>>
      BY <2>2, IsChunk
    <3>2. PICK i \in 0..Layout(f).count - 1 : c = <<f, i>>
      BY <3>1
    <3>3. f = file /\ c[2] = i
      BY <2>2, <3>2
    <3> QED
      BY <1>2, <2>2, <3>2, <3>3
  <2> QED
    BY <2>1, <2>2
<1>6. file \in Nat /\ file + 1 \in FileId \cup {Cardinality(FileId)}
  BY <1>1, FileIds
<1>7. \A c \in Chunks : c[1] \in Nat
  BY IsChunk, FileIds
<1>8. queue' = Missing(file + 1)
  <2>1. queue = Missing(file)
    BY <1>1 DEF SendInv, QueueExact
  <2>2. \A c \in Chunks : c[1] < file + 1 <=> c[1] < file \/ c[1] = file
    BY <1>6, <1>7
  <2> QED
    BY <1>1, <1>5, <2>1, <2>2 DEF Missing
<1>9. QueueExact'
  <2>1. Missing(file)' = Missing(file + 1)
    BY <1>1, <1>4 DEF Missing
  <2> QED
    BY <1>8, <2>1 DEF QueueExact
<1>10. queue' \subseteq Chunks
  BY <1>8 DEF Missing
<1>11. NewScan \in Scans
  <2>1. NewBitmap(0).count \in Nat
    BY DEF NewBitmap
  <2> QED
    BY <2>1, ScanStarts
<1>12. Typed'
  BY <1>1, <1>3, <1>6, <1>10, <1>11 DEF SendInv, Typed
<1>13. ScanExact'
  <2>1. ASSUME file' \in FileId, Had(file)' # Err PROVE Scanning(NewScan, Had(file)')
    <3>1. Had(file)' = Had(file + 1) /\ file + 1 \in FileId
      BY <1>1, <2>1 DEF Had
    <3>2. Sound(Had(file + 1), Layout(file + 1).count) /\ Layout(file + 1).count \in Nat
      BY <2>1, <3>1, HadSound, FileFacts DEF SendInv
    <3>3. Had(file + 1).count \in Nat
      BY <3>2, SoundHas
    <3> QED
      BY <3>1, <3>3, ScanStarts
  <2> QED
    BY <1>1, <2>1 DEF ScanExact, Scanning
<1> QED
  BY <1>9, <1>12, <1>13 DEF SendInv

LEMMA SenderStep == SendInv /\ [Next]_vars => SendInv'
<1> SUFFICES ASSUME SendInv, [Next]_vars PROVE SendInv'
  OBVIOUS
<1>1. CASE RefuseBitmap
  BY <1>1, LoopOver DEF RefuseBitmap, SendInv, Typed, loopVars
<1>2. CASE ScanChunk
  <2>1. /\ send = "accept" /\ file \in FileId /\ Had(file) # Err /\ scan.at < Layout(file).count
        /\ scan' = ScanBit(scan, Get(Had(file), scan.at))
        /\ UNCHANGED <<frameSize, answer, send, file, queue, toSend, tail, honest, foreign>>
    BY <1>2 DEF ScanChunk
  <2>2. Sound(Had(file), Layout(file).count) /\ Layout(file).count \in Nat
    BY <2>1, HadSound, FileFacts DEF SendInv
  <2>3. Had(file) \in BitmapOf(Layout(file).count) /\ scan \in Scans /\ Scanning(scan, Had(file))
    BY <2>1, <2>2, SoundHas DEF SendInv, Typed, ScanExact
  <2>4. scan' \in Scans /\ Scanning(scan', Had(file))
    BY <2>1, <2>2, <2>3, ScanStep
  <2>5. \A f : Had(f)' = Had(f)
    BY <2>1 DEF Had
  <2>6. Typed'
    BY <2>1, <2>4 DEF SendInv, Typed
  <2>7. ScanExact'
    <3>1. Had(file)' = Had(file)
      BY <2>1 DEF Had
    <3> QED
      BY <2>1, <2>4, <3>1 DEF ScanExact, Scanning
  <2>8. QueueExact'
    <3>1. Missing(file)' = Missing(file)
      BY <2>1, <2>5 DEF Missing
    <3> QED
      BY <2>1, <3>1 DEF SendInv, QueueExact
  <2> QED
    BY <2>6, <2>7, <2>8 DEF SendInv
<1>3. CASE QueueMissing
  BY <1>3, QueueStep
<1>4. CASE OpenStream
  BY <1>4, LoopOver DEF OpenStream, SendInv, Typed, loopVars
<1>5. CASE SendChunk
  <2>1. send = "sending" /\ queue' \subseteq queue
        /\ UNCHANGED <<frameSize, answer, send, file, scan, toSend, tail, honest, foreign>>
    BY <1>5 DEF SendChunk, loopVars
  <2> QED
    BY <2>1, LoopOver DEF SendInv, Typed
<1>6. CASE Shutdown
  BY <1>6, LoopOver DEF Shutdown, SendInv, Typed, loopVars
<1>7. CASE WriteForeign
  <2>1. send = "sending" /\ honest' = FALSE /\ foreign' = foreign + 1 /\ foreign < MaxForeign
        /\ UNCHANGED <<frameSize, answer, send, file, scan, queue, toSend, tail>>
    BY <1>7 DEF WriteForeign, sendVars, loopVars
  <2>2. foreign' \in 0..MaxForeign
    BY <2>1, StreamAssumption DEF SendInv, Typed
  <2> QED
    BY <2>1, <2>2, LoopOver DEF SendInv, Typed
<1>8. CASE Cut
  <2>1. send' = "closed" /\ honest' = FALSE
        /\ UNCHANGED <<frameSize, answer, file, scan, queue, toSend, foreign>>
        /\ tail' \in {"none", "header", "payload"}
    BY <1>8 DEF Cut, loopVars
  <2> QED
    BY <2>1, LoopOver DEF SendInv, Typed
<1>9. CASE Drain \/ UNCHANGED vars
  <2>1. UNCHANGED <<sendVars, tail, honest, foreign>>
    BY <1>9 DEF Drain, DrainKeepalive, DrainRefused, DrainPart, DrainLast, DrainEof, vars
  <2>2. UNCHANGED <<frameSize, answer, send, file, scan, queue, toSend, tail, honest, foreign>>
    BY <2>1 DEF sendVars, loopVars
  <2>3. Typed'
    BY <2>2 DEF SendInv, Typed
  <2> QED
    BY <2>2, <2>3, LoopStays DEF loopVars
<1> QED
  BY <1>1, <1>2, <1>3, <1>4, <1>5, <1>6, <1>7, <1>8, <1>9 DEF Next, Sender

\* missing_ranges and the queue built from it are exact, for every bitmap an
\* Accept may carry: the ranges are coalesced and are the absent chunks among
\* the ones looked at, and what is queued is what the finished entries miss.
THEOREM MissingIsQueued == Spec => []RangesExact
<1>1. SendInv => RangesExact
  <2> SUFFICES ASSUME SendInv, send = "accept"
               PROVE  /\ Coalesced(scan.ranges)
                      /\ file \in FileId /\ Had(file) # Err =>
                            InRanges(Scanned(scan, scan.at))
                                = {i \in 0..scan.at - 1 : ~Get(Had(file), i)}
                      /\ queue = Missing(file)
    BY DEF RangesExact, Missing
  <2>1. NewScan.ranges = <<>>
    BY DEF NewScan
  <2> QED
    BY <2>1, NoRanges DEF SendInv, ScanExact, QueueExact, Scanning
<1> QED
  BY <1>1, SenderInit, SenderStep, PTL DEF Spec

\* Any file size and chunk size is cut into consecutive chunks, and any frame
\* size cuts a queued chunk into frames that carry its bytes, each once and in
\* order.
THEOREM ChunksTile == Spec => []LayoutTiles
<1>1. ASSUME Typed PROVE LayoutTiles
  <2>1. ASSUME NEW size \in 0..FileSize[0] + 1, NEW cs \in MIN_CHUNK_SIZE..MAX_CHUNK_SIZE,
               NewLayout(size, cs) # Err
        PROVE  Tiles(NewLayout(size, cs))
    <3>1. size \in Nat
      BY FileFacts, StreamAssumption
    <3>2. ValidChunkSize(cs)
      BY <2>1 DEF NewLayout
    <3> QED
      BY <3>1, <3>2, LayoutsTile
  <2>2. ASSUME NEW c \in queue
        PROVE  LET frames == Frames(c[1], c[2], frameSize)
                   bytes == ChunkBytes(c[1], c[2])
                   offset(n) == Le8(frames[n].bytes, 16)
                   end(n) == offset(n) + Len(frames[n].payload)
               IN  /\ \A n \in 1..Len(frames) : \A k \in 1..Len(frames[n].payload) :
                         frames[n].payload[k] = <<c[1], offset(n) + k - 1>>
                   /\ \A n \in 1..Len(frames) - 1 : offset(n + 1) = end(n)
                   /\ offset(1) = bytes[1][2]
                   /\ end(Len(frames)) = bytes[Len(bytes)][2] + 1
    <3>1. PICK f \in FileId : \E i \in 0..Layout(f).count - 1 : c = <<f, i>>
      BY <1>1, <2>2, IsChunk DEF Typed
    <3>2. PICK i \in 0..Layout(f).count - 1 : c = <<f, i>>
      BY <3>1
    <3> DEFINE z == frameSize
               s == Start(f, i)
               l == Length(f, i)
               N == DivCeil(l, z)
               frames == Frames(f, i, z)
               bytes == ChunkBytes(f, i)
               offset(n) == Le8(frames[n].bytes, 16)
               end(n) == offset(n) + Len(frames[n].payload)
    <3>3. z \in U32 \ {0} /\ z \in Nat \ {0}
      BY <1>1, StreamAssumption, Widths DEF Typed, U32
    <3>4. s \in Nat /\ l \in Nat /\ l > 0
      BY ChunkFacts
    <3>5. Len(frames) = N
          /\ \A n \in 1..N :
                /\ Carries(frames[n], f, s + (n - 1) * z, PartLen(l, z, n))
                /\ Header("FileData", f, s + (n - 1) * z, PartLen(l, z, n)) \in FrameHeader
      BY <3>3, Framed
    <3>6. Len(bytes) = l /\ \A k \in 1..l : bytes[k] = <<f, s + k - 1>>
      BY ChunkBytesFacts
    <3> HIDE DEF z, s, l, N, frames, bytes
    <3>7. /\ N \in Nat \ {0}
          /\ \A n \in 1..N :
                 /\ (n - 1) * z \in Nat /\ (n - 1) * z < l
                 /\ PartLen(l, z, n) \in 1..z
                 /\ (n - 1) * z + PartLen(l, z, n) <= l
                 /\ n < N => PartLen(l, z, n) = z /\ (n - 1) * z + z = n * z
                 /\ n = N => (n - 1) * z + PartLen(l, z, n) = l
      BY <3>3, <3>4, Parts DEF N
    <3>8. ASSUME NEW n \in 1..N
          PROVE  /\ offset(n) = s + (n - 1) * z
                 /\ Len(frames[n].payload) = PartLen(l, z, n)
                 /\ \A k \in 1..PartLen(l, z, n) :
                       frames[n].payload[k] = <<f, s + (n - 1) * z + k - 1>>
      <4> DEFINE o == s + (n - 1) * z
                 h == Header("FileData", f, o, PartLen(l, z, n))
      <4>1. Carries(frames[n], f, o, PartLen(l, z, n)) /\ h \in FrameHeader
        BY <3>5
      <4>2. frames[n].bytes = Encode(h) /\ Len(frames[n].payload) = PartLen(l, z, n)
            /\ \A k \in 1..PartLen(l, z, n) : frames[n].payload[k] = <<f, o + k - 1>>
        BY <4>1 DEF Carries
      <4>3. Le8(Encode(h), 16) = o
        <5>1. h.offset = o
          BY DEF Header
        <5> QED
          BY <4>1, <5>1, EncodedOffset
      <4> QED
        BY <4>2, <4>3
    <3> HIDE DEF offset
    <3>9. ASSUME NEW n \in 1..N, NEW k \in 1..Len(frames[n].payload)
          PROVE  frames[n].payload[k] = <<f, offset(n) + k - 1>>
      BY <3>8, <3>9
    <3>10. ASSUME NEW n \in 1..N - 1 PROVE offset(n + 1) = end(n)
      <4>1. n \in 1..N /\ n + 1 \in 1..N /\ n < N /\ (n + 1) - 1 = n
        BY <3>7
      <4>2. offset(n + 1) = s + n * z
        BY <3>8, <4>1
      <4>3. offset(n) = s + (n - 1) * z /\ Len(frames[n].payload) = z /\ (n - 1) * z + z = n * z
            /\ (n - 1) * z \in Nat
        BY <3>7, <3>8, <4>1
      <4> QED
        BY <3>3, <3>4, <4>2, <4>3
    <3>11. offset(1) = bytes[1][2]
      <4>1. offset(1) = s + (1 - 1) * z /\ (1 - 1) * z = 0
        BY <3>3, <3>7, <3>8
      <4>2. bytes[1] = <<f, s + 1 - 1>>
        BY <3>4, <3>6
      <4> QED
        BY <3>4, <4>1, <4>2
    <3>12. end(N) = bytes[l][2] + 1
      <4>1. N \in 1..N
        BY <3>7
      <4>2. offset(N) = s + (N - 1) * z /\ Len(frames[N].payload) = PartLen(l, z, N)
            /\ (N - 1) * z \in Nat /\ (N - 1) * z + PartLen(l, z, N) = l
            /\ PartLen(l, z, N) \in Nat
        BY <3>3, <3>7, <3>8, <4>1
      <4>3. bytes[l] = <<f, s + l - 1>>
        BY <3>4, <3>6
      <4> QED
        BY <3>4, <4>2, <4>3
    <3>13. Frames(c[1], c[2], frameSize) = frames /\ ChunkBytes(c[1], c[2]) = bytes /\ c[1] = f
      BY <3>2 DEF frames, bytes, z
    <3> QED
      BY <3>5, <3>6, <3>9, <3>10, <3>11, <3>12, <3>13 DEF offset
  <2> QED
    BY <2>1, <2>2 DEF LayoutTiles
<1>2. SendInv => Typed
  BY DEF SendInv
<1> QED
  BY <1>1, <1>2, SenderInit, SenderStep, PTL DEF Spec

-----------------------------------------------------------------------------
(* What is on the wire. *)

\* A whole frame: 32 bytes of header and as much payload as they announce, or
\* a header the receiver refuses.
GoodFrame ==
    {fr \in [bytes : Seq(U8), payload : Seq(Byte)] :
        /\ Len(fr.bytes) = 32
        /\ Decode(fr.bytes) # BadHeader => Len(fr.payload) = Decode(fr.bytes).length}

WireInv == wire \in Seq(GoodFrame)

LEMMA FramesGood ==
    ASSUME NEW f \in FileId, NEW i \in 0..Layout(f).count - 1, NEW z \in U32 \ {0}
    PROVE  Frames(f, i, z) \in Seq(GoodFrame)
<1> DEFINE frames == Frames(f, i, z)
           N == DivCeil(Length(f, i), z)
<1>1. /\ frames \in Seq([bytes : Seq(U8), payload : Seq(Byte)])
      /\ Len(frames) = N
      /\ \A n \in 1..N :
            /\ Carries(frames[n], f, Start(f, i) + (n - 1) * z, PartLen(Length(f, i), z, n))
            /\ Header("FileData", f, Start(f, i) + (n - 1) * z, PartLen(Length(f, i), z, n))
                  \in FrameHeader
  BY Framed
<1> HIDE DEF frames, N
<1>2. ASSUME NEW n \in 1..N PROVE frames[n] \in GoodFrame
  <2> DEFINE l == PartLen(Length(f, i), z, n)
             h == Header("FileData", f, Start(f, i) + (n - 1) * z, l)
  <2>1. frames[n] \in [bytes : Seq(U8), payload : Seq(Byte)]
        /\ frames[n].bytes = Encode(h) /\ Len(frames[n].payload) = l /\ h \in FrameHeader
    BY <1>1, <1>2 DEF Carries
  <2>2. h.length = l
    BY DEF Header
  <2> HIDE DEF h, l
  <2>3. Len(Encode(h)) = 32 /\ Decode(Encode(h)) \in {h, BadHeader}
    BY <2>1, EncodedType, DecodeEncode
  <2> QED
    BY <2>1, <2>2, <2>3 DEF GoodFrame
<1>3. N \in Nat /\ frames \in [1..N -> [bytes : Seq(U8), payload : Seq(Byte)]]
  BY <1>1, LenProperties
<1>4. frames \in [1..N -> GoodFrame]
  BY <1>2, <1>3
<1> QED
  BY <1>3, <1>4, FunctionIsSeq DEF frames

LEMMA WireInit == Init => WireInv
  BY EmptySeq DEF Init, WireInv

LEMMA WireStep == SendInv /\ WireInv /\ [Next]_vars => WireInv'
<1> SUFFICES ASSUME SendInv, WireInv, [Next]_vars PROVE WireInv'
  OBVIOUS
<1>1. CASE SendChunk
  <2>1. PICK c \in queue : wire' = wire \o Frames(c[1], c[2], frameSize)
    BY <1>1 DEF SendChunk
  <2>2. PICK f \in FileId : \E i \in 0..Layout(f).count - 1 : c = <<f, i>>
    BY IsChunk DEF SendInv, Typed
  <2>3. PICK i \in 0..Layout(f).count - 1 : c = <<f, i>>
    BY <2>2
  <2>4. frameSize \in U32 \ {0}
    BY StreamAssumption DEF SendInv, Typed
  <2>5. Frames(c[1], c[2], frameSize) \in Seq(GoodFrame)
    BY <2>3, <2>4, FramesGood
  <2> QED
    BY <2>1, <2>5, ConcatProperties DEF WireInv
<1>2. CASE WriteForeign
  <2>1. PICK fr \in Foreign : wire' = Append(wire, fr)
    BY <1>2 DEF WriteForeign
  <2>2. fr \in GoodFrame
    BY PeersAssumption DEF GoodFrame
  <2> QED
    BY <2>1, <2>2, AppendProperties DEF WireInv
<1>3. CASE Cut
  <2>1. PICK k \in 0..Len(wire) : wire' = SubSeq(wire, 1, k)
    BY <1>3 DEF Cut
  <2>2. Len(wire) \in Nat /\ \A i \in 1..Len(wire) : wire[i] \in GoodFrame
    BY LenProperties, ElementOfSeq DEF WireInv
  <2>3. k \in Int /\ 1 \in Int /\ \A i \in 1..k : wire[i] \in GoodFrame
    BY <2>2
  <2>4. SubSeq(wire, 1, k) \in Seq(GoodFrame)
    BY <2>3, SubSeqProperties
  <2> QED
    BY <2>1, <2>4 DEF WireInv
<1>4. CASE DrainKeepalive \/ DrainPart \/ DrainLast
  <2>1. wire # <<>> /\ wire' = Tail(wire)
    BY <1>4 DEF DrainKeepalive, DrainPart, DrainLast
  <2> QED
    BY <2>1, HeadTailProperties DEF WireInv
<1>5. CASE DrainRefused \/ DrainEof \/ UNCHANGED vars
  BY <1>5 DEF DrainRefused, DrainEof, vars, WireInv
<1>6. CASE RefuseBitmap \/ ScanChunk \/ QueueMissing \/ OpenStream \/ Shutdown
  BY <1>6 DEF RefuseBitmap, ScanChunk, QueueMissing, OpenStream, Shutdown, WireInv
<1> QED
  BY <1>1, <1>2, <1>3, <1>4, <1>5, <1>6 DEF Next, Sender, Drain

\* Every header on the wire that decodes is the encoding of what it decodes to.
THEOREM HeadersAreCanonical == Spec => []HeaderCanonical
<1>1. WireInv => HeaderCanonical
  <2> SUFFICES ASSUME WireInv, NEW k \in 1..Len(wire) PROVE Canonical(wire[k].bytes)
    BY DEF HeaderCanonical
  <2>1. wire[k] \in GoodFrame
    BY ElementOfSeq DEF WireInv
  <2>2. wire[k].bytes \in Seq(U8) /\ Len(wire[k].bytes) = 32
    BY <2>1 DEF GoodFrame
  <2> QED
    BY <2>2, Decoded
<1> QED
  BY <1>1, SenderInit, SenderStep, WireInit, WireStep, PTL DEF Spec

-----------------------------------------------------------------------------
(* The receiver. *)

\* A chunk of a file, as drain_stream keeps it.
Slot(c) ==
    /\ c \in [file : FileId, index : Nat, start : Nat, len : Nat]
    /\ c.index \in 0..Layout(c.file).count - 1
    /\ c.start = Start(c.file, c.index)
    /\ c.len = Length(c.file, c.index)

Stored ==
    /\ bitmap = [f \in FileId |-> bitmap[f]]
    /\ \A f \in FileId : Sound(bitmap[f], Layout(f).count)
    /\ disk = [f \in FileId |-> disk[f]]
    /\ \A f \in FileId : disk[f] = [p \in 0..FileSize[f] - 1 |-> disk[f][p]]

Buffered ==
    /\ buf \in Seq(Byte)
    /\ current = None => buf = <<>>
    /\ current # None => Slot(current) /\ Len(buf) < current.len

DrainInv ==
    /\ drain \in {"reading", "ended", "failed"}
    /\ Stored
    /\ Buffered
    /\ BitsMatchContent

\* A byte of a file is in the chunk index_of names, and in no other.
LEMMA IndexFacts ==
    ASSUME NEW f \in FileId, NEW p \in 0..FileSize[f] - 1
    PROVE  /\ IndexOf(Layout(f), p) \in 0..Layout(f).count - 1
           /\ \A i \in 0..Layout(f).count - 1 :
                 p \in Start(f, i)..(Start(f, i) + Length(f, i) - 1) <=> i = IndexOf(Layout(f), p)
<1>1. FileSize[f] \in Nat /\ ValidChunkSize(ChunkSize)
  BY FileFacts, StreamAssumption
<1> QED
  BY <1>1, IndexIsChunk DEF Layout, Start, Length

\* The chunk a header is put in.
LEMMA TargetFacts ==
    ASSUME Buffered, NEW h \in FrameHeader, h.file_id \in FileId, Target(h) # Err
    PROVE  /\ Slot(Target(h))
           /\ Target(h) # None
           /\ Len(buf) \in Nat
           /\ current # None => Target(h) = current
           /\ current = None => Target(h).file = h.file_id /\ Target(h).start = h.offset
<1>1. Len(buf) \in Nat
  BY LenProperties DEF Buffered
<1>2. CASE current # None
  BY <1>1, <1>2 DEF Target, Buffered
<1>3. CASE current = None
  <2> DEFINE f == h.file_id
             i == IndexOf(Layout(f), h.offset)
             r == ChunkRange(Layout(f), i)
  <2>1. f \in FileId /\ h.offset \in Nat
    BY Widths DEF FrameHeader, U64
  <2>2. i # Err /\ r[1] = h.offset
        /\ Target(h) = [file |-> f, index |-> i, start |-> h.offset, len |-> r[2]]
    BY <1>3 DEF Target
  <2>3. FileSize[f] \in Nat /\ Layout(f).file_size = FileSize[f]
    BY <2>1, FileFacts
  <2>4. h.offset \in 0..FileSize[f] - 1
    BY <2>1, <2>2, <2>3 DEF IndexOf
  <2>5. i \in 0..Layout(f).count - 1
    BY <2>1, <2>4, IndexFacts
  <2>6. r[1] = Start(f, i) /\ r[2] = Length(f, i) /\ Length(f, i) \in Nat
    BY <2>1, <2>5, ChunkFacts DEF Start, Length
  <2>7. i \in Nat
    BY <2>1, <2>5, FileFacts
  <2> HIDE DEF f, i, r
  <2>8. Target(h) \in [file : FileId, index : Nat, start : Nat, len : Nat]
    BY <2>1, <2>2, <2>6, <2>7
  <2>9. Slot(Target(h))
    BY <2>2, <2>5, <2>6, <2>8 DEF Slot
  <2>10. Target(h).file = h.file_id /\ Target(h).start = h.offset
    BY <2>2 DEF f
  <2> QED
    BY <1>1, <1>3, <2>8, <2>9, <2>10, NoneAssumption
<1> QED
  BY <1>2, <1>3

\* A frame the checks let through belongs to a chunk and fits in what is left
\* of it.
LEMMA AcceptedFacts ==
    ASSUME WireInv, Buffered, wire # <<>>, Accepted(NextHeader)
    PROVE  /\ NextHeader \in FrameHeader
           /\ Slot(Target(NextHeader)) /\ Target(NextHeader) # None
           /\ Target(NextHeader).file = NextHeader.file_id
           /\ NextHeader.offset = Target(NextHeader).start + Len(buf)
           /\ Len(buf) + NextHeader.length <= Target(NextHeader).len
           /\ Head(wire).payload \in Seq(Byte)
           /\ buf \o Head(wire).payload \in Seq(Byte)
           /\ Len(buf \o Head(wire).payload) = Len(buf) + NextHeader.length
           /\ Len(buf) \in Nat /\ NextHeader.length \in Nat
<1>1. Head(wire) \in GoodFrame
  BY HeadTailProperties DEF WireInv
<1>2. Head(wire).bytes \in Seq(U8) /\ Len(Head(wire).bytes) = 32 /\ Head(wire).payload \in Seq(Byte)
      /\ (NextHeader # BadHeader => Len(Head(wire).payload) = NextHeader.length)
  BY <1>1 DEF GoodFrame, NextHeader
<1>3. NextHeader # BadHeader /\ NextHeader.file_id \in FileId /\ Target(NextHeader) # Err
      /\ Fits(NextHeader, Target(NextHeader))
  BY DEF Accepted
<1>4. NextHeader \in FrameHeader
  BY <1>2, <1>3, Decoded DEF NextHeader
<1>5. Slot(Target(NextHeader)) /\ Target(NextHeader) # None /\ Len(buf) \in Nat
  BY <1>3, <1>4, TargetFacts
<1>6. NextHeader.length \in Nat
  BY <1>4, Widths DEF FrameHeader, U32
<1>7. buf \o Head(wire).payload \in Seq(Byte)
      /\ Len(buf \o Head(wire).payload) = Len(buf) + Len(Head(wire).payload)
  BY <1>2, ConcatProperties DEF Buffered
<1> QED
  BY <1>2, <1>3, <1>4, <1>5, <1>6, <1>7 DEF Fits

LEMMA DrainInit == Init => DrainInv
<1> SUFFICES ASSUME Init PROVE DrainInv
  OBVIOUS
<1>1. PICK have \in Have : bitmap = [f \in FileId |-> FromBytes(have[f], Layout(f).count)]
  BY DEF Init
<1>2. disk = [f \in FileId |-> [p \in 0..FileSize[f] - 1 |->
                  IF Get(bitmap[f], IndexOf(Layout(f), p)) THEN <<f, p>> ELSE None]]
      /\ drain = "reading" /\ current = None /\ buf = <<>>
  BY DEF Init
<1>3. Stored
  <2>1. bitmap = [f \in FileId |-> bitmap[f]]
    BY <1>1
  <2>2. \A f \in FileId : Sound(bitmap[f], Layout(f).count)
    BY <1>1, HaveSound
  <2>3. disk = [f \in FileId |-> disk[f]]
    BY <1>2
  <2>4. \A f \in FileId : disk[f] = [p \in 0..FileSize[f] - 1 |-> disk[f][p]]
    BY <1>2
  <2> QED
    BY <2>1, <2>2, <2>3, <2>4 DEF Stored
<1>4. Buffered
  BY <1>2, EmptySeq DEF Buffered
<1>5. BitsMatchContent
  BY <1>2 DEF BitsMatchContent
<1> QED
  BY <1>2, <1>3, <1>4, <1>5 DEF DrainInv

\* The bytes of a verified chunk and its bit.
LEMMA Written ==
    ASSUME Stored, BitsMatchContent, NEW c, Slot(c),
           disk' = [disk EXCEPT ![c.file] = [p \in DOMAIN @ |->
                       IF p \in c.start..c.start + c.len - 1
                       THEN ChunkBytes(c.file, c.index)[p - c.start + 1] ELSE @[p]]],
           bitmap' = [bitmap EXCEPT ![c.file] = Set(@, c.index)]
    PROVE  /\ Stored' /\ BitsMatchContent'
           /\ \A g \in FileId : g # c.file => bitmap'[g] = bitmap[g]
           /\ \A j \in 0..Layout(c.file).count - 1 :
                 Get(bitmap'[c.file], j) <=> j = c.index \/ Get(bitmap[c.file], j)
<1> DEFINE f == c.file  i == c.index  s == Start(f, i)  l == Length(f, i)  n == Layout(f).count
<1>1. f \in FileId /\ i \in 0..n - 1 /\ c.start = s /\ c.len = l /\ n \in Nat
      /\ FileSize[f] \in Nat
  BY FileFacts DEF Slot
<1>2. s \in Nat /\ l \in Nat /\ l > 0 /\ s + l <= FileSize[f]
  BY <1>1, ChunkFacts
<1>3. \A k \in 1..l : ChunkBytes(f, i)[k] = <<f, s + k - 1>>
  BY <1>1, ChunkBytesFacts
<1>4. Sound(bitmap[f], n) /\ bitmap'[f] = Set(bitmap[f], i)
      /\ bitmap' = [g \in FileId |-> bitmap'[g]]
      /\ \A g \in FileId : g # f => bitmap'[g] = bitmap[g]
  BY <1>1 DEF Stored
<1>5. Sound(bitmap'[f], n)
  BY <1>1, <1>4, SetSound
<1>6. \A j \in 0..n - 1 : Get(bitmap'[f], j) <=> j = i \/ Get(bitmap[f], j)
  <2>1. bitmap[f] \in BitmapOf(n)
    BY <1>4 DEF Sound
  <2> QED
    BY <1>1, <1>4, <2>1, BitmapSet
<1>7. /\ disk' = [g \in FileId |-> disk'[g]]
      /\ \A g \in FileId : g # f => disk'[g] = disk[g]
      /\ disk'[f] = [p \in DOMAIN disk[f] |->
                       IF p \in s..s + l - 1 THEN ChunkBytes(f, i)[p - s + 1] ELSE disk[f][p]]
  BY <1>1 DEF Stored
<1>8. DOMAIN disk[f] = 0..FileSize[f] - 1
  BY <1>1 DEF Stored
<1> HIDE DEF f, i, s, l, n
<1>9. \A p \in 0..FileSize[f] - 1 :
         disk'[f][p] = IF p \in s..s + l - 1 THEN <<f, p>> ELSE disk[f][p]
  <2> TAKE p \in 0..FileSize[f] - 1
  <2>1. disk'[f][p] = IF p \in s..s + l - 1 THEN ChunkBytes(f, i)[p - s + 1] ELSE disk[f][p]
    BY <1>7, <1>8
  <2>2. CASE p \in s..s + l - 1
    <3>1. p - s + 1 \in 1..l /\ s + (p - s + 1) - 1 = p
      BY <1>1, <1>2, <2>2
    <3>2. ChunkBytes(f, i)[p - s + 1] = <<f, s + (p - s + 1) - 1>>
      BY <1>3, <3>1
    <3> QED
      BY <2>1, <2>2, <3>1, <3>2
  <2> QED
    BY <2>1, <2>2
<1>10. Stored'
  <2>1. \A g \in FileId : disk'[g] = [p \in 0..FileSize[g] - 1 |-> disk'[g][p]]
    <3>1. disk'[f] = [p \in 0..FileSize[f] - 1 |-> disk'[f][p]]
      <4> DEFINE e(p) == IF p \in s..s + l - 1 THEN ChunkBytes(f, i)[p - s + 1] ELSE disk[f][p]
                 D == 0..FileSize[f] - 1
      <4>1. disk'[f] = [p \in D |-> e(p)]
        BY <1>7, <1>8
      <4> HIDE DEF e, D
      <4>2. disk'[f] = [p \in D |-> disk'[f][p]]
        BY <4>1
      <4> QED
        BY <4>2 DEF D
    <3>2. \A g \in FileId : g # f => disk'[g] = [p \in 0..FileSize[g] - 1 |-> disk'[g][p]]
      BY <1>7 DEF Stored
    <3> QED
      BY <3>1, <3>2
  <2>2. \A g \in FileId : Sound(bitmap'[g], Layout(g).count)
    BY <1>4, <1>5 DEF Stored, n
  <2> QED
    BY <1>4, <1>7, <2>1, <2>2 DEF Stored, Sound, BitmapOf, Unpadded
<1>11. BitsMatchContent'
  <2> SUFFICES ASSUME NEW g \in FileId, NEW p \in 0..FileSize[g] - 1,
                      Get(bitmap'[g], IndexOf(Layout(g), p))
               PROVE  disk'[g][p] = <<g, p>>
    BY DEF BitsMatchContent, Get
  <2>1. CASE g # f
    BY <1>4, <1>7, <2>1 DEF BitsMatchContent
  <2>2. CASE g = f
    <3> DEFINE j == IndexOf(Layout(f), p)
    <3>1. j \in 0..n - 1 /\ (p \in s..s + l - 1 <=> i = j)
      <4>1. p \in 0..FileSize[f] - 1
        BY <2>2
      <4> QED
        BY <1>1, <4>1, IndexFacts DEF s, l, n
    <3>2. j = i \/ Get(bitmap[f], j)
      BY <1>6, <2>2, <3>1
    <3>3. Get(bitmap[f], j) => disk[f][p] = <<f, p>>
      BY <1>1, <2>2 DEF BitsMatchContent
    <3> QED
      BY <1>9, <2>2, <3>1, <3>2, <3>3
  <2> QED
    BY <2>1, <2>2
<1> QED
  BY <1>4, <1>6, <1>10, <1>11 DEF f, i, n

LEMMA DrainLastStep == WireInv /\ DrainInv /\ DrainLast => DrainInv'
<1> SUFFICES ASSUME WireInv, DrainInv, DrainLast PROVE DrainInv'
  OBVIOUS
<1> DEFINE c == Target(NextHeader)
           bytes == buf \o Head(wire).payload
<1>1. wire # <<>> /\ Accepted(NextHeader)
      /\ IF Verified(c, bytes)
           THEN /\ disk' = [disk EXCEPT ![c.file] = [p \in DOMAIN @ |->
                      IF p \in c.start..c.start + c.len - 1
                      THEN bytes[p - c.start + 1] ELSE @[p]]]
                /\ bitmap' = [bitmap EXCEPT ![c.file] = Set(@, c.index)]
                /\ current' = None /\ buf' = <<>> /\ UNCHANGED drain
           ELSE drain' = "failed" /\ UNCHANGED <<current, buf, bitmap, disk>>
  BY DEF DrainLast, drainVars
<1>2. Slot(c)
  BY <1>1, AcceptedFacts DEF DrainInv
<1>3. CASE Verified(c, bytes)
  <2>1. bytes = ChunkBytes(c.file, c.index)
    BY <1>3 DEF Verified
  <2> HIDE DEF c, bytes
  <2>2. Stored' /\ BitsMatchContent'
    BY <1>1, <1>2, <1>3, <2>1, Written DEF DrainInv
  <2>3. Buffered'
    BY <1>1, <1>3, EmptySeq DEF Buffered
  <2> QED
    BY <1>1, <1>3, <2>2, <2>3 DEF DrainInv
<1>4. CASE ~Verified(c, bytes)
  <2> HIDE DEF c, bytes
  <2>1. drain' = "failed" /\ UNCHANGED <<current, buf, bitmap, disk>>
    BY <1>1, <1>4
  <2> QED
    BY <2>1 DEF DrainInv, Stored, Buffered, BitsMatchContent
<1> QED
  BY <1>3, <1>4

LEMMA DrainStep == WireInv /\ DrainInv /\ [Next]_vars => DrainInv'
<1> SUFFICES ASSUME WireInv, DrainInv, [Next]_vars PROVE DrainInv'
  OBVIOUS
<1>1. ASSUME drain' \in {"reading", "ended", "failed"}, UNCHANGED drainVars PROVE DrainInv'
  BY <1>1 DEF DrainInv, Stored, Buffered, BitsMatchContent, drainVars
<1>2. CASE RefuseBitmap \/ ScanChunk \/ QueueMissing \/ OpenStream \/ SendChunk \/ Shutdown
           \/ WriteForeign \/ Cut \/ DrainKeepalive \/ UNCHANGED vars
  <2>1. UNCHANGED <<drain, drainVars>>
    BY <1>2 DEF RefuseBitmap, ScanChunk, QueueMissing, OpenStream, SendChunk, Shutdown,
                WriteForeign, Cut, DrainKeepalive, vars
  <2> QED
    BY <1>1, <2>1 DEF DrainInv
<1>3. CASE DrainRefused
  BY <1>1, <1>3 DEF DrainRefused
<1>4. CASE DrainEof
  BY <1>1, <1>4 DEF DrainEof
<1>5. CASE DrainPart
  <2> DEFINE c == Target(NextHeader)
  <2>1. wire # <<>> /\ Accepted(NextHeader) /\ Len(buf) + NextHeader.length # c.len
        /\ current' = c /\ buf' = buf \o Head(wire).payload
        /\ UNCHANGED <<drain, bitmap, disk>>
    BY <1>5 DEF DrainPart
  <2>2. /\ Slot(c) /\ c # None
        /\ Len(buf) + NextHeader.length <= c.len
        /\ buf' \in Seq(Byte) /\ Len(buf') = Len(buf) + NextHeader.length
        /\ Len(buf) \in Nat /\ NextHeader.length \in Nat
    BY <2>1, AcceptedFacts DEF DrainInv
  <2> HIDE DEF c
  <2>3. Len(buf') < c.len
    <3>1. c.len \in Nat
      BY <2>2 DEF Slot
    <3>2. Len(buf) + NextHeader.length # c.len /\ Len(buf) + NextHeader.length \in Nat
          /\ Len(buf) + NextHeader.length <= c.len
      BY <2>1, <2>2
    <3>3. Len(buf') = Len(buf) + NextHeader.length
      BY <2>2
    <3> QED
      BY <3>1, <3>2, <3>3
  <2>4. Slot(current')
    BY <2>1, <2>2
  <2>5. Buffered'
    BY <2>1, <2>2, <2>3, <2>4 DEF Buffered, Slot
  <2>6. Stored' /\ BitsMatchContent'
    BY <2>1 DEF DrainInv, Stored, BitsMatchContent
  <2> QED
    BY <2>1, <2>5, <2>6 DEF DrainInv
<1>6. CASE DrainLast
  BY <1>6, DrainLastStep
<1> QED
  BY <1>2, <1>3, <1>4, <1>5, <1>6 DEF Next, Sender, Drain

\* All of it together.
StreamInv == SendInv /\ WireInv /\ DrainInv

THEOREM Inductive == Spec => []StreamInv
<1>1. Init => StreamInv
  BY SenderInit, WireInit, DrainInit DEF StreamInv
<1>2. StreamInv /\ [Next]_vars => StreamInv'
  BY SenderStep, WireStep, DrainStep DEF StreamInv
<1> QED
  BY <1>1, <1>2, PTL DEF Spec

\* Every variable keeps its type, and a bitmap's count never passes the number
\* of chunks.
THEOREM TypeCorrect == Spec => []TypeOK
<1>1. StreamInv => TypeOK
  <2> SUFFICES ASSUME StreamInv PROVE TypeOK
    OBVIOUS
  <2>1. \A f \in FileId : bitmap[f].set_count \in 0..Layout(f).count
    BY FileFacts, SoundCounted DEF StreamInv, DrainInv, Stored
  <2>2. scan.at \in Nat /\ scan.run \in Nat \cup {Err} /\ scan.ranges \in Seq(Nat \X Nat)
    BY DEF StreamInv, SendInv, Typed, Scans
  <2> QED
    BY <2>1, <2>2 DEF StreamInv, SendInv, Typed, DrainInv, TypeOK
<1> QED
  BY <1>1, Inductive, PTL

\* A bitmap's count is that of its bits, whatever frames arrive and how often.
THEOREM BitmapsCount == Spec => []BitmapExact
<1>1. StreamInv => BitmapExact
  BY FileFacts, SoundCounted DEF StreamInv, DrainInv, Stored, BitmapExact
<1> QED
  BY <1>1, Inductive, PTL

\* A set bit means the chunk's own bytes are in the staging file, for every
\* sequence of frames another build may write and every cut.
THEOREM BitsAreContent == Spec => []BitsMatchContent
<1>1. StreamInv => BitsMatchContent
  BY DEF StreamInv, DrainInv
<1> QED
  BY <1>1, Inductive, PTL

\* The chunk buffer stays shorter than its chunk, and that no longer than the
\* chunk size, whatever lengths a peer announces.
THEOREM BufferIsBounded == Spec => []BufferBounded
<1>1. StreamInv => BufferBounded
  <2> SUFFICES ASSUME Buffered, current # None
               PROVE  Len(buf) < current.len /\ current.len <= ChunkSize
    BY DEF StreamInv, DrainInv, BufferBounded
  <2>1. Slot(current) /\ Len(buf) < current.len
    BY DEF Buffered
  <2> QED
    BY <2>1, ChunkFacts DEF Slot
<1> QED
  BY <1>1, Inductive, PTL

-----------------------------------------------------------------------------
(* A sender and a receiver of this build, and no cut. *)

\* The chunk a frame is a part of, and the bytes of it the frame carries.
FileOf(fr) == Decode(fr.bytes).file_id
IndexIn(fr) == IndexOf(Layout(FileOf(fr)), Decode(fr.bytes).offset)
From(fr) == Decode(fr.bytes).offset - Start(FileOf(fr), IndexIn(fr))
To(fr) == From(fr) + Decode(fr.bytes).length
Final(fr) == To(fr) = Length(FileOf(fr), IndexIn(fr))

Piece(fr) ==
    /\ Decode(fr.bytes) \in FrameHeader /\ Decode(fr.bytes).type = "FileData"
    /\ FileOf(fr) \in FileId /\ IndexIn(fr) \in 0..Layout(FileOf(fr)).count - 1
    /\ From(fr) \in Nat /\ To(fr) \in Nat /\ From(fr) < To(fr)
    /\ To(fr) <= Length(FileOf(fr), IndexIn(fr))
    /\ fr.payload \in Seq(Byte) /\ Len(fr.payload) = To(fr) - From(fr)
    /\ \A k \in 1..Len(fr.payload) :
          fr.payload[k] = <<FileOf(fr), Start(FileOf(fr), IndexIn(fr)) + From(fr) + k - 1>>

\* A frame that goes on at a position of a chunk, and one that follows another.
GoesOn(f, i, p, fr) == FileOf(fr) = f /\ IndexIn(fr) = i /\ From(fr) = p
Follows(fr, gr) ==
    IF Final(fr) THEN From(gr) = 0 ELSE GoesOn(FileOf(fr), IndexIn(fr), To(fr), gr)

\* Frames on the wire are whole chunks in order, but for the one begun.
InOrder(w) ==
    /\ \A k \in 1..Len(w) : Piece(w[k])
    /\ \A k \in 1..Len(w) - 1 : Follows(w[k], w[k + 1])
    /\ w # <<>> => Final(w[Len(w)])

\* The receiver is where the wire goes on.
Aligned ==
    IF wire = <<>> THEN current = None
    ELSE IF current = None THEN From(wire[1]) = 0
    ELSE GoesOn(current.file, current.index, Len(buf), wire[1])

Own ==
    current # None =>
        \A k \in 1..Len(buf) : buf[k] = <<current.file, current.start + k - 1>>

OnWire(f, i) ==
    \E k \in 1..Len(wire) : Final(wire[k]) /\ FileOf(wire[k]) = f /\ IndexIn(wire[k]) = i

\* No chunk is forgotten.
Covered ==
    \A f \in FileId : \A i \in 0..Layout(f).count - 1 :
        Get(bitmap[f], i) \/ <<f, i>> \in queue \/ OnWire(f, i)

Faithful ==
    /\ send # "refused" /\ drain # "failed" /\ tail = "none"
    /\ send = "accept" =>
          wire = <<>> /\ drain = "reading" /\ \A f \in FileId : Had(f) = bitmap[f]
    /\ send # "accept" => Covered
    /\ InOrder(wire) /\ Aligned /\ Own
    /\ send = "closed" => queue = {}
    /\ drain = "ended" => wire = <<>> /\ send = "closed"

HonestInv == honest /\ frameSize <= MAX_FRAME_PAYLOAD => Faithful

LEMMA CarriesPiece ==
    ASSUME NEW f \in FileId, NEW i \in 0..Layout(f).count - 1, NEW a \in Nat, NEW l \in Nat,
           l > 0, a + l <= Length(f, i), l <= MAX_FRAME_PAYLOAD,
           NEW fr, Carries(fr, f, Start(f, i) + a, l),
           Header("FileData", f, Start(f, i) + a, l) \in FrameHeader
    PROVE  Piece(fr) /\ FileOf(fr) = f /\ IndexIn(fr) = i /\ From(fr) = a /\ To(fr) = a + l
<1> DEFINE h == Header("FileData", f, Start(f, i) + a, l)
<1>1. h.type = "FileData" /\ h.flags = 0 /\ h.file_id = f /\ h.offset = Start(f, i) + a
      /\ h.length = l
  BY DEF Header
<1>2. fr.bytes = Encode(h) /\ Len(fr.payload) = l /\ fr.payload \in Seq(Byte)
      /\ \A k \in 1..l : fr.payload[k] = <<f, Start(f, i) + a + k - 1>>
  BY DEF Carries
<1>3. h \in FrameHeader
  OBVIOUS
<1> HIDE DEF h
<1>4. Decode(fr.bytes) = h
  <2>1. h.type # "Keepalive"
    BY <1>1
  <2> QED
    BY <1>1, <1>2, <1>3, <2>1, DecodeEncode
<1>5. Start(f, i) \in Nat /\ Length(f, i) \in Nat /\ Start(f, i) + Length(f, i) <= FileSize[f]
      /\ FileSize[f] \in Nat
  BY ChunkFacts, FileFacts
<1>6. Start(f, i) + a \in 0..FileSize[f] - 1
      /\ Start(f, i) + a \in Start(f, i)..(Start(f, i) + Length(f, i) - 1)
  BY <1>5
<1>7. IndexOf(Layout(f), Start(f, i) + a) = i
  BY <1>6, IndexFacts
<1>8. FileOf(fr) = f
  BY <1>1, <1>4 DEF FileOf
<1>9. IndexIn(fr) = i
  BY <1>1, <1>4, <1>7, <1>8 DEF IndexIn
<1>10. From(fr) = a
  <2>1. From(fr) = (Start(f, i) + a) - Start(f, i)
    BY <1>1, <1>4, <1>8, <1>9 DEF From
  <2> QED
    BY <1>5, <2>1
<1>11. To(fr) = a + l
  BY <1>1, <1>4, <1>10 DEF To
<1>12. Piece(fr)
  <2>1. a < a + l /\ a + l \in Nat /\ (a + l) - a = l
    OBVIOUS
  <2> QED
    BY <1>1, <1>2, <1>3, <1>4, <1>8, <1>9, <1>10, <1>11, <2>1 DEF Piece
<1> QED
  BY <1>8, <1>9, <1>10, <1>11, <1>12

\* The frames of a chunk are its parts, in order, to the last.
LEMMA ChunkInOrder ==
    ASSUME NEW f \in FileId, NEW i \in 0..Layout(f).count - 1, NEW z \in U32 \ {0},
           z <= MAX_FRAME_PAYLOAD
    PROVE  /\ Len(Frames(f, i, z)) \in Nat \ {0}
           /\ InOrder(Frames(f, i, z))
           /\ From(Frames(f, i, z)[1]) = 0
           /\ \A n \in 1..Len(Frames(f, i, z)) :
                 /\ FileOf(Frames(f, i, z)[n]) = f
                 /\ IndexIn(Frames(f, i, z)[n]) = i
           /\ Final(Frames(f, i, z)[Len(Frames(f, i, z))])
<1> DEFINE frames == Frames(f, i, z)  s == Start(f, i)  l == Length(f, i)  N == DivCeil(l, z)
<1>1. z \in Nat \ {0} /\ MAX_FRAME_PAYLOAD \in Nat
  BY HeaderAssumption, Widths DEF U32
<1>2. s \in Nat /\ l \in Nat /\ l > 0
  BY ChunkFacts
<1>3. /\ Len(frames) = N
      /\ \A n \in 1..N :
            /\ Carries(frames[n], f, s + (n - 1) * z, PartLen(l, z, n))
            /\ Header("FileData", f, s + (n - 1) * z, PartLen(l, z, n)) \in FrameHeader
  BY Framed
<1>4. /\ N \in Nat \ {0}
      /\ \A n \in 1..N :
             /\ (n - 1) * z \in Nat /\ (n - 1) * z < l
             /\ PartLen(l, z, n) \in 1..z
             /\ (n - 1) * z + PartLen(l, z, n) <= l
             /\ n < N => PartLen(l, z, n) = z /\ (n - 1) * z + z = n * z
             /\ n = N => (n - 1) * z + PartLen(l, z, n) = l
  BY <1>1, <1>2, Parts
<1>5. ASSUME NEW n \in 1..N
      PROVE  /\ Piece(frames[n]) /\ FileOf(frames[n]) = f /\ IndexIn(frames[n]) = i
             /\ From(frames[n]) = (n - 1) * z
             /\ To(frames[n]) = (n - 1) * z + PartLen(l, z, n)
  <2> DEFINE a == (n - 1) * z  p == PartLen(l, z, n)
  <2>1. a \in Nat /\ p \in Nat /\ p > 0 /\ a + p <= l /\ p <= z
    BY <1>1, <1>4, <1>5
  <2>2. p <= MAX_FRAME_PAYLOAD
    <3> HIDE DEF p, a
    <3> QED
      BY <1>1, <2>1
  <2>3. Carries(frames[n], f, s + a, p) /\ Header("FileData", f, s + a, p) \in FrameHeader
    BY <1>3, <1>5
  <2> HIDE DEF a, p, frames
  <2>4. Piece(frames[n]) /\ FileOf(frames[n]) = f /\ IndexIn(frames[n]) = i
        /\ From(frames[n]) = a /\ To(frames[n]) = a + p
    BY <2>1, <2>2, <2>3, CarriesPiece
  <2> QED
    BY <2>4 DEF a, p
<1> HIDE DEF frames, s, l, N
<1>6. N \in 1..N /\ 1 \in 1..N
  BY <1>4
<1>7. Final(frames[N])
  BY <1>4, <1>5, <1>6 DEF Final, l
<1>8. From(frames[1]) = 0
  <2>1. From(frames[1]) = (1 - 1) * z
    BY <1>5, <1>6
  <2> QED
    BY <1>1, <2>1
<1>9. ASSUME NEW n \in 1..N - 1 PROVE Follows(frames[n], frames[n + 1])
  <2>1. n \in 1..N /\ n + 1 \in 1..N /\ n < N /\ (n + 1) - 1 = n
    BY <1>4
  <2>2. To(frames[n]) = n * z
    BY <1>4, <1>5, <2>1
  <2>3. From(frames[n + 1]) = n * z /\ n * z < l /\ n * z \in Nat
    BY <1>4, <1>5, <2>1
  <2>4. FileOf(frames[n]) = f /\ IndexIn(frames[n]) = i
        /\ FileOf(frames[n + 1]) = f /\ IndexIn(frames[n + 1]) = i
    BY <1>5, <2>1
  <2>5. ~Final(frames[n])
    BY <1>2, <2>2, <2>3, <2>4 DEF Final, l
  <2> QED
    BY <2>2, <2>3, <2>4, <2>5 DEF Follows, GoesOn
<1>10. InOrder(frames)
  BY <1>3, <1>5, <1>7, <1>9 DEF InOrder
<1> QED
  BY <1>3, <1>4, <1>5, <1>7, <1>8, <1>10 DEF frames

LEMMA OrderJoins ==
    ASSUME NEW S, NEW v \in Seq(S), NEW w \in Seq(S), InOrder(v), InOrder(w),
           w # <<>>, From(w[1]) = 0
    PROVE  /\ InOrder(v \o w) /\ v \o w # <<>>
           /\ v # <<>> => (v \o w)[1] = v[1]
           /\ v = <<>> => (v \o w)[1] = w[1]
<1> DEFINE u == v \o w  m == Len(v)  n == Len(w)
<1>1. m \in Nat /\ n \in Nat \ {0} /\ (v # <<>> <=> m # 0)
  <2>1. m \in Nat /\ n \in Nat /\ n # 0
    BY LenProperties, EmptySeq
  <2>2. v # <<>> <=> m # 0
    BY EmptySeq
  <2> QED
    BY <2>1, <2>2
<1>2. Len(u) = m + n /\ u \in Seq(S)
  BY ConcatProperties
<1>3. \A k \in 1..m + n : u[k] = IF k <= m THEN v[k] ELSE w[k - m]
  BY ConcatProperties, Zenon
<1>4. (\A k \in 1..m : Piece(v[k])) /\ (\A k \in 1..m - 1 : Follows(v[k], v[k + 1]))
      /\ (m # 0 => Final(v[m]))
      /\ (\A k \in 1..n : Piece(w[k])) /\ (\A k \in 1..n - 1 : Follows(w[k], w[k + 1]))
      /\ Final(w[n])
  BY <1>1 DEF InOrder
<1> HIDE DEF u, m, n
<1>5. \A k \in 1..m : u[k] = v[k]
  <2> TAKE k \in 1..m
  <2>1. k \in 1..m + n /\ k <= m
    BY <1>1
  <2> QED
    BY <1>3, <2>1
<1>6. \A k \in 1..n : u[m + k] = w[k]
  <2> TAKE k \in 1..n
  <2> DEFINE j == m + k
  <2>1. j \in 1..m + n /\ ~(j <= m) /\ j - m = k
    BY <1>1
  <2> HIDE DEF j
  <2>2. u[j] = w[j - m]
    BY <1>3, <2>1
  <2> QED
    BY <2>1, <2>2 DEF j
<1>7. ASSUME NEW k \in 1..m + n PROVE Piece(u[k])
  <2>1. k \in 1..m \/ \E j \in 1..n : k = m + j
    <3>1. k \in 1..m \/ (k - m \in 1..n /\ k = m + (k - m))
      BY <1>1
    <3> QED
      BY <3>1
  <2> QED
    BY <1>4, <1>5, <1>6, <2>1
<1>8. ASSUME NEW k \in 1..(m + n) - 1 PROVE Follows(u[k], u[k + 1])
  <2>1. CASE k < m
    <3>1. k \in 1..m - 1 /\ k \in 1..m /\ k + 1 \in 1..m
      BY <1>1, <2>1
    <3> QED
      BY <1>4, <1>5, <3>1
  <2>2. CASE k = m
    <3>1. m \in 1..m /\ 1 \in 1..n /\ m # 0
      BY <1>1, <2>2
    <3>2. u[k] = v[m] /\ u[k + 1] = w[1]
      BY <1>5, <1>6, <2>2, <3>1
    <3> QED
      BY <1>4, <3>1, <3>2 DEF Follows
  <2>3. CASE k > m
    <3> DEFINE j == k - m
    <3>1. j \in 1..n - 1 /\ j \in 1..n /\ j + 1 \in 1..n /\ k = m + j /\ k + 1 = m + (j + 1)
      BY <1>1, <2>3
    <3> HIDE DEF j
    <3>2. u[k] = w[j] /\ u[k + 1] = w[j + 1]
      BY <1>6, <3>1
    <3> QED
      BY <1>4, <3>1, <3>2
  <2> QED
    BY <1>1, <2>1, <2>2, <2>3
<1>9. Final(u[m + n])
  <2>1. n \in 1..n
    BY <1>1
  <2>2. u[m + n] = w[n]
    BY <1>6, <2>1
  <2> QED
    BY <1>4, <2>2
<1>10. InOrder(u)
  BY <1>2, <1>7, <1>8, <1>9 DEF InOrder
<1>11. m # 0 => u[1] = v[1]
  <2>1. m # 0 => 1 \in 1..m
    BY <1>1
  <2> QED
    BY <1>5, <2>1
<1>12. m = 0 => u[1] = w[1]
  <2>1. 1 \in 1..n /\ (m = 0 => m + 1 = 1)
    BY <1>1
  <2> QED
    BY <1>6, <2>1
<1>13. u # <<>>
  BY <1>1, <1>2, EmptySeq
<1> QED
  BY <1>1, <1>10, <1>11, <1>12, <1>13 DEF u

LEMMA OrderTail ==
    ASSUME NEW S, NEW w \in Seq(S), w # <<>>, InOrder(w)
    PROVE  /\ InOrder(Tail(w)) /\ Piece(Head(w)) /\ Head(w) = w[1]
           /\ Tail(w) # <<>> => Follows(w[1], Tail(w)[1])
           /\ Tail(w) = <<>> => Final(w[1])
           /\ Len(w) \in Nat \ {0} /\ Len(Tail(w)) = Len(w) - 1
           /\ \A k \in 1..Len(w) - 1 : Tail(w)[k] = w[k + 1]
<1> DEFINE t == Tail(w)  n == Len(w)
<1>1. t \in Seq(S) /\ Len(t) = n - 1 /\ n \in Nat \ {0} /\ Head(w) = w[1]
      /\ \A k \in 1..n - 1 : t[k] = w[k + 1]
  BY HeadTailProperties, EmptySeq
<1>2. t # <<>> <=> n - 1 # 0
  BY <1>1, EmptySeq
<1>3. /\ \A k \in 1..n : Piece(w[k])
      /\ \A k \in 1..n - 1 : Follows(w[k], w[k + 1])
      /\ Final(w[n])
  BY DEF InOrder
<1> HIDE DEF t, n
<1>4. \A k \in 1..n - 1 : Piece(t[k])
  <2> TAKE k \in 1..n - 1
  <2>1. k + 1 \in 1..n
    BY <1>1
  <2> QED
    BY <1>1, <1>3, <2>1
<1>5. \A k \in 1..(n - 1) - 1 : Follows(t[k], t[k + 1])
  <2> TAKE k \in 1..(n - 1) - 1
  <2>1. k \in 1..n - 1 /\ k + 1 \in 1..n - 1
    BY <1>1
  <2>2. t[k] = w[k + 1] /\ t[k + 1] = w[(k + 1) + 1]
    BY <1>1, <2>1
  <2> QED
    BY <1>3, <2>1, <2>2
<1>6. n - 1 # 0 => Final(t[n - 1])
  <2> HAVE n - 1 # 0
  <2>1. n - 1 \in 1..n - 1 /\ (n - 1) + 1 = n
    BY <1>1
  <2> QED
    BY <1>1, <1>3, <2>1
<1>7. InOrder(t)
  BY <1>1, <1>2, <1>4, <1>5, <1>6 DEF InOrder
<1>8. Piece(w[1]) /\ (n - 1 # 0 => Follows(w[1], t[1])) /\ (n - 1 = 0 => Final(w[1]))
  <2>1. 1 \in 1..n /\ (n - 1 # 0 => 1 \in 1..n - 1) /\ (n - 1 = 0 => n = 1)
    BY <1>1
  <2>2. n - 1 # 0 => t[1] = w[1 + 1]
    BY <1>1, <2>1
  <2> QED
    BY <1>3, <2>1, <2>2
<1> QED
  BY <1>1, <1>2, <1>7, <1>8 DEF t, n

LEMMA HonestInit == Init => HonestInv
<1> SUFFICES ASSUME Init, honest, frameSize <= MAX_FRAME_PAYLOAD PROVE Faithful
  BY DEF HonestInv
<1>1. PICK have \in Have : bitmap = [f \in FileId |-> FromBytes(have[f], Layout(f).count)]
  BY DEF Init
<1>2. \A f \in FileId : bitmap[f].bits = have[f] /\ have[f] \in Bitstring
  BY <1>1, HaveSound
<1>3. \E bytes \in Answers \cup {bitmap[0].bits} :
         /\ answer = [f \in FileId |-> IF f = 0 THEN bytes ELSE bitmap[f].bits]
         /\ honest = (bytes = bitmap[0].bits)
  BY DEF Init
<1>4. answer = [f \in FileId |-> bitmap[f].bits]
  BY <1>3
<1>5. ASSUME NEW f \in FileId PROVE Had(f) = bitmap[f]
  BY <1>1, <1>2, <1>4, <1>5, NoneAssumption DEF Had
<1>6. send = "accept" /\ wire = <<>> /\ tail = "none" /\ drain = "reading" /\ current = None
  BY DEF Init
<1>7. InOrder(wire) /\ Aligned /\ Own
  BY <1>6 DEF InOrder, Aligned, Own
<1> QED
  BY <1>5, <1>6, <1>7 DEF Faithful

\* The receiver takes the next frame, into the chunk it is a part of and right
\* behind what it has of it.
LEMMA HeadAccepted ==
    ASSUME Buffered, wire # <<>>, Head(wire) = wire[1], Piece(wire[1]), Aligned
    PROVE  /\ Accepted(NextHeader)
           /\ NextHeader.type # "Keepalive"
           /\ Target(NextHeader).file = FileOf(wire[1])
           /\ Target(NextHeader).index = IndexIn(wire[1])
           /\ Target(NextHeader).start = Start(FileOf(wire[1]), IndexIn(wire[1]))
           /\ Target(NextHeader).len = Length(FileOf(wire[1]), IndexIn(wire[1]))
           /\ Len(buf) = From(wire[1])
           /\ Len(buf) + NextHeader.length = To(wire[1])
<1> DEFINE fr == wire[1]  h == NextHeader  f == FileOf(fr)  i == IndexIn(fr)
<1>1. h = Decode(fr.bytes)
  BY DEF NextHeader
<1>2. h \in FrameHeader /\ h.type = "FileData" /\ f \in FileId /\ i \in 0..Layout(f).count - 1
      /\ From(fr) \in Nat /\ To(fr) \in Nat /\ From(fr) < To(fr) /\ To(fr) <= Length(f, i)
  BY <1>1 DEF Piece
<1>3. h # BadHeader
  BY <1>2, HeaderAssumption
<1>4. h.file_id = f /\ i = IndexOf(Layout(f), h.offset) /\ From(fr) = h.offset - Start(f, i)
      /\ To(fr) = From(fr) + h.length
  BY <1>1 DEF FileOf, IndexIn, From, To
<1>5. Start(f, i) \in Nat /\ Length(f, i) \in Nat /\ h.offset \in Nat /\ h.length \in Nat
  BY <1>2, ChunkFacts, Widths DEF FrameHeader, U64, U32
<1> HIDE DEF h, fr, f, i
<1>6. h.offset = Start(f, i) + From(fr)
  BY <1>2, <1>4, <1>5
<1>7. /\ Target(h) # Err /\ Target(h).file = f /\ Target(h).index = i
      /\ Target(h).start = Start(f, i) /\ Target(h).len = Length(f, i)
      /\ Len(buf) = From(fr)
  <2>1. CASE current = None
    <3>1. buf = <<>> /\ Len(buf) = 0 /\ From(fr) = 0
      BY <2>1, EmptySeq DEF Buffered, Aligned, fr
    <3>2. h.offset = Start(f, i)
      BY <1>5, <1>6, <3>1
    <3>3. i \in Nat /\ i # Err
      BY <1>2, FileFacts, NoneAssumption
    <3>4. Target(h) = [file |-> f, index |-> i, start |-> h.offset, len |-> Length(f, i)]
      BY <1>4, <2>1, <3>2, <3>3 DEF Target, Start, Length
    <3>5. Target(h) \in [file : FileId, index : Nat, start : Nat, len : Nat]
      BY <1>2, <1>5, <3>3, <3>4
    <3> QED
      BY <3>1, <3>2, <3>4, <3>5, NoneAssumption
  <2>2. CASE current # None
    <3>1. current.file = f /\ current.index = i /\ Len(buf) = From(fr)
      BY <2>2 DEF Aligned, GoesOn, fr, f, i
    <3>2. Slot(current)
      BY <2>2 DEF Buffered
    <3>3. Target(h) = current
      BY <2>2 DEF Target
    <3> QED
      BY <3>1, <3>2, <3>3, NoneAssumption DEF Slot
  <2> QED
    BY <2>1, <2>2
<1>8. Fits(h, Target(h))
  BY <1>2, <1>4, <1>6, <1>7 DEF Fits
<1>9. Accepted(h)
  BY <1>2, <1>3, <1>4, <1>7, <1>8 DEF Accepted
<1>10. h.type # "Keepalive"
  BY <1>2
<1> QED
  BY <1>4, <1>7, <1>9, <1>10 DEF h, fr, f, i

\* The bytes of the chunk up to the end of the next frame.
LEMMA JoinedOwn ==
    ASSUME Buffered, wire # <<>>, Head(wire) = wire[1], Piece(wire[1]), Aligned, Own
    PROVE  /\ buf \o Head(wire).payload \in Seq(Byte)
           /\ Len(buf \o Head(wire).payload) = To(wire[1])
           /\ \A k \in 1..To(wire[1]) : (buf \o Head(wire).payload)[k]
                 = <<FileOf(wire[1]), Start(FileOf(wire[1]), IndexIn(wire[1])) + k - 1>>
<1> DEFINE fr == wire[1]  f == FileOf(fr)  i == IndexIn(fr)  q == fr.payload  u == buf \o q
<1>1. /\ From(fr) \in Nat /\ To(fr) \in Nat /\ From(fr) < To(fr)
      /\ q \in Seq(Byte) /\ Len(q) = To(fr) - From(fr)
      /\ \A k \in 1..Len(q) : q[k] = <<f, Start(f, i) + From(fr) + k - 1>>
      /\ f \in FileId /\ i \in 0..Layout(f).count - 1
  BY DEF Piece
<1>2. Start(f, i) \in Nat
  BY <1>1, ChunkFacts
<1>3. Len(buf) = From(fr) /\ buf \in Seq(Byte)
  BY HeadAccepted DEF Buffered
<1>4. ASSUME NEW k \in 1..From(fr) PROVE buf[k] = <<f, Start(f, i) + k - 1>>
  <2>1. CASE current = None
    <3>1. Len(buf) = 0
      BY <2>1, EmptySeq DEF Buffered
    <3> QED
      BY <1>3, <3>1
  <2>2. CASE current # None
    <3>1. current.file = f /\ current.index = i
      BY <2>2 DEF Aligned, GoesOn
    <3>2. current.start = Start(f, i)
      BY <2>2, <3>1 DEF Buffered, Slot
    <3> QED
      BY <1>3, <2>2, <3>1, <3>2 DEF Own
  <2> QED
    BY <2>1, <2>2
<1>5. u \in Seq(Byte) /\ Len(u) = Len(buf) + Len(q)
  BY <1>1, <1>3, ConcatProperties
<1>6. \A k \in 1..Len(buf) + Len(q) : u[k] = IF k <= Len(buf) THEN buf[k] ELSE q[k - Len(buf)]
  BY <1>1, <1>3, ConcatProperties, Zenon
<1> HIDE DEF u, q, f, i, fr
<1>7. Len(buf) + Len(q) = To(fr)
  BY <1>1, <1>3
<1>8. ASSUME NEW k \in 1..To(fr) PROVE u[k] = <<f, Start(f, i) + k - 1>>
  <2>1. CASE k <= From(fr)
    <3>1. k \in 1..From(fr)
      BY <1>1, <2>1
    <3>2. u[k] = buf[k]
      BY <1>3, <1>6, <1>7, <2>1
    <3> QED
      BY <1>4, <3>1, <3>2
  <2>2. CASE ~(k <= From(fr))
    <3> DEFINE j == k - From(fr)
    <3>1. j \in 1..Len(q) /\ Start(f, i) + From(fr) + j - 1 = Start(f, i) + k - 1
      BY <1>1, <1>2, <2>2
    <3>2. u[k] = q[j]
      BY <1>3, <1>6, <1>7, <2>2
    <3> HIDE DEF j
    <3>3. q[j] = <<f, Start(f, i) + From(fr) + j - 1>>
      BY <1>1, <3>1
    <3> QED
      BY <3>1, <3>2, <3>3
  <2> QED
    BY <2>1, <2>2
<1> QED
  BY <1>5, <1>7, <1>8 DEF u, q, f, i, fr

\* A step of the sender's loop.
LEMMA HonestLoop ==
    ASSUME StreamInv, Faithful,
           RefuseBitmap \/ ScanChunk \/ QueueMissing \/ OpenStream \/ Shutdown
    PROVE  Faithful'
<1>1. UNCHANGED <<answer, wire, tail, drain, current, buf, bitmap>>
  BY DEF RefuseBitmap, ScanChunk, QueueMissing, OpenStream, Shutdown, drainVars
<1>2. InOrder(wire') /\ Aligned' /\ Own'
  <2>1. Aligned'
    BY <1>1 DEF Faithful, Aligned, GoesOn, FileOf, IndexIn, From
  <2>2. Own'
    BY <1>1 DEF Faithful, Own
  <2> QED
    BY <1>1, <2>1, <2>2 DEF Faithful
<1>3. \A f \in FileId : Had(f)' = Had(f)
  BY <1>1 DEF Had
<1>4. CASE RefuseBitmap
  <2>1. send = "accept" /\ file \in FileId /\ Had(file) = Err
    BY <1>4 DEF RefuseBitmap
  <2>2. bitmap[file] = Err /\ Sound(bitmap[file], Layout(file).count)
    BY <2>1 DEF Faithful, StreamInv, DrainInv, Stored
  <2> QED
    BY <2>2, NoneAssumption DEF Sound, BitmapOf
<1>5. CASE ScanChunk \/ QueueMissing
  <2>1. send = "accept" /\ send' = "accept"
    BY <1>5 DEF ScanChunk, QueueMissing
  <2> QED
    BY <1>1, <1>2, <1>3, <2>1 DEF Faithful, InOrder
<1>6. CASE OpenStream
  <2>1. send = "accept" /\ send' = "sending" /\ file \notin FileId /\ UNCHANGED queue
    BY <1>6 DEF OpenStream
  <2>2. queue = Missing(Cardinality(FileId))
    BY <2>1 DEF StreamInv, SendInv, QueueExact, Typed
  <2>3. Covered'
    <3> SUFFICES ASSUME NEW f \in FileId, NEW i \in 0..Layout(f).count - 1, ~Get(bitmap[f], i)
                 PROVE  <<f, i>> \in queue
      BY <1>1, <2>1 DEF Covered
    <3>1. <<f, i>> \in Chunks /\ f < Cardinality(FileId)
      BY IsChunk, FileIds
    <3>2. Had(f) = bitmap[f]
      BY <2>1 DEF Faithful
    <3> QED
      BY <2>2, <3>1, <3>2 DEF Missing
  <2> QED
    BY <1>1, <1>2, <2>1, <2>3 DEF Faithful, InOrder
<1>7. CASE Shutdown
  <2>1. send = "sending" /\ send' = "closed" /\ queue = {} /\ UNCHANGED queue
    BY <1>7 DEF Shutdown
  <2>2. Covered'
    BY <1>1, <2>1 DEF Faithful, Covered, OnWire
  <2> QED
    BY <1>1, <1>2, <2>1, <2>2 DEF Faithful, InOrder
<1> QED
  BY <1>4, <1>5, <1>6, <1>7

\* The frames of a chunk go on the wire behind whole chunks.
LEMMA HonestSend ==
    ASSUME StreamInv, Faithful, frameSize <= MAX_FRAME_PAYLOAD, SendChunk
    PROVE  Faithful'
<1>1. PICK c \in queue : wire' = wire \o Frames(c[1], c[2], frameSize) /\ queue' = queue \ {c}
  BY DEF SendChunk
<1>2. send = "sending" /\ UNCHANGED <<send, tail, drain, current, buf, bitmap>>
  BY DEF SendChunk, drainVars
<1>3. PICK f \in FileId : \E i \in 0..Layout(f).count - 1 : c = <<f, i>>
  BY IsChunk DEF StreamInv, SendInv, Typed
<1>4. PICK i \in 0..Layout(f).count - 1 : c = <<f, i>>
  BY <1>3
<1>5. frameSize \in U32 \ {0}
  BY StreamAssumption DEF StreamInv, SendInv, Typed
<1> DEFINE w == Frames(f, i, frameSize)  n == Len(w)  m == Len(wire)
<1>6. n \in Nat \ {0} /\ InOrder(w) /\ From(w[1]) = 0 /\ Final(w[n])
      /\ \A k \in 1..n : FileOf(w[k]) = f /\ IndexIn(w[k]) = i
  BY <1>5, ChunkInOrder
<1>7. w \in Seq(GoodFrame) /\ wire \in Seq(GoodFrame)
  BY <1>5, FramesGood DEF StreamInv, WireInv
<1>8. wire' = wire \o w
  BY <1>1, <1>4
<1> HIDE DEF w
<1>9. w # <<>>
  BY <1>6, <1>7, EmptySeq
<1>10. InOrder(wire') /\ wire' # <<>> /\ (wire # <<>> => wire'[1] = wire[1])
       /\ (wire = <<>> => wire'[1] = w[1])
  BY <1>6, <1>7, <1>8, <1>9, OrderJoins DEF Faithful
<1>11. m \in Nat /\ Len(wire') = m + n
       /\ \A k \in 1..m + n : wire'[k] = IF k <= m THEN wire[k] ELSE w[k - m]
  BY <1>7, <1>8, ConcatProperties, LenProperties
<1>12. Aligned'
  <2>1. CASE wire = <<>>
    <3>1. current = None /\ wire'[1] = w[1]
      BY <1>10, <2>1 DEF Faithful, Aligned
    <3> QED
      BY <1>2, <1>6, <1>10, <3>1 DEF Aligned, From, IndexIn, FileOf
  <2>2. CASE wire # <<>>
    <3>1. wire'[1] = wire[1]
      BY <1>10, <2>2
    <3> QED
      BY <1>2, <1>10, <2>2, <3>1 DEF Faithful, Aligned, GoesOn, From, IndexIn, FileOf
  <2> QED
    BY <2>1, <2>2
<1>13. Own'
  BY <1>2 DEF Faithful, Own
<1>14. Covered'
  <2> SUFFICES ASSUME NEW g \in FileId, NEW j \in 0..Layout(g).count - 1,
                      ~Get(bitmap[g], j), <<g, j>> \notin queue'
               PROVE  OnWire(g, j)'
    BY <1>2 DEF Covered
  <2>1. CASE g = f /\ j = i
    <3>1. m + n \in 1..m + n /\ ~(m + n <= m) /\ (m + n) - m = n /\ n \in 1..n
      BY <1>6, <1>11
    <3>2. wire'[m + n] = w[n]
      <4> DEFINE k == m + n
      <4>1. k \in 1..m + n /\ ~(k <= m) /\ k - m = n
        BY <3>1
      <4> HIDE DEF k
      <4>2. wire'[k] = w[k - m]
        BY <1>11, <4>1
      <4> QED
        BY <4>1, <4>2 DEF k
    <3>3. Final(wire'[m + n]) /\ FileOf(wire'[m + n]) = g /\ IndexIn(wire'[m + n]) = j
      BY <1>6, <2>1, <3>1, <3>2
    <3> QED
      BY <1>11, <3>1, <3>3 DEF OnWire, Final, FileOf, IndexIn, To, From
  <2>2. CASE ~(g = f /\ j = i)
    <3>1. <<g, j>> \notin queue
      BY <1>1, <1>4, <2>2
    <3>2. PICK k \in 1..m : Final(wire[k]) /\ FileOf(wire[k]) = g /\ IndexIn(wire[k]) = j
      BY <1>2, <3>1 DEF Faithful, Covered, OnWire
    <3>3. k \in 1..m + n /\ wire'[k] = wire[k]
      BY <1>6, <1>11, <3>2
    <3> QED
      BY <1>11, <3>2, <3>3 DEF OnWire, Final, FileOf, IndexIn, To, From
  <2> QED
    BY <2>1, <2>2
<1>15. drain # "ended"
  BY <1>2 DEF Faithful
<1> QED
  BY <1>2, <1>10, <1>12, <1>13, <1>14, <1>15 DEF Faithful, InOrder

\* A part of a chunk, with more of it behind.
LEMMA HonestPart ==
    ASSUME StreamInv, Faithful, DrainPart
    PROVE  Faithful'
<1> DEFINE fr == wire[1]  c == Target(NextHeader)  t == Tail(wire)
<1>1. wire # <<>> /\ drain = "reading" /\ Len(buf) + NextHeader.length # c.len
      /\ wire' = t /\ current' = c /\ buf' = buf \o Head(wire).payload
      /\ UNCHANGED <<drain, bitmap, send, queue, tail>>
  BY DEF DrainPart, sendVars
<1>2. wire \in Seq(GoodFrame) /\ Buffered /\ InOrder(wire) /\ Aligned /\ Own
  BY DEF StreamInv, WireInv, DrainInv, Faithful
<1>3. /\ InOrder(t) /\ Piece(fr) /\ Head(wire) = fr
      /\ t # <<>> => Follows(fr, t[1])
      /\ t = <<>> => Final(fr)
      /\ Len(wire) \in Nat \ {0} /\ Len(t) = Len(wire) - 1
      /\ \A k \in 1..Len(wire) - 1 : t[k] = wire[k + 1]
  BY <1>1, <1>2, OrderTail
<1>4. /\ Accepted(NextHeader)
      /\ c.file = FileOf(fr) /\ c.index = IndexIn(fr)
      /\ c.start = Start(FileOf(fr), IndexIn(fr)) /\ c.len = Length(FileOf(fr), IndexIn(fr))
      /\ Len(buf) + NextHeader.length = To(fr)
  BY <1>1, <1>2, <1>3, HeadAccepted
<1>5. c # None
  BY <1>1, <1>2, <1>4, AcceptedFacts DEF WireInv
<1>6. Len(buf') = To(fr)
      /\ \A k \in 1..To(fr) : buf'[k] = <<FileOf(fr), Start(FileOf(fr), IndexIn(fr)) + k - 1>>
  BY <1>1, <1>2, <1>3, JoinedOwn
<1>7. ~Final(fr)
  BY <1>1, <1>4 DEF Final
<1>8. t # <<>> /\ GoesOn(FileOf(fr), IndexIn(fr), To(fr), t[1])
  BY <1>3, <1>7 DEF Follows
<1> HIDE DEF c, t, fr
<1>9. Aligned'
  BY <1>1, <1>4, <1>5, <1>6, <1>8 DEF Aligned, GoesOn, FileOf, IndexIn, From
<1>10. Own'
  BY <1>1, <1>4, <1>5, <1>6 DEF Own
<1>11. send # "accept"
  BY <1>1 DEF Faithful
<1>12. Covered'
  <2> SUFFICES ASSUME NEW f \in FileId, NEW i \in 0..Layout(f).count - 1,
                      ~Get(bitmap[f], i), <<f, i>> \notin queue
               PROVE  OnWire(f, i)'
    BY <1>1 DEF Covered
  <2>1. PICK k \in 1..Len(wire) : Final(wire[k]) /\ FileOf(wire[k]) = f /\ IndexIn(wire[k]) = i
    BY <1>11 DEF Faithful, Covered, OnWire
  <2>2. k # 1
    BY <1>7, <2>1 DEF fr
  <2> DEFINE j == k - 1
  <2>3. j \in 1..Len(wire) - 1 /\ j + 1 = k
    BY <1>3, <2>2
  <2> HIDE DEF j
  <2>4. wire'[j] = wire[k] /\ j \in 1..Len(wire')
    BY <1>1, <1>3, <2>3
  <2> QED
    BY <2>1, <2>4 DEF OnWire, Final, FileOf, IndexIn, To, From
<1>13. InOrder(wire')
  BY <1>1, <1>3
<1> QED
  BY <1>1, <1>9, <1>10, <1>11, <1>12, <1>13 DEF Faithful, InOrder

\* The last part: the chunk is its own bytes and is written.
LEMMA HonestLast ==
    ASSUME StreamInv, Faithful, DrainLast
    PROVE  Faithful'
<1> DEFINE fr == wire[1]  c == Target(NextHeader)  t == Tail(wire)
           bytes == buf \o Head(wire).payload
           f == FileOf(fr)  i == IndexIn(fr)
<1>1. wire # <<>> /\ drain = "reading" /\ Len(buf) + NextHeader.length = c.len
      /\ wire' = t /\ UNCHANGED <<send, queue, tail>>
      /\ IF Verified(c, bytes)
           THEN /\ disk' = [disk EXCEPT ![c.file] = [p \in DOMAIN @ |->
                      IF p \in c.start..c.start + c.len - 1
                      THEN bytes[p - c.start + 1] ELSE @[p]]]
                /\ bitmap' = [bitmap EXCEPT ![c.file] = Set(@, c.index)]
                /\ current' = None /\ buf' = <<>> /\ UNCHANGED drain
           ELSE drain' = "failed" /\ UNCHANGED <<current, buf, bitmap, disk>>
  BY DEF DrainLast, drainVars, sendVars
<1>2. wire \in Seq(GoodFrame) /\ Buffered /\ InOrder(wire) /\ Aligned /\ Own
  BY DEF StreamInv, WireInv, DrainInv, Faithful
<1>3. /\ InOrder(t) /\ Piece(fr) /\ Head(wire) = fr
      /\ t # <<>> => Follows(fr, t[1])
      /\ Len(wire) \in Nat \ {0} /\ Len(t) = Len(wire) - 1
      /\ \A k \in 1..Len(wire) - 1 : t[k] = wire[k + 1]
  BY <1>1, <1>2, OrderTail
<1>4. /\ Accepted(NextHeader)
      /\ c.file = f /\ c.index = i /\ c.start = Start(f, i) /\ c.len = Length(f, i)
      /\ Len(buf) + NextHeader.length = To(fr)
  BY <1>1, <1>2, <1>3, HeadAccepted
<1>5. Slot(c)
  BY <1>1, <1>2, <1>4, AcceptedFacts DEF WireInv
<1>6. bytes \in Seq(Byte) /\ Len(bytes) = To(fr)
      /\ \A k \in 1..To(fr) : bytes[k] = <<f, Start(f, i) + k - 1>>
  BY <1>1, <1>2, <1>3, JoinedOwn
<1>7. Final(fr) /\ To(fr) = Length(f, i)
  BY <1>1, <1>4 DEF Final
<1>8. f \in FileId /\ i \in 0..Layout(f).count - 1
  BY <1>3 DEF Piece
<1>9. ChunkBytes(f, i) \in Seq(Byte) /\ Len(ChunkBytes(f, i)) = Length(f, i)
      /\ \A k \in 1..Length(f, i) : ChunkBytes(f, i)[k] = <<f, Start(f, i) + k - 1>>
  BY <1>8, ChunkBytesFacts
<1> HIDE DEF c, t, fr, bytes, f, i
<1>10. bytes = ChunkBytes(f, i)
  <2>1. Len(bytes) = Len(ChunkBytes(f, i)) /\ \A k \in 1..Len(bytes) : bytes[k] = ChunkBytes(f, i)[k]
    BY <1>6, <1>7, <1>9
  <2> QED
    BY <1>6, <1>9, <2>1, SeqEqual
<1>11. Verified(c, bytes)
  BY <1>4, <1>10 DEF Verified
<1>12. /\ disk' = [disk EXCEPT ![c.file] = [p \in DOMAIN @ |->
                     IF p \in c.start..c.start + c.len - 1
                     THEN ChunkBytes(c.file, c.index)[p - c.start + 1] ELSE @[p]]]
       /\ bitmap' = [bitmap EXCEPT ![c.file] = Set(@, c.index)]
       /\ current' = None /\ buf' = <<>> /\ UNCHANGED drain
  BY <1>1, <1>4, <1>10, <1>11
<1>13. /\ \A g \in FileId : g # f => bitmap'[g] = bitmap[g]
       /\ \A j \in 0..Layout(f).count - 1 :
             Get(bitmap'[f], j) <=> j = i \/ Get(bitmap[f], j)
  <2>1. Stored /\ BitsMatchContent
    BY DEF StreamInv, DrainInv
  <2>2. /\ \A g \in FileId : g # c.file => bitmap'[g] = bitmap[g]
        /\ \A j \in 0..Layout(c.file).count - 1 :
              Get(bitmap'[c.file], j) <=> j = c.index \/ Get(bitmap[c.file], j)
    BY <1>5, <1>12, <2>1, Written
  <2> QED
    BY <1>4, <2>2
<1>14. t # <<>> => From(t[1]) = 0
  BY <1>3, <1>7 DEF Follows
<1>15. Aligned'
  BY <1>1, <1>12, <1>14 DEF Aligned, From, IndexIn, FileOf
<1>16. Own'
  BY <1>12 DEF Own
<1>17. send # "accept"
  BY <1>1 DEF Faithful
<1>18. Covered'
  <2> SUFFICES ASSUME NEW g \in FileId, NEW j \in 0..Layout(g).count - 1,
                      ~Get(bitmap'[g], j), <<g, j>> \notin queue
               PROVE  OnWire(g, j)'
    BY <1>1 DEF Covered, Get
  <2>1. ~(g = f /\ j = i) /\ ~Get(bitmap[g], j)
    BY <1>8, <1>13
  <2>2. PICK k \in 1..Len(wire) : Final(wire[k]) /\ FileOf(wire[k]) = g /\ IndexIn(wire[k]) = j
    BY <1>17, <2>1 DEF Faithful, Covered, OnWire
  <2>3. k # 1
    BY <2>1, <2>2 DEF fr, f, i
  <2> DEFINE n == k - 1
  <2>4. n \in 1..Len(wire) - 1 /\ n + 1 = k
    BY <1>3, <2>3
  <2> HIDE DEF n
  <2>5. wire'[n] = wire[k] /\ n \in 1..Len(wire')
    BY <1>1, <1>3, <2>4
  <2> QED
    BY <2>2, <2>5 DEF OnWire, Final, FileOf, IndexIn, To, From
<1>19. InOrder(wire')
  BY <1>1, <1>3
<1> QED
  BY <1>1, <1>12, <1>15, <1>16, <1>17, <1>18, <1>19 DEF Faithful, InOrder

LEMMA HonestStep == StreamInv /\ HonestInv /\ [Next]_vars => HonestInv'
<1> SUFFICES ASSUME StreamInv, HonestInv, [Next]_vars, honest', frameSize' <= MAX_FRAME_PAYLOAD
             PROVE  Faithful'
  BY DEF HonestInv
<1>1. CASE WriteForeign \/ Cut
  BY <1>1 DEF WriteForeign, Cut
<1>2. CASE UNCHANGED vars
  <2>1. UNCHANGED <<answer, send, queue, wire, tail, honest, frameSize, drain, current, buf, bitmap>>
    BY <1>2 DEF vars, sendVars, drainVars
  <2>2. Faithful
    BY <2>1 DEF HonestInv
  <2>3. Aligned' /\ Own' /\ (Covered => Covered')
    BY <2>1, <2>2 DEF Faithful, Aligned, Own, Covered, OnWire
  <2> QED
    BY <2>1, <2>2, <2>3 DEF Faithful, InOrder, Had
<1>3. CASE Sender \/ Drain
  <2>1. honest /\ frameSize <= MAX_FRAME_PAYLOAD
    <3>1. UNCHANGED <<honest, frameSize>>
      BY <1>3 DEF Sender, RefuseBitmap, ScanChunk, QueueMissing, OpenStream, SendChunk, Shutdown,
                  Drain, DrainKeepalive, DrainRefused, DrainPart, DrainLast, DrainEof, sendVars
    <3> QED
      BY <3>1
  <2>2. Faithful
    BY <2>1 DEF HonestInv
  <2>3. CASE RefuseBitmap \/ ScanChunk \/ QueueMissing \/ OpenStream \/ Shutdown
    BY <2>2, <2>3, HonestLoop
  <2>4. CASE SendChunk
    BY <2>1, <2>2, <2>4, HonestSend
  <2>5. CASE DrainKeepalive \/ DrainRefused
    <3>1. wire # <<>> /\ (DrainKeepalive => NextHeader.type = "Keepalive")
          /\ (DrainRefused => ~Accepted(NextHeader))
      BY <2>5 DEF DrainKeepalive, DrainRefused
    <3>2. wire \in Seq(GoodFrame) /\ Buffered /\ InOrder(wire) /\ Aligned
      BY <2>2 DEF StreamInv, WireInv, DrainInv, Faithful
    <3>3. Piece(wire[1]) /\ Head(wire) = wire[1]
      BY <3>1, <3>2, OrderTail
    <3>4. Accepted(NextHeader) /\ NextHeader.type # "Keepalive"
      BY <3>1, <3>2, <3>3, HeadAccepted
    <3> QED
      BY <2>5, <3>1, <3>4
  <2>6. CASE DrainPart
    BY <2>2, <2>6, HonestPart
  <2>7. CASE DrainLast
    BY <2>2, <2>7, HonestLast
  <2>8. CASE DrainEof
    <3>1. wire = <<>> /\ send = "closed"
          /\ drain' = (IF tail = "payload" \/ current # None THEN "failed" ELSE "ended")
          /\ UNCHANGED <<answer, send, queue, wire, tail, current, buf, bitmap>>
      BY <2>8 DEF DrainEof, sendVars, drainVars
    <3>2. drain' = "ended"
      BY <2>2, <3>1 DEF Faithful, Aligned
    <3>3. Aligned' /\ Own' /\ Covered'
      BY <2>2, <3>1 DEF Faithful, Aligned, Own, Covered, OnWire
    <3> QED
      BY <2>2, <3>1, <3>2, <3>3 DEF Faithful, InOrder
  <2> QED
    BY <1>3, <2>3, <2>4, <2>5, <2>6, <2>7, <2>8 DEF Sender, Drain
<1> QED
  BY <1>1, <1>2, <1>3 DEF Next

\* What this sender writes this receiver takes: without a cut or a foreign
\* frame no frame is refused, and the stream ends with every chunk in place,
\* for every file, chunk size, starting bitmap and frame size within the limit.
THEOREM HonestStreamDelivers == Spec => []HonestDelivers
<1>1. StreamInv /\ HonestInv => HonestDelivers
  <2> SUFFICES ASSUME StreamInv, Faithful
               PROVE  /\ drain # "failed" /\ send # "refused"
                      /\ drain = "ended" => \A f \in FileId : IsComplete(bitmap[f])
    BY DEF HonestInv, HonestDelivers
  <2>1. ASSUME drain = "ended", NEW f \in FileId PROVE IsComplete(bitmap[f])
    <3> DEFINE n == Layout(f).count
    <3>1. wire = <<>> /\ send = "closed" /\ queue = {} /\ Covered
      BY <2>1 DEF Faithful
    <3>2. \A i \in 0..n - 1 : Get(bitmap[f], i)
      BY <3>1 DEF Covered, OnWire
    <3>3. n \in Nat /\ Sound(bitmap[f], n)
      BY FileFacts DEF StreamInv, DrainInv, Stored
    <3>4. Counted(bitmap[f]) /\ bitmap[f].count = n
      BY <3>3, SoundCounted, SoundHas
    <3> HIDE DEF n
    <3>5. Present(bitmap[f]) = 0..n - 1
      BY <3>2, <3>4 DEF Present
    <3>6. Cardinality(0..n - 1) = n
      BY <3>3, FS_Interval
    <3> QED
      BY <3>4, <3>5, <3>6 DEF Counted, IsComplete
  <2> QED
    BY <2>1 DEF Faithful
<1> QED
  BY <1>1, Inductive, HonestInit, HonestStep, PTL DEF Spec
=============================================================================
