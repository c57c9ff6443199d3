------------------------------- MODULE Frame -------------------------------
(***************************************************************************)
(* The frame header (frame.rs): fixed-width little-endian fields.  A byte  *)
(* is a number below Base (256 in the code), so the widths of the fields   *)
(* and their order are the code's and the value ranges scale with Base.    *)
(***************************************************************************)
EXTENDS Naturals, Sequences

CONSTANTS Base, MAGIC, PROTOCOL_VERSION, MAX_FRAME_PAYLOAD, BadHeader

\* The values of u8, u16, u32 and u64.
U8 == 0..Base - 1
U16 == 0..Base * Base - 1
U32 == 0..(Base * Base) * (Base * Base) - 1
U64 == 0..((Base * Base) * (Base * Base)) * ((Base * Base) * (Base * Base)) - 1

MsgTypes == <<"Control", "FileData", "FileEnd", "Keepalive">>

FrameHeader == [type : {MsgTypes[k] : k \in 1..4}, flags : U16, file_id : U64,
                offset : U64, length : U32]

ASSUME HeaderAssumption ==
    /\ Base \in Nat /\ Base > 3
    /\ MAGIC \in U16
    /\ PROTOCOL_VERSION \in U8
    /\ MAX_FRAME_PAYLOAD \in U32
    /\ BadHeader \notin FrameHeader

\* to_le_bytes of a u16, a u32 and a u64: the low half first.
ToLe2(n) == <<n % Base, n \div Base>>
ToLe4(n) == [k \in 1..4 |-> IF k < 3 THEN ToLe2(n % (Base * Base))[k]
                            ELSE ToLe2(n \div (Base * Base))[k - 2]]
ToLe8(n) == [k \in 1..8 |-> IF k < 5 THEN ToLe4(n % ((Base * Base) * (Base * Base)))[k]
                            ELSE ToLe4(n \div ((Base * Base) * (Base * Base)))[k - 4]]

\* from_le_bytes of the bytes of buf that begin at a position.
Le2(buf, at) == buf[at + 1] + buf[at + 2] * Base
Le4(buf, at) == Le2(buf, at) + Le2(buf, at + 2) * (Base * Base)
Le8(buf, at) == Le4(buf, at) + Le4(buf, at + 4) * ((Base * Base) * (Base * Base))

Code(type) == CHOOSE k \in 0..3 : MsgTypes[k + 1] = type

\* FrameHeader::encode
Encode(h) ==
    [p \in 1..32 |->
        CASE p \in 1..2 -> ToLe2(MAGIC)[p]
          [] p = 3 -> PROTOCOL_VERSION
          [] p = 4 -> Code(h.type)
          [] p \in 5..6 -> ToLe2(h.flags)[p - 4]
          [] p \in 7..8 -> ToLe2(0)[p - 6]
          [] p \in 9..16 -> ToLe8(h.file_id)[p - 8]
          [] p \in 17..24 -> ToLe8(h.offset)[p - 16]
          [] p \in 25..28 -> ToLe4(h.length)[p - 24]
          [] p \in 29..32 -> ToLe4(0)[p - 28]]

Header(type, id, offset, length) ==
    [type |-> type, flags |-> 0, file_id |-> id, offset |-> offset, length |-> length]

\* Mutant of Decode: the reserved fields are not looked at.
DecodeReserved(buf) ==
    IF \/ Len(buf) < 32
       \/ Le2(buf, 0) # MAGIC
       \/ buf[3] # PROTOCOL_VERSION
       \/ buf[4] > 3
       \/ Le2(buf, 4) > 1
       \/ Le4(buf, 24) > MAX_FRAME_PAYLOAD
       \/ MsgTypes[buf[4] + 1] = "Keepalive" /\ Le4(buf, 24) # 0
    THEN BadHeader
    ELSE [type |-> MsgTypes[buf[4] + 1], flags |-> Le2(buf, 4), file_id |-> Le8(buf, 8),
          offset |-> Le8(buf, 16), length |-> Le4(buf, 24)]

\* FrameHeader::decode: magic, version, message type, flags (END_OF_FILE is
\* the only known bit), reserved fields, length limit, empty keepalive.
Decode(buf) ==
    IF \/ Len(buf) < 32
       \/ Le2(buf, 0) # MAGIC
       \/ buf[3] # PROTOCOL_VERSION
       \/ buf[4] > 3
       \/ Le2(buf, 4) > 1
       \/ Le2(buf, 6) # 0
       \/ Le4(buf, 28) # 0
       \/ Le4(buf, 24) > MAX_FRAME_PAYLOAD
       \/ MsgTypes[buf[4] + 1] = "Keepalive" /\ Le4(buf, 24) # 0
    THEN BadHeader
    ELSE [type |-> MsgTypes[buf[4] + 1], flags |-> Le2(buf, 4), file_id |-> Le8(buf, 8),
          offset |-> Le8(buf, 16), length |-> Le4(buf, 24)]

-----------------------------------------------------------------------------
\* Reference: one byte string per header.  What decodes re-encodes to itself,
\* so no two byte strings mean the same frame.
Canonical(buf) == Decode(buf) # BadHeader => Encode(Decode(buf)) = buf
=============================================================================
