---------------------------- MODULE ChunkBitmap ----------------------------
(***************************************************************************)
(* The resume bitmap (bitmap.rs): one bit per chunk, least significant bit *)
(* first in each byte, with the number of set bits kept beside it.         *)
(***************************************************************************)
EXTENDS Naturals, Sequences, FiniteSets, ChunkLayout

Bits == 8

BitSet(byte, k) == (byte \div 2^k) % 2 = 1

\* ChunkBitmap::new
NewBitmap(count) ==
    [bits |-> [b \in 1..DivCeil(count, Bits) |-> 0], count |-> count, set_count |-> 0]

Ones(bytes) ==
    Cardinality({p \in (1..Len(bytes)) \X (0..Bits - 1) : BitSet(bytes[p[1]], p[2])})

\* ChunkBitmap::from_bytes: refuses a wrong length, and a set bit among the
\* top bits of the last byte that stand for no chunk.
FromBytes(bytes, count) ==
    LET expected == DivCeil(count, Bits)
        trailing == expected * Bits - count
        padded == \E k \in Bits - trailing .. Bits - 1 : BitSet(bytes[expected], k)
    IN  IF Len(bytes) # expected THEN Err
        ELSE IF trailing > 0 /\ bytes # <<>> /\ padded THEN Err
        ELSE [bits |-> bytes, count |-> count, set_count |-> Ones(bytes)]

\* ChunkBitmap::get
Get(m, i) == IF i >= m.count THEN Err ELSE BitSet(m.bits[i \div Bits + 1], i % Bits)

\* Mutant of Set: the count goes up for a bit that was set already.
SetCounting(m, i) ==
    IF i >= m.count THEN Err
    ELSE [m EXCEPT !.bits[i \div Bits + 1] =
                        IF BitSet(@, i % Bits) THEN @ ELSE @ + 2^(i % Bits),
                   !.set_count = @ + 1]

\* ChunkBitmap::set: idempotent.
Set(m, i) ==
    IF i >= m.count THEN Err
    ELSE IF Get(m, i) THEN m
    ELSE [m EXCEPT !.bits[i \div Bits + 1] = @ + 2^(i % Bits), !.set_count = @ + 1]

IsComplete(m) == m.set_count = m.count

\* ChunkBitmap::missing_ranges as the state of its loop: the next chunk, the
\* start of the open run (Err: no run is open) and the ranges found so far,
\* half-open.
NewScan == [at |-> 0, run |-> Err, ranges |-> <<>>]

\* One pass of the loop: a clear bit opens a run, a set bit closes it.
ScanBit(s, present) ==
    IF ~present /\ s.run = Err THEN [s EXCEPT !.at = @ + 1, !.run = s.at]
    ELSE IF present /\ s.run # Err
    THEN [s EXCEPT !.at = @ + 1, !.run = Err, !.ranges = Append(@, <<s.run, s.at>>)]
    ELSE [s EXCEPT !.at = @ + 1]

\* Mutant of Scanned: a run that reaches the end is not closed.
ScannedOpen(s, count) == s.ranges

\* After the loop: a run that reaches the end is closed there.
Scanned(s, count) ==
    IF s.run = Err THEN s.ranges ELSE Append(s.ranges, <<s.run, count>>)

\* Mutant of InRanges: the ranges are taken as closed.
InRangesClosed(ranges) == UNION {ranges[k][1]..ranges[k][2] : k \in 1..Len(ranges)}

\* The chunks of a list of half-open ranges.
InRanges(ranges) == UNION {ranges[k][1]..ranges[k][2] - 1 : k \in 1..Len(ranges)}

-----------------------------------------------------------------------------
\* Reference definitions: the bitmap as the set of chunks it has.
Present(m) == {i \in 0..m.count - 1 : Get(m, i)}

\* The count beside the bits is theirs, and no bit stands for no chunk.
Counted(m) == m.set_count = Cardinality(Present(m)) /\ Ones(m.bits) = m.set_count

\* Ranges that are not empty, in ascending order and not adjacent: as few as
\* possible.
Coalesced(ranges) ==
    /\ \A k \in 1..Len(ranges) : ranges[k][1] < ranges[k][2]
    /\ \A k \in 1..Len(ranges) - 1 : ranges[k][2] < ranges[k + 1][1]
=============================================================================
