---------------------------- MODULE ChunkLayout ----------------------------
(***************************************************************************)
(* Chunk geometry of one file (chunk.rs).  A layout is the record the      *)
(* constructor validates; Err stands for every error an operation returns. *)
(***************************************************************************)
EXTENDS Naturals

CONSTANTS MIN_CHUNK_SIZE, MAX_CHUNK_SIZE, Err

ASSUME SizesAssumption ==
    /\ MIN_CHUNK_SIZE \in Nat \ {0}
    /\ MAX_CHUNK_SIZE \in Nat

AtMost(a, b) == IF a < b THEN a ELSE b

DivCeil(a, b) == (a + b - 1) \div b

IsPowerOfTwo(n) == \E k \in 0..n : 2^k = n

ValidChunkSize(cs) ==
    /\ cs \in MIN_CHUNK_SIZE..MAX_CHUNK_SIZE
    /\ IsPowerOfTwo(cs)

\* ChunkLayout::new
NewLayout(size, cs) ==
    IF ValidChunkSize(cs)
    THEN [file_size |-> size, chunk_size |-> cs, count |-> DivCeil(size, cs)]
    ELSE Err

\* Mutant of ChunkRange: the last chunk is not cut at the end of the file.
ChunkRangeWhole(l, i) == IF i >= l.count THEN Err ELSE <<i * l.chunk_size, l.chunk_size>>

\* ChunkLayout::range: offset and length of chunk i.
ChunkRange(l, i) ==
    IF i >= l.count THEN Err
    ELSE LET offset == i * l.chunk_size
         IN  <<offset, AtMost(l.file_size - offset, l.chunk_size)>>

\* ChunkLayout::index_of
IndexOf(l, offset) ==
    IF offset >= l.file_size THEN Err ELSE offset \div l.chunk_size

-----------------------------------------------------------------------------
\* Reference: the chunks of a layout cut the file's bytes into consecutive
\* runs, and index_of names the run a byte is in.
Tiles(l) ==
    LET covers(i) == ChunkRange(l, i)[1]..(ChunkRange(l, i)[1] + ChunkRange(l, i)[2] - 1)
    IN  /\ \A b \in 0..l.file_size - 1 :
              {i \in 0..l.count - 1 : b \in covers(i)} = {IndexOf(l, b)}
        /\ \A i \in 0..l.count - 1 :
              /\ covers(i) # {}
              /\ covers(i) \subseteq 0..l.file_size - 1
        /\ ChunkRange(l, l.count) = Err
        /\ IndexOf(l, l.file_size) = Err
=============================================================================
