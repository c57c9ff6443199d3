------------------------- MODULE ChunkLayout_proofs -------------------------
(***************************************************************************)
(* Proofs about ChunkLayout, for every file size and every valid chunk     *)
(* size: how many chunks there are, how long each one is, and that they    *)
(* tile the file.  At the end, the least-number principle and induction    *)
(* over the naturals, stated with sets, for the modules that need them.    *)
(***************************************************************************)
EXTENDS ChunkLayout, FiniteSetTheorems, WellFoundedInduction, TLAPS

\* Division with remainder.
LEMMA Division ==
    ASSUME NEW a \in Nat, NEW b \in Nat \ {0}
    PROVE  /\ a \div b \in Nat
           /\ (a \div b) * b <= a
           /\ a < (a \div b) * b + b
  OBVIOUS

LEMMA Multiples ==
    ASSUME NEW i \in Nat, NEW j \in Nat, NEW b \in Nat, i <= j
    PROVE  i * b <= j * b
  OBVIOUS

\* Between two multiples there is no third.
LEMMA MultiplesApart ==
    ASSUME NEW i \in Nat, NEW j \in Nat, NEW b \in Nat, i < j
    PROVE  i * b + b <= j * b
<1>1. (i + 1) * b = i * b + b
  OBVIOUS
<1> QED
  BY <1>1, Multiples, i + 1 <= j

\* The number of chunks is the least that covers the file.
LEMMA Ceiling ==
    ASSUME NEW a \in Nat, NEW b \in Nat \ {0}
    PROVE  /\ DivCeil(a, b) \in Nat
           /\ a <= DivCeil(a, b) * b
           /\ \A i \in Nat : i < DivCeil(a, b) <=> i * b < a
<1> DEFINE n == a + b - 1
<1> DEFINE q == n \div b
<1>1. n \in Nat
  OBVIOUS
<1>2. q \in Nat /\ q * b <= n /\ n < q * b + b
  BY <1>1, Division
<1>3. q * b \in Nat
  BY <1>2
<1>4. a <= q * b
  BY <1>2, <1>3
<1>5. ASSUME NEW i \in Nat, i < q PROVE i * b < a
  <2>1. i * b + b <= q * b
    BY <1>2, <1>5, MultiplesApart
  <2>2. i * b \in Nat
    OBVIOUS
  <2> QED
    BY <1>2, <1>3, <2>1, <2>2
<1>6. ASSUME NEW i \in Nat, i * b < a PROVE i < q
  <2>1. q <= i => q * b <= i * b
    BY <1>2, Multiples
  <2>2. i * b \in Nat
    OBVIOUS
  <2> QED
    BY <1>2, <1>3, <1>4, <1>6, <2>1, <2>2
<1> QED
  BY <1>2, <1>4, <1>5, <1>6 DEF DivCeil

-----------------------------------------------------------------------------
\* What ChunkLayout::new, range and index_of return for a valid chunk size.
LEMMA Geometry ==
    ASSUME NEW size \in Nat, NEW cs, ValidChunkSize(cs), NEW l, l = NewLayout(size, cs)
    PROVE  /\ cs \in Nat \ {0}
           /\ l.file_size = size /\ l.chunk_size = cs /\ l.count = DivCeil(size, cs)
           /\ l.count \in Nat
           /\ \A i \in Nat : i < l.count <=> i * cs < size
           /\ \A i \in 0..l.count - 1 :
                 ChunkRange(l, i) = <<i * cs, AtMost(size - i * cs, cs)>>
<1>1. cs \in Nat \ {0}
  BY SizesAssumption DEF ValidChunkSize
<1>2. l = [file_size |-> size, chunk_size |-> cs, count |-> DivCeil(size, cs)]
  BY DEF NewLayout
<1>3. l.count \in Nat /\ \A i \in Nat : i < l.count <=> i * cs < size
  <2>1. l.count = DivCeil(size, cs)
    BY <1>2
  <2> QED
    BY <1>1, <2>1, Ceiling
<1>4. ASSUME NEW i \in 0..l.count - 1
      PROVE  ChunkRange(l, i) = <<i * cs, AtMost(size - i * cs, cs)>>
  BY <1>2, <1>3 DEF ChunkRange
<1> QED
  BY <1>1, <1>2, <1>3, <1>4

\* A chunk has at least one byte, at most chunk_size, and ends inside the file.
LEMMA ChunkLength ==
    ASSUME NEW size \in Nat, NEW cs, ValidChunkSize(cs), NEW l, l = NewLayout(size, cs),
           NEW i \in 0..l.count - 1
    PROVE  /\ ChunkRange(l, i)[1] = i * cs
           /\ i * cs \in Nat
           /\ ChunkRange(l, i)[2] \in 1..cs
           /\ i * cs + ChunkRange(l, i)[2] <= size
           /\ i * cs + ChunkRange(l, i)[2] = size \/ ChunkRange(l, i)[2] = cs
<1>1. /\ cs \in Nat \ {0}
      /\ l.count \in Nat
      /\ i * cs < size
      /\ ChunkRange(l, i) = <<i * cs, AtMost(size - i * cs, cs)>>
  BY Geometry
<1>2. i * cs \in Nat
  BY <1>1
<1> QED
  BY <1>1, <1>2 DEF AtMost

\* index_of names the chunk whose range a byte is in, and no other.
LEMMA IndexIsChunk ==
    ASSUME NEW size \in Nat, NEW cs, ValidChunkSize(cs), NEW l, l = NewLayout(size, cs),
           NEW b \in 0..size - 1
    PROVE  /\ IndexOf(l, b) \in 0..l.count - 1
           /\ \A i \in 0..l.count - 1 :
                 b \in ChunkRange(l, i)[1]..(ChunkRange(l, i)[1] + ChunkRange(l, i)[2] - 1)
                    <=> i = IndexOf(l, b)
<1> DEFINE q == b \div cs
<1>1. cs \in Nat \ {0} /\ l.file_size = size /\ l.chunk_size = cs /\ l.count \in Nat
  BY Geometry
<1>2. IndexOf(l, b) = q
  BY <1>1 DEF IndexOf
<1>3. q \in Nat /\ q * cs <= b /\ b < q * cs + cs
  BY <1>1, Division
<1>4. q * cs \in Nat
  BY <1>1, <1>3
<1>5. q < l.count
  BY <1>3, <1>4, Geometry
<1>6. ASSUME NEW i \in 0..l.count - 1
      PROVE  b \in ChunkRange(l, i)[1]..(ChunkRange(l, i)[1] + ChunkRange(l, i)[2] - 1)
                <=> i = q
  <2> DEFINE n == ChunkRange(l, i)[2]
  <2>1. ChunkRange(l, i)[1] = i * cs /\ i * cs \in Nat /\ n \in 1..cs /\ i \in Nat
        /\ (i * cs + n = size \/ n = cs)
    BY <1>1, ChunkLength
  <2>2. CASE i = q
    <3>1. b < i * cs + n
      BY <1>1, <1>3, <1>4, <2>1, <2>2
    <3> QED
      BY <1>3, <2>1, <2>2, <3>1
  <2>3. CASE i < q
    <3>1. i * cs + cs <= q * cs
      BY <1>1, <1>3, <2>1, <2>3, MultiplesApart
    <3> HIDE DEF q, n
    <3>2. i * cs + n <= b
      BY <1>1, <1>3, <1>4, <2>1, <3>1
    <3> QED
      BY <1>1, <2>1, <2>3, <3>2 DEF n
  <2>4. CASE q < i
    <3>1. q * cs + cs <= i * cs
      BY <1>1, <1>3, <2>1, <2>4, MultiplesApart
    <3> HIDE DEF q, n
    <3>2. b < i * cs
      BY <1>1, <1>3, <1>4, <2>1, <3>1
    <3> QED
      BY <1>1, <1>3, <2>1, <2>4, <3>2
  <2>5. i = q \/ i < q \/ q < i
    BY <1>3, <2>1
  <2> QED
    BY <2>2, <2>3, <2>4, <2>5
<1> QED
  BY <1>1, <1>2, <1>3, <1>5, <1>6

\* Every layout ChunkLayout::new validates cuts its file into consecutive
\* runs: each byte is in one chunk, which index_of names, no chunk is empty or
\* leaves the file, and both lookups refuse what is past the end.
THEOREM LayoutsTile ==
    \A size \in Nat : \A cs : ValidChunkSize(cs) => Tiles(NewLayout(size, cs))
<1> SUFFICES ASSUME NEW size \in Nat, NEW cs, ValidChunkSize(cs)
             PROVE  Tiles(NewLayout(size, cs))
  OBVIOUS
<1> DEFINE l == NewLayout(size, cs)
<1> DEFINE covers(i) ==
        ChunkRange(l, i)[1]..(ChunkRange(l, i)[1] + ChunkRange(l, i)[2] - 1)
<1>1. l.file_size = size /\ l.count \in Nat
  BY Geometry
<1>2. ASSUME NEW b \in 0..l.file_size - 1
      PROVE  {i \in 0..l.count - 1 : b \in covers(i)} = {IndexOf(l, b)}
  <2>1. IndexOf(l, b) \in 0..l.count - 1
        /\ \A i \in 0..l.count - 1 : b \in covers(i) <=> i = IndexOf(l, b)
    BY <1>1, IndexIsChunk
  <2> HIDE DEF covers, l
  <2> QED
    BY <2>1
<1>3. ASSUME NEW i \in 0..l.count - 1
      PROVE  covers(i) # {} /\ covers(i) \subseteq 0..l.file_size - 1
  <2> DEFINE n == ChunkRange(l, i)[2]
  <2>1. ChunkRange(l, i)[1] = i * cs /\ i * cs \in Nat /\ n \in 1..cs /\ i * cs + n <= size
        /\ cs \in Nat
    BY ChunkLength, Geometry
  <2> HIDE DEF n, l
  <2>2. i * cs \in i * cs..(i * cs + n - 1)
    BY <2>1
  <2>3. i * cs..(i * cs + n - 1) \subseteq 0..size - 1
    BY <2>1
  <2> QED
    BY <1>1, <2>1, <2>2, <2>3 DEF n
<1>4. ChunkRange(l, l.count) = Err
  BY <1>1 DEF ChunkRange
<1>5. IndexOf(l, l.file_size) = Err
  BY <1>1 DEF IndexOf
<1> QED
  BY <1>2, <1>3, <1>4, <1>5 DEF Tiles

-----------------------------------------------------------------------------
\* What a function on a finite set reaches is finite.
LEMMA ImageFinite ==
    ASSUME NEW S, IsFiniteSet(S), NEW T, NEW g \in [S -> T], \A t \in T : \E x \in S : g[x] = t
    PROVE  IsFiniteSet(T)
<1>1. g \in Surjection(S, T)
  BY DEF Surjection
<1> QED
  BY <1>1, FS_Surjection
-----------------------------------------------------------------------------
(* Induction over the naturals, stated with sets. *)

\* A set of naturals that is not empty has a least element.
LEMMA LeastNatural ==
    ASSUME NEW T, T \subseteq Nat, T # {}
    PROVE  \E x \in T : \A y \in T : x <= y
<1> DEFINE R == {ss \in Nat \X Nat : ss[1] < ss[2]}
<1>1. IsWellFoundedOn(R, Nat)
  BY NatLessThanWellFounded DEF OpToRel
<1>2. \E x \in T : \A y \in T : <<y, x>> \notin R
  <2> HIDE DEF R
  <2> QED
    BY <1>1, WFMin
<1>3. \A x \in T : \A y \in T : <<y, x>> \notin R => x <= y
  OBVIOUS
<1> QED
  BY <1>2, <1>3

\* Induction over the naturals, for a set instead of a predicate.
LEMMA SetInduction ==
    ASSUME NEW G, 0 \in G, \A n \in Nat : n \in G => n + 1 \in G
    PROVE  Nat \subseteq G
<1> DEFINE B == Nat \ G
<1> SUFFICES ASSUME B # {} PROVE FALSE
  OBVIOUS
<1>1. PICK x \in B : \A y \in B : x <= y
  <2>1. B \subseteq Nat
    OBVIOUS
  <2> HIDE DEF B
  <2> QED
    BY <2>1, LeastNatural
<1>2. x \in Nat /\ x # 0
  OBVIOUS
<1>3. x - 1 \in Nat /\ ~(x <= x - 1)
  BY <1>2
<1>4. x - 1 \in G
  BY <1>1, <1>3
<1>5. (x - 1) + 1 \in G
  BY <1>3, <1>4
<1> QED
  BY <1>2, <1>5
=============================================================================
