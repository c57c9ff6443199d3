------------------------- MODULE PageRelease_proofs -------------------------
(***************************************************************************)
(* Proofs about PageRelease, for every number of workers, every file,      *)
(* chunk and page size and every batch.                                    *)
(*                                                                         *)
(* The argument: the release point never passes a chunk that is in flight  *)
(* or still queued (Behind), which holds because the queue is in order, so *)
(* that everything dispatched lies below everything queued (Ordered), and  *)
(* because a worker's chunk is registered while it is borrowed (Held).     *)
(* Every range handed out and every page dropped lies below that point.    *)
(***************************************************************************)
EXTENDS PageRelease, TLAPS

Busy(w) == pc[w] \in {"sending", "finish"}

\* Dispatch follows the queue's order.
Ordered ==
    /\ \A c \in queue : nextDispatch <= c
    /\ \A c \in inFlight \cup touched : c < nextDispatch

\* A chunk being sent is registered, by one worker only.
Held ==
    /\ \A w \in Worker : Busy(w) => item[w] \in inFlight
    /\ \A w, x \in Worker : Busy(w) /\ Busy(x) /\ item[w] = item[x] => w = x

\* The release point is behind every chunk in flight and the dispatch point.
Behind ==
    /\ \A c \in inFlight : releasedTo <= Start(c)
    /\ releasedTo <= Start(nextDispatch)

\* What has been, or is about to be, dropped lies below the release point.
Below ==
    /\ \A w \in Worker : Releasing(w) => range[w].to <= releasedTo
    /\ \A p \in dropped : (p + 1) * PageSize <= releasedTo

\* The release point is a chunk boundary or the end of the file.
Aligned == releasedTo = FileSize \/ \E k \in Nat : releasedTo = Start(k)

IInv == TypeOK /\ Ordered /\ Held /\ Behind /\ Below /\ Aligned /\ Footprint /\ Reclaimed

-----------------------------------------------------------------------------
(* Arithmetic of chunks. *)

LEMMA Mult ==
    ASSUME NEW a \in Nat, NEW b \in Nat, NEW n \in Nat, a <= b
    PROVE  a * n <= b * n
  OBVIOUS

\* Multiples of a positive number keep their order.
LEMMA MultLess ==
    ASSUME NEW a \in Nat, NEW b \in Nat, NEW n \in Nat, a * n < b * n
    PROVE  a < b
<1>1. SUFFICES ASSUME b <= a PROVE FALSE
  OBVIOUS
<1>2. b * n <= a * n
  BY <1>1, Mult
<1> QED
  BY <1>2

LEMMA ChunkNat == Chunk \subseteq Nat
  BY SizesAssumption DEF Chunk

\* Chunk offsets are naturals and ordered as the chunks are.
LEMMA StartNat == \A c \in Nat : Start(c) \in Nat
  BY SizesAssumption DEF Start

LEMMA StartOrder == \A c, d \in Nat : c <= d => Start(c) <= Start(d)
  BY SizesAssumption, Mult DEF Start

\* A chunk ends inside the file, and where the next one starts at the latest.
LEMMA EndBound ==
    \A c \in Nat : End(c) \in Nat /\ End(c) <= FileSize /\ End(c) <= Start(c + 1)
  BY SizesAssumption, StartNat DEF End, Start

LEMMA EndOrder ==
    ASSUME NEW c \in Nat, NEW d \in Nat, c < d
    PROVE  End(c) <= ReleasePoint(d)
<1>1. End(c) \in Nat /\ End(c) <= FileSize /\ End(c) <= Start(c + 1)
  BY EndBound
<1>2. Start(c + 1) <= Start(d) /\ Start(c + 1) \in Nat /\ Start(d) \in Nat
  BY StartOrder, StartNat
<1> QED
  BY <1>1, <1>2, SizesAssumption DEF ReleasePoint

LEMMA PointBound ==
    \A b \in Nat : ReleasePoint(b) \in 0..FileSize /\ ReleasePoint(b) <= Start(b)
  BY SizesAssumption, StartNat DEF ReleasePoint

LEMMA BatchPositive == Batch \in Nat \ {0}
  BY SizesAssumption DEF Batch

\* A page inside one chunk is not cut by a chunk boundary.
LEMMA NotCut ==
    ASSUME NEW p \in Nat, NEW c \in Nat, NEW r \in Nat,
           r = FileSize \/ \E k \in Nat : r = Start(k),
           Start(c) <= p * PageSize, (p + 1) * PageSize <= End(c),
           r < (p + 1) * PageSize
    PROVE  r <= p * PageSize
<1> USE SizesAssumption
<1>1. (p + 1) * PageSize \in Nat /\ p * PageSize \in Nat
  OBVIOUS
<1>2. End(c) \in Nat /\ End(c) <= FileSize /\ End(c) <= Start(c + 1)
  BY EndBound
<1>3. PICK k \in Nat : r = Start(k)
  BY <1>1, <1>2
<1>4. Start(k) < Start(c + 1) /\ Start(k) \in Nat /\ Start(c + 1) \in Nat
  BY <1>1, <1>2, <1>3, StartNat
<1>5. k < c + 1
  BY <1>4, MultLess DEF Start
<1>6. Start(k) <= Start(c) /\ Start(c) \in Nat
  BY <1>5, StartOrder, StartNat
<1> QED
  BY <1>1, <1>3, <1>4, <1>6

-----------------------------------------------------------------------------
(* Type correctness. *)

LEMMA TypeInit == Init => TypeOK
  BY SizesAssumption DEF Init, TypeOK, Range

LEMMA TypePop ==
    ASSUME TypeOK, NEW w \in Worker, Pop(w)
    PROVE  TypeOK'
<1>1. PICK c \in queue :
         /\ queue' = queue \ {c}
         /\ Begin(c)
         /\ item' = [item EXCEPT ![w] = c]
         /\ pc' = [pc EXCEPT ![w] = "sending"]
         /\ touched' = touched \cup {c}
         /\ UNCHANGED <<releasedTo, range, dropped>>
  BY DEF Pop
<1>2. c \in Chunk /\ c \in Nat
  BY ChunkNat DEF TypeOK
<1> QED
  BY <1>1, <1>2 DEF TypeOK, Begin

\* What ReadCursor::finish computes.
LEMMA FinishFacts ==
    ASSUME TypeOK, NEW w \in Worker, Finish(w)
    PROVE  \E b \in Nat :
             /\ b \in (inFlight \ {item[w]}) \cup {nextDispatch}
             /\ ReleasePoint(b) \in 0..FileSize
             /\ ReleasePoint(b) <= Start(b)
             /\ Start(b) \in Nat
             /\ pc[w] = "finish"
             /\ Boundary(b, inFlight \ {item[w]})
             /\ inFlight' = inFlight \ {item[w]}
             /\ \/ /\ ReleasePoint(b) - releasedTo >= Batch
                   /\ range' = [range EXCEPT ![w] = [from |-> releasedTo, to |-> ReleasePoint(b)]]
                   /\ releasedTo' = ReleasePoint(b)
                   /\ pc' = [pc EXCEPT ![w] = "release"]
                \/ /\ ReleasePoint(b) - releasedTo < Batch
                   /\ pc' = [pc EXCEPT ![w] = "pop"]
                   /\ UNCHANGED <<range, releasedTo>>
             /\ UNCHANGED <<queue, nextDispatch, item, dropped, touched>>
<1>1. PICK b \in (inFlight \ {item[w]}) \cup {nextDispatch} :
         /\ pc[w] = "finish"
         /\ Boundary(b, inFlight \ {item[w]})
         /\ inFlight' = inFlight \ {item[w]}
         /\ IF Due(ReleasePoint(b))
              THEN /\ range' = [range EXCEPT ![w] = [from |-> releasedTo, to |-> ReleasePoint(b)]]
                   /\ releasedTo' = ReleasePoint(b)
                   /\ pc' = [pc EXCEPT ![w] = "release"]
              ELSE /\ pc' = [pc EXCEPT ![w] = "pop"]
                   /\ UNCHANGED <<range, releasedTo>>
         /\ UNCHANGED <<queue, nextDispatch, item, dropped, touched>>
  BY DEF Finish
<1>2. b \in Nat
  BY <1>1, ChunkNat DEF TypeOK
<1>3. ReleasePoint(b) \in 0..FileSize /\ ReleasePoint(b) <= Start(b) /\ Start(b) \in Nat
  BY <1>2, PointBound, StartNat
<1>4. ReleasePoint(b) - releasedTo >= Batch \/ ReleasePoint(b) - releasedTo < Batch
  BY <1>3, BatchPositive, SizesAssumption DEF TypeOK
<1>5. CASE Due(ReleasePoint(b))
  BY <1>1, <1>2, <1>3, <1>5 DEF Due
<1>6. CASE ~ Due(ReleasePoint(b))
  <2>1. ReleasePoint(b) - releasedTo < Batch
    BY <1>4, <1>6 DEF Due
  <2> QED
    BY <1>1, <1>2, <1>3, <1>6, <2>1
<1> QED
  BY <1>5, <1>6

LEMMA TypeNext == TypeOK /\ [Next]_vars => TypeOK'
<1> SUFFICES ASSUME TypeOK, [Next]_vars PROVE TypeOK'
  OBVIOUS
<1>1. CASE UNCHANGED vars
  BY <1>1 DEF TypeOK, vars
<1>2. CASE Next
  <2> PICK w \in Worker : Step(w)
    BY <1>2 DEF Next
  <2>1. CASE Pop(w)
    BY <2>1, TypePop
  <2>2. CASE QueueEmpty(w)
    BY <2>2 DEF QueueEmpty, TypeOK
  <2>3. CASE Sent(w)
    BY <2>3 DEF Sent, TypeOK
  <2>4. CASE SendFails(w)
    BY <2>4 DEF SendFails, TypeOK
  <2>5. CASE Finish(w)
    <3>1. PICK b \in Nat :
             /\ ReleasePoint(b) \in 0..FileSize
             /\ inFlight' = inFlight \ {item[w]}
             /\ \/ /\ range' = [range EXCEPT ![w] = [from |-> releasedTo, to |-> ReleasePoint(b)]]
                   /\ releasedTo' = ReleasePoint(b)
                   /\ pc' = [pc EXCEPT ![w] = "release"]
                \/ /\ pc' = [pc EXCEPT ![w] = "pop"]
                   /\ UNCHANGED <<range, releasedTo>>
             /\ UNCHANGED <<queue, nextDispatch, item, dropped, touched>>
      BY <2>5, FinishFacts
    <3>2. [from |-> releasedTo, to |-> ReleasePoint(b)] \in Range
      BY <3>1 DEF Range, TypeOK
    <3>3. range' \in [Worker -> Range]
      BY <3>1, <3>2 DEF TypeOK
    <3> QED
      BY <3>1, <3>3 DEF TypeOK
  <2>6. CASE Release(w)
    <3>1. WholePages(range[w]) \subseteq Nat
      BY SizesAssumption DEF WholePages
    <3> QED
      BY <2>6, <3>1 DEF Release, TypeOK
  <2>7. CASE Close(w)
    BY <2>7 DEF Close, TypeOK
  <2> QED
    BY <2>1, <2>2, <2>3, <2>4, <2>5, <2>6, <2>7 DEF Step
<1> QED
  BY <1>1, <1>2

\* The release point and every range stay inside the file, and only chunks
\* of the file are ever queued, registered or read.
THEOREM TypeCorrect == Spec => []TypeOK
  BY TypeInit, TypeNext, PTL DEF Spec

-----------------------------------------------------------------------------
(* The steps that leave the cursor alone: only pc changes, and only between *)
(* places where the invariant asks less.                                    *)

LEMMA QuietStep ==
    ASSUME IInv, TypeOK', NEW w \in Worker, NEW label,
           label \in {"closing", "finish", "failed", "ended"},
           label = "finish" => pc[w] = "sending",
           pc[w] # "release",
           pc' = [pc EXCEPT ![w] = label],
           UNCHANGED <<queue, inFlight, nextDispatch, releasedTo, item, range, dropped, touched>>
    PROVE  IInv'
<1> USE DEF IInv
<1>1. Ordered'
  BY DEF Ordered
<1>2. Held'
  BY DEF Held, Busy, TypeOK
<1>3. Behind'
  BY DEF Behind, Start
<1>4. Below'
  BY DEF Below, Releasing, TypeOK
<1>5. Aligned'
  BY DEF Aligned, Start
<1>6. Footprint'
  BY DEF Footprint, End, Batch
<1>7. Reclaimed'
  BY DEF Reclaimed, Releasing, TypeOK, WholePages, Chunk, Start, End
<1> QED
  BY <1>1, <1>2, <1>3, <1>4, <1>5, <1>6, <1>7

LEMMA PopStep ==
    ASSUME IInv, TypeOK', NEW w \in Worker, Pop(w)
    PROVE  IInv'
<1> USE DEF IInv
<1>1. PICK c \in queue :
         /\ pc[w] = "pop"
         /\ First(c, queue)
         /\ queue' = queue \ {c}
         /\ Begin(c)
         /\ item' = [item EXCEPT ![w] = c]
         /\ pc' = [pc EXCEPT ![w] = "sending"]
         /\ touched' = touched \cup {c}
         /\ UNCHANGED <<releasedTo, range, dropped>>
  BY DEF Pop
<1>2. c \in Nat /\ nextDispatch \in Nat /\ nextDispatch <= c /\ c \notin inFlight
  BY ChunkNat DEF TypeOK, Ordered
<1>3. nextDispatch' = c + 1 /\ inFlight' = inFlight \cup {c}
  BY <1>1, <1>2 DEF Begin
<1>4. queue \subseteq Nat /\ inFlight \subseteq Nat /\ touched \subseteq Nat
  BY ChunkNat DEF TypeOK
<1>5. Ordered'
  BY <1>1, <1>2, <1>3, <1>4 DEF Ordered, First
<1>6. Held'
  BY <1>1, <1>2, <1>3 DEF Held, Busy, TypeOK
<1>7. Behind'
  <2>1. Start(nextDispatch) <= Start(c) /\ Start(c) <= Start(c + 1)
    BY <1>2, StartOrder
  <2>2. Start(nextDispatch) \in Nat /\ Start(c) \in Nat /\ Start(c + 1) \in Nat
    BY <1>2, StartNat
  <2>3. releasedTo <= Start(c) /\ releasedTo <= Start(c + 1)
    BY <2>1, <2>2, SizesAssumption DEF Behind, TypeOK
  <2> QED
    BY <1>1, <1>3, <2>3 DEF Behind
<1>8. Below'
  BY <1>1 DEF Below, Releasing, TypeOK
<1>9. Aligned'
  BY <1>1 DEF Aligned
<1>10. Footprint'
  BY <1>1, <1>2, <1>3, <1>4 DEF Footprint
<1>11. Reclaimed'
  BY <1>1 DEF Reclaimed, Releasing, TypeOK
<1> QED
  BY <1>5, <1>6, <1>7, <1>8, <1>9, <1>10, <1>11

LEMMA FinishStep ==
    ASSUME IInv, TypeOK', NEW w \in Worker, Finish(w)
    PROVE  IInv'
<1> USE DEF IInv
<1> DEFINE flight == inFlight \ {item[w]}
<1>1. PICK b \in Nat :
         /\ b \in flight \cup {nextDispatch}
         /\ ReleasePoint(b) \in 0..FileSize
         /\ ReleasePoint(b) <= Start(b)
         /\ Start(b) \in Nat
         /\ pc[w] = "finish"
         /\ Boundary(b, flight)
         /\ inFlight' = flight
         /\ \/ /\ ReleasePoint(b) - releasedTo >= Batch
               /\ range' = [range EXCEPT ![w] = [from |-> releasedTo, to |-> ReleasePoint(b)]]
               /\ releasedTo' = ReleasePoint(b)
               /\ pc' = [pc EXCEPT ![w] = "release"]
            \/ /\ ReleasePoint(b) - releasedTo < Batch
               /\ pc' = [pc EXCEPT ![w] = "pop"]
               /\ UNCHANGED <<range, releasedTo>>
         /\ UNCHANGED <<queue, nextDispatch, item, dropped, touched>>
  BY FinishFacts
<1>2. inFlight \subseteq Nat /\ touched \subseteq Nat /\ nextDispatch \in Nat
      /\ releasedTo \in Nat /\ Batch \in Nat \ {0}
  BY ChunkNat, BatchPositive, SizesAssumption DEF TypeOK
<1>3. /\ \A c \in flight \cup {nextDispatch} : b <= c
      /\ \A c \in touched : (\A d \in flight : c < d) => c < b
  BY <1>1, <1>2 DEF Boundary, First, Ordered
<1>4. releasedTo <= releasedTo' /\ releasedTo' \in Nat
  BY <1>1, <1>2
<1>5. Ordered'
  BY <1>1 DEF Ordered
<1>6. Held'
  BY <1>1 DEF Held, Busy, TypeOK
<1>7. Behind'
  <2>1. ASSUME NEW c \in flight \cup {nextDispatch} PROVE releasedTo' <= Start(c)
    <3>1. Start(b) <= Start(c) /\ Start(c) \in Nat
      BY <1>2, <1>3, StartOrder, StartNat
    <3>2. releasedTo <= Start(c)
      BY DEF Behind
    <3> QED
      BY <1>1, <1>2, <3>1, <3>2
  <2> QED
    BY <1>1, <2>1 DEF Behind
<1>8. Below'
  <2>1. \A x \in Worker : Releasing(x)' => range'[x].to <= releasedTo'
    BY <1>1, <1>2, <1>4, SizesAssumption DEF Below, Releasing, TypeOK, Range
  <2>2. \A p \in dropped' : (p + 1) * PageSize <= releasedTo'
    <3> SUFFICES ASSUME NEW p \in dropped PROVE (p + 1) * PageSize <= releasedTo'
      BY <1>1
    <3>1. (p + 1) * PageSize \in Nat
      BY SizesAssumption DEF TypeOK
    <3> QED
      BY <1>2, <1>4, <3>1 DEF Below
  <2> QED
    BY <2>1, <2>2 DEF Below
<1>9. Aligned'
  <2>1. ReleasePoint(b) = FileSize \/ ReleasePoint(b) = Start(b)
    BY DEF ReleasePoint
  <2> QED
    BY <1>1, <2>1 DEF Aligned
<1>10. Footprint'
  <2> SUFFICES ASSUME NEW c \in touched, \A d \in flight : c < d
               PROVE  End(c) - releasedTo' < Batch
    BY <1>1 DEF Footprint
  <2>1. End(c) <= ReleasePoint(b) /\ End(c) \in Nat
    BY <1>2, <1>3, EndOrder, EndBound
  <2> QED
    BY <1>1, <1>2, <2>1, SizesAssumption
<1>11. Reclaimed'
  <2>1. CASE UNCHANGED <<range, releasedTo>>
    BY <1>1, <2>1 DEF Reclaimed, Releasing, TypeOK
  <2>2. CASE /\ range' = [range EXCEPT ![w] = [from |-> releasedTo, to |-> ReleasePoint(b)]]
             /\ releasedTo' = ReleasePoint(b)
             /\ pc' = [pc EXCEPT ![w] = "release"]
    <3> SUFFICES ASSUME NEW p \in 0..FileSize, NEW c \in Chunk,
                        (p + 1) * PageSize <= ReleasePoint(b),
                        Start(c) <= p * PageSize, (p + 1) * PageSize <= End(c)
                 PROVE  \/ p \in dropped
                        \/ \E x \in Worker : Releasing(x)' /\ p \in WholePages(range'[x])
      BY <1>1, <2>2 DEF Reclaimed
    <3>1. p \in Nat /\ c \in Nat /\ (p + 1) * PageSize \in Nat /\ p * PageSize \in Nat
      BY ChunkNat, SizesAssumption
    <3>2. CASE (p + 1) * PageSize <= releasedTo
      <4>1. p \in dropped \/ \E x \in Worker : Releasing(x) /\ p \in WholePages(range[x])
        BY <3>2 DEF Reclaimed
      <4>2. \A x \in Worker : Releasing(x) => Releasing(x)' /\ range'[x] = range[x]
        BY <1>1, <2>2 DEF Releasing, TypeOK
      <4> QED
        BY <4>1, <4>2
    <3>3. CASE releasedTo < (p + 1) * PageSize
      <4>1. releasedTo <= p * PageSize
        BY <1>2, <3>1, <3>3, NotCut DEF Aligned
      <4>2. Releasing(w)' /\ range'[w] = [from |-> releasedTo, to |-> ReleasePoint(b)]
        BY <2>2 DEF Releasing, TypeOK
      <4>3. p \in WholePages(range'[w])
        BY <4>1, <4>2 DEF WholePages
      <4> QED
        BY <4>2, <4>3
    <3> QED
      BY <1>2, <3>1, <3>2, <3>3
  <2> QED
    BY <1>1, <2>1, <2>2
<1> QED
  BY <1>5, <1>6, <1>7, <1>8, <1>9, <1>10, <1>11

LEMMA ReleaseStep ==
    ASSUME IInv, TypeOK', NEW w \in Worker, Release(w)
    PROVE  IInv'
<1> USE DEF IInv
<1>1. /\ pc[w] = "release"
      /\ dropped' = dropped \cup WholePages(range[w])
      /\ pc' = [pc EXCEPT ![w] = "pop"]
      /\ UNCHANGED <<queue, inFlight, nextDispatch, releasedTo, item, range, touched>>
  BY DEF Release
<1>2. Ordered' /\ Behind' /\ Aligned' /\ Footprint'
  BY <1>1 DEF Ordered, Behind, Aligned, Footprint
<1>3. Held'
  BY <1>1 DEF Held, Busy, TypeOK
<1>4. Below'
  <2>1. \A x \in Worker : Releasing(x)' => range'[x].to <= releasedTo'
    BY <1>1 DEF Below, Releasing, TypeOK
  <2>2. ASSUME NEW p \in WholePages(range[w]) PROVE (p + 1) * PageSize <= releasedTo
    <3>1. range[w].to <= releasedTo /\ range[w].to \in Nat /\ releasedTo \in Nat
      BY <1>1, SizesAssumption DEF Below, Releasing, TypeOK, Range
    <3>2. p \in Nat /\ (p + 1) * PageSize <= range[w].to
      BY SizesAssumption DEF WholePages
    <3>3. (p + 1) * PageSize \in Nat
      BY <3>2, SizesAssumption
    <3> QED
      BY <3>1, <3>2, <3>3
  <2> QED
    BY <1>1, <2>1, <2>2 DEF Below
<1>5. Reclaimed'
  <2> SUFFICES ASSUME NEW p \in 0..FileSize, (p + 1) * PageSize <= releasedTo,
                      \E c \in Chunk : Start(c) <= p * PageSize /\ (p + 1) * PageSize <= End(c)
               PROVE  \/ p \in dropped'
                      \/ \E x \in Worker : Releasing(x)' /\ p \in WholePages(range'[x])
    BY <1>1 DEF Reclaimed
  <2>1. p \in dropped \/ \E x \in Worker : Releasing(x) /\ p \in WholePages(range[x])
    BY DEF Reclaimed
  <2>2. \A x \in Worker : x # w => (Releasing(x)' <=> Releasing(x))
    BY <1>1 DEF Releasing, TypeOK
  <2> QED
    BY <1>1, <2>1, <2>2
<1> QED
  BY <1>2, <1>3, <1>4, <1>5

-----------------------------------------------------------------------------
LEMMA Initially == Init => IInv
<1> SUFFICES ASSUME Init PROVE IInv
  OBVIOUS
<1>1. TypeOK
  BY TypeInit
<1>2. Ordered
  BY ChunkNat DEF Init, Ordered
<1>3. Held /\ Below /\ Footprint
  BY DEF Init, Held, Busy, Below, Releasing, Footprint
<1>4. Start(0) = 0
  BY SizesAssumption DEF Start
<1>5. Behind /\ Aligned
  BY <1>4 DEF Init, Behind, Aligned
<1>6. Reclaimed
  <2> SUFFICES ASSUME NEW p \in 0..FileSize, (p + 1) * PageSize <= 0 PROVE FALSE
    BY DEF Reclaimed, Init
  <2> QED
    BY SizesAssumption
<1> QED
  BY <1>1, <1>2, <1>3, <1>5, <1>6 DEF IInv

LEMMA Inductive == IInv /\ [Next]_vars => IInv'
<1> SUFFICES ASSUME IInv, [Next]_vars PROVE IInv'
  OBVIOUS
<1>0. TypeOK'
  BY TypeNext DEF IInv
<1>1. CASE UNCHANGED vars
  BY <1>1 DEF IInv, vars, TypeOK, Ordered, Held, Busy, Behind, Below, Releasing, Aligned,
              Footprint, Reclaimed
<1>2. CASE Next
  <2> PICK w \in Worker : Step(w)
    BY <1>2 DEF Next
  <2>1. CASE Pop(w)
    BY <1>0, <2>1, PopStep
  <2>2. CASE QueueEmpty(w)
    BY <1>0, <2>2, QuietStep DEF QueueEmpty
  <2>3. CASE Sent(w)
    BY <1>0, <2>3, QuietStep DEF Sent
  <2>4. CASE SendFails(w)
    BY <1>0, <2>4, QuietStep DEF SendFails
  <2>5. CASE Finish(w)
    BY <1>0, <2>5, FinishStep
  <2>6. CASE Release(w)
    BY <1>0, <2>6, ReleaseStep
  <2>7. CASE Close(w)
    BY <1>0, <2>7, QuietStep DEF Close
  <2> QED
    BY <2>1, <2>2, <2>3, <2>4, <2>5, <2>6, <2>7 DEF Step
<1> QED
  BY <1>1, <1>2

LEMMA InvariantHolds == Spec => []IInv
  BY Initially, Inductive, PTL DEF Spec

-----------------------------------------------------------------------------
\* The contract of release_range is kept: no range a worker is about to
\* release overlaps a chunk another one is sending.
THEOREM ReleaseContract == Spec => []NoReleaseUnderBorrow
<1>1. IInv => NoReleaseUnderBorrow
  <2> SUFFICES ASSUME IInv, NEW w \in Worker, NEW x \in Worker, Releasing(w), Sending(x)
               PROVE  range[w].to <= Start(item[x])
    BY DEF NoReleaseUnderBorrow
  <2>1. item[x] \in inFlight /\ item[x] \in Nat
    BY DEF IInv, Held, Busy, Sending, TypeOK
  <2>2. range[w].to <= releasedTo /\ releasedTo <= Start(item[x])
    BY <2>1 DEF IInv, Below, Behind
  <2>3. range[w].to \in Nat /\ releasedTo \in Nat /\ Start(item[x]) \in Nat
    BY <2>1, StartNat, SizesAssumption DEF IInv, TypeOK, Range
  <2> QED
    BY <2>2, <2>3
<1> QED
  BY <1>1, InvariantHolds, PTL

\* A page that holds bytes of a queued chunk, or of one being sent, is never
\* dropped.
THEOREM UnreadPagesKept == Spec => []UnreadKept
<1>1. IInv => UnreadKept
  <2> SUFFICES ASSUME IInv, NEW p \in dropped,
                      NEW c \in queue \cup {item[w] : w \in {x \in Worker : Sending(x)}}
               PROVE  (p + 1) * PageSize <= Start(c)
    BY DEF UnreadKept
  <2>1. (p + 1) * PageSize <= releasedTo /\ (p + 1) * PageSize \in Nat /\ releasedTo \in Nat
    BY SizesAssumption DEF IInv, Below, TypeOK
  <2>2. c \in Nat /\ Start(c) \in Nat
    BY ChunkNat, StartNat DEF IInv, TypeOK
  <2>3. releasedTo <= Start(c)
    <3>1. CASE c \in queue
      <4>1. Start(nextDispatch) <= Start(c) /\ Start(nextDispatch) \in Nat
        BY <2>2, <3>1, StartOrder, StartNat DEF IInv, Ordered, TypeOK
      <4> QED
        BY <2>1, <2>2, <4>1 DEF IInv, Behind
    <3>2. CASE c \notin queue
      BY <3>2 DEF IInv, Held, Busy, Sending, Behind
    <3> QED
      BY <3>1, <3>2
  <2> QED
    BY <2>1, <2>2, <2>3
<1> QED
  BY <1>1, InvariantHolds, PTL

\* Less than a batch stays mapped below the slowest stream.
THEOREM FootprintBounded == Spec => []Footprint
  BY InvariantHolds, PTL DEF IInv

\* No page inside a chunk is forgotten below the release point.
THEOREM PagesReclaimed == Spec => []Reclaimed
  BY InvariantHolds, PTL DEF IInv
=============================================================================
