---------------------------- MODULE PageRelease ----------------------------
(***************************************************************************)
(* The sender's page release for one source file (send.rs, io.rs): stream  *)
(* workers pop chunks from the work queue, read them through the shared    *)
(* mapping, and drop the mapping's pages behind every worker's cursor.     *)
(*                                                                         *)
(* A pop and ReadCursor::begin are one step, both run under the queue      *)
(* lock; ReadCursor::finish is one step under the cursor lock; the madvise *)
(* comes later, under no lock.  Chunks of other files only delay a worker  *)
(* and are left out.  The borrow of the mapping lasts while pc is          *)
(* "sending".                                                              *)
(***************************************************************************)
EXTENDS Integers

CONSTANTS
    Worker,       \* the stream workers
    FileSize,     \* bytes of the source file
    ChunkSize,
    PageSize,
    ReleaseBatch  \* RELEASE_BATCH_BYTES

ASSUME SizesAssumption ==
    /\ FileSize \in Nat
    /\ ChunkSize \in Nat \ {0}
    /\ PageSize \in Nat \ {0}
    /\ ReleaseBatch \in Nat

\* ChunkLayout::new and range: chunk c covers the bytes Start(c)..End(c)-1.
Start(c) == c * ChunkSize
End(c) == IF (c + 1) * ChunkSize < FileSize THEN (c + 1) * ChunkSize ELSE FileSize
Chunk == {c \in 0..FileSize : Start(c) < FileSize}

Batch == IF ReleaseBatch < ChunkSize THEN ChunkSize ELSE ReleaseBatch

VARIABLES
    queue,        \* chunks of the file still in the work queue
    inFlight,     \* ReadCursor.in_flight
    nextDispatch, \* ReadCursor.next_dispatch
    releasedTo,   \* ReadCursor.released_to
    pc,           \* where each worker is
    item,         \* the chunk a worker holds
    range,        \* the byte range a worker is about to release
    dropped,      \* pages the mapping has been told to drop
    touched       \* history: the chunks read so far, wholly or in part

vars == <<queue, inFlight, nextDispatch, releasedTo, pc, item, range, dropped, touched>>

Range == [from : 0..FileSize, to : 0..FileSize]

TypeOK ==
    /\ queue \subseteq Chunk
    /\ inFlight \subseteq Chunk
    /\ nextDispatch \in Nat
    /\ releasedTo \in 0..FileSize
    /\ pc \in [Worker -> {"pop", "sending", "finish", "release", "closing", "ended", "failed"}]
    /\ item \in [Worker -> Nat]
    /\ range \in [Worker -> Range]
    /\ dropped \subseteq Nat
    /\ touched \subseteq Chunk

\* The queue holds whatever the receiver's bitmap left out.
Init ==
    /\ queue \in SUBSET Chunk
    /\ inFlight = {}
    /\ nextDispatch = 0
    /\ releasedTo = 0
    /\ pc = [w \in Worker |-> "pop"]
    /\ item = [w \in Worker |-> 0]
    /\ range = [w \in Worker |-> [from |-> 0, to |-> 0]]
    /\ dropped = {}
    /\ touched = {}

First(c, S) == c \in S /\ \A d \in S : c <= d

-----------------------------------------------------------------------------
\* Mutant of Begin: the chunk is not registered.
BeginUnregistered(c) ==
    /\ UNCHANGED inFlight
    /\ nextDispatch' = IF nextDispatch < c + 1 THEN c + 1 ELSE nextDispatch

\* ReadCursor::begin
Begin(c) ==
    /\ inFlight' = inFlight \cup {c}
    /\ nextDispatch' = IF nextDispatch < c + 1 THEN c + 1 ELSE nextDispatch

\* queue.pop_front and begin; the queue is in chunk order.
Pop(w) ==
    \E c \in queue :
        /\ pc[w] = "pop"
        /\ First(c, queue)
        /\ queue' = queue \ {c}
        /\ Begin(c)
        /\ item' = [item EXCEPT ![w] = c]
        /\ pc' = [pc EXCEPT ![w] = "sending"]
        /\ touched' = touched \cup {c}
        /\ UNCHANGED <<releasedTo, range, dropped>>

\* The queue is empty: flush and shut the stream down.
QueueEmpty(w) ==
    /\ pc[w] = "pop"
    /\ queue = {}
    /\ pc' = [pc EXCEPT ![w] = "closing"]
    /\ UNCHANGED <<queue, inFlight, nextDispatch, releasedTo, item, range, dropped,
                   touched>>

\* The last frame of the chunk is written and the borrow ends.
Sent(w) ==
    /\ pc[w] = "sending"
    /\ pc' = [pc EXCEPT ![w] = "finish"]
    /\ UNCHANGED <<queue, inFlight, nextDispatch, releasedTo, item, range, dropped,
                   touched>>

\* A write to the socket fails; the chunk stays registered for ever.
SendFails(w) ==
    /\ pc[w] \in {"sending", "closing"}
    /\ pc' = [pc EXCEPT ![w] = "failed"]
    /\ UNCHANGED <<queue, inFlight, nextDispatch, releasedTo, item, range, dropped,
                   touched>>

\* Mutant of Boundary: the dispatch point, whatever is in flight.
BoundaryAtDispatch(b, flight) == b = nextDispatch

\* ReadCursor::finish's boundary, in chunks: the lowest one still in flight.
Boundary(b, flight) == IF flight = {} THEN b = nextDispatch ELSE First(b, flight)

\* Mutant of ReleasePoint: not clamped to the file.
UnclampedPoint(b) == Start(b)

\* The boundary in bytes, clamped to the file.
ReleasePoint(b) == IF Start(b) < FileSize THEN Start(b) ELSE FileSize

\* Mutant of Due: off by one.
DueLate(bytes) == bytes - releasedTo > Batch

\* Whether a boundary is worth a syscall.
Due(bytes) == bytes - releasedTo >= Batch

\* ReadCursor::finish
Finish(w) ==
    LET flight == inFlight \ {item[w]} IN
    \E b \in flight \cup {nextDispatch} :
        LET bytes == ReleasePoint(b) IN
        /\ pc[w] = "finish"
        /\ Boundary(b, flight)
        /\ inFlight' = flight
        /\ IF Due(bytes)
             THEN /\ range' = [range EXCEPT ![w] = [from |-> releasedTo, to |-> bytes]]
                  /\ releasedTo' = bytes
                  /\ pc' = [pc EXCEPT ![w] = "release"]
             ELSE /\ pc' = [pc EXCEPT ![w] = "pop"]
                  /\ UNCHANGED <<range, releasedTo>>
        /\ UNCHANGED <<queue, nextDispatch, item, dropped, touched>>

\* Mutant of WholePages: the last page is left out.
AllButLastPage(r) == {p \in 0..FileSize : r.from <= p * PageSize /\ (p + 1) * PageSize < r.to}

\* The pages that lie wholly inside a byte range: page p covers the bytes
\* p * PageSize .. (p + 1) * PageSize - 1.
WholePages(r) == {p \in 0..FileSize : r.from <= p * PageSize /\ (p + 1) * PageSize <= r.to}

\* SourceFile::release_range
Release(w) ==
    /\ pc[w] = "release"
    /\ dropped' = dropped \cup WholePages(range[w])
    /\ pc' = [pc EXCEPT ![w] = "pop"]
    /\ UNCHANGED <<queue, inFlight, nextDispatch, releasedTo, item, range, touched>>

\* The stream is shut down and the peer's close read.
Close(w) ==
    /\ pc[w] = "closing"
    /\ pc' = [pc EXCEPT ![w] = "ended"]
    /\ UNCHANGED <<queue, inFlight, nextDispatch, releasedTo, item, range, dropped,
                   touched>>

Step(w) ==
    \/ Pop(w) \/ QueueEmpty(w) \/ Sent(w) \/ SendFails(w)
    \/ Finish(w) \/ Release(w) \/ Close(w)

Next == \E w \in Worker : Step(w)

Spec == Init /\ [][Next]_vars

-----------------------------------------------------------------------------
(* Properties. *)

Sending(w) == pc[w] = "sending"
Releasing(w) == pc[w] = "release"

\* The contract of SourceFile::release_range: when a worker is about to drop
\* a byte range, no worker borrows a chunk that overlaps it.  The range was
\* computed under a lock that is no longer held.
NoReleaseUnderBorrow ==
    \A w, x \in Worker :
        Releasing(w) /\ Sending(x)
            => range[w].to <= Start(item[x]) \/ End(item[x]) <= range[w].from

\* io.rs: a page still holding bytes a stream has not read is never dropped.
\* Such bytes belong to a chunk still queued or being sent.
UnreadKept ==
    \A p \in dropped : \A c \in queue \cup {item[w] : w \in {x \in Worker : Sending(x)}} :
        End(c) <= p * PageSize \/ (p + 1) * PageSize <= Start(c)

\* What a sender keeps mapped below its slowest stream is less than a batch:
\* every chunk read that lies below all chunks in flight ends
\* less than a batch above the release point.
Footprint ==
    \A c \in touched : (\A d \in inFlight : c < d) => End(c) - releasedTo < Batch

\* Below the release point nothing leaks: every page that lies inside one
\* chunk has been dropped, or is about to be.  (Every page is inside a chunk:
\* ChunkLayout::new asks for a power of two no smaller than a page.)
Reclaimed ==
    \A p \in 0..FileSize :
        /\ (p + 1) * PageSize <= releasedTo
        /\ \E c \in Chunk : Start(c) <= p * PageSize /\ (p + 1) * PageSize <= End(c)
        => p \in dropped \/ \E w \in Worker : Releasing(w) /\ p \in WholePages(range[w])
=============================================================================
