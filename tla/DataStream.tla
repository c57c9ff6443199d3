---------------------------- MODULE DataStream -----------------------------
(***************************************************************************)
(* One data stream, end to end: the sender builds its queue from the       *)
(* receiver's have_bitmap, cuts each missing chunk into frames and writes  *)
(* them (send.rs); the receiver's drain_stream decodes the headers, puts   *)
(* the chunks together, verifies and writes them and sets their bits       *)
(* (recv.rs).  The geometry, the bitmap and the header are those of        *)
(* ChunkLayout, ChunkBitmap and Frame.                                     *)
(*                                                                         *)
(* A payload byte is the pair of its file and position, so a chunk hashes  *)
(* to what the offer promised iff it is the run of bytes of its own range. *)
(* The peer may be another build: Foreign holds frames this sender would   *)
(* never write, Answers the bitmaps it may be sent.  The connection may be *)
(* cut after any frame, inside a header or inside a payload.               *)
(***************************************************************************)
EXTENDS Integers, Sequences, FiniteSets, ChunkBitmap, Frame

CONSTANTS
    FileSize,    \* the offered files: size by file id
    ChunkSize,
    FrameSizes,  \* the values config.frame_size may take
    Have,        \* the bitmaps the receiver may start with, as bytes by file id
    Answers,     \* what another build's Accept may carry for file 0
    Foreign,     \* frames another build may write
    MaxWire,     \* bound: the sender stops while so many frames are unread
    MaxForeign,  \* bound: how many frames another build writes
    None

FileId == DOMAIN FileSize
Layout(f) == NewLayout(FileSize[f], ChunkSize)
Chunks == UNION {{f} \X (0..Layout(f).count - 1) : f \in FileId}

\* A payload byte: the file and the position it is of.
Byte == Nat \X Nat
Bitstring == Seq(0..2^Bits - 1)

ASSUME StreamAssumption ==
    /\ FileSize \in [FileId -> U64]
    /\ IsFiniteSet(FileId)
    /\ FileId = 0..Cardinality(FileId) - 1
    /\ FileId \subseteq U64
    /\ 0 \in FileId
    /\ ValidChunkSize(ChunkSize)
    /\ FrameSizes \subseteq U32 \ {0}
    /\ MaxWire \in Nat
    /\ MaxForeign \in Nat

ASSUME PeersAssumption ==
    /\ \A have \in Have : \A f \in FileId :
          have[f] \in Bitstring /\ FromBytes(have[f], Layout(f).count) # Err
    /\ \A a \in Answers : a = None \/ a \in Bitstring
    /\ \A fr \in Foreign :
          /\ fr \in [bytes : Seq(U8), payload : Seq(Byte)]
          /\ Len(fr.bytes) = 32
          /\ Decode(fr.bytes) # BadHeader => Len(fr.payload) = Decode(fr.bytes).length

ASSUME NoneAssumption ==
    /\ None \notin Bitstring
    /\ None \notin [file : FileId, index : Nat, start : Nat, len : Nat]
    /\ Err \notin Nat
    /\ Err \notin [file : FileId, index : Nat, start : Nat, len : Nat]
    /\ Err \notin [bits : Bitstring, count : Nat, set_count : Nat]

VARIABLES
    frameSize,   \* config.frame_size
    answer,      \* have_bitmap by file id, as the sender reads it, or None
    send,        \* "accept", "sending", "closed" or "refused"
    file,        \* the entry the loop before the data streams is at
    scan,        \* missing_ranges over it
    queue,       \* the chunks still to send, as <<file, chunk>>
    toSend,      \* bytes_to_send
    wire,        \* frames written and not yet read: header bytes and payload
    tail,        \* what follows the last whole frame of a cut stream
    honest,      \* history: no foreign frame, answer or cut so far
    foreign,     \* how many foreign frames were written, for the bound
    drain,       \* the receiving worker: "reading", "ended" or "failed"
    current,     \* drain_stream's current chunk, or None
    buf,         \* the bytes of it received so far
    bitmap,      \* FileState.bitmap by file id
    disk         \* the byte at each position of each staging file

loopVars == <<file, scan>>
sendVars == <<frameSize, answer, send, loopVars, queue, toSend>>
drainVars == <<current, buf, bitmap, disk>>
vars == <<sendVars, wire, tail, honest, foreign, drain, drainVars>>

TypeOK ==
    /\ frameSize \in FrameSizes
    /\ send \in {"accept", "sending", "closed", "refused"}
    /\ file \in FileId \cup {Cardinality(FileId)}
    /\ scan.at \in Nat
    /\ scan.run \in Nat \cup {Err}
    /\ scan.ranges \in Seq(Nat \X Nat)
    /\ queue \subseteq Chunks
    /\ toSend \in Nat
    /\ tail \in {"none", "header", "payload"}
    /\ foreign \in 0..MaxForeign
    /\ drain \in {"reading", "ended", "failed"}
    /\ \A f \in FileId : bitmap[f].set_count \in 0..Layout(f).count

\* The bytes of a chunk, as the offer's hash commits to them.
ChunkBytes(f, i) ==
    LET r == ChunkRange(Layout(f), i) IN [k \in 1..r[2] |-> <<f, r[1] + k - 1>>]

Init ==
    \E have \in Have :
        /\ frameSize \in FrameSizes
        /\ bitmap = [f \in FileId |-> FromBytes(have[f], Layout(f).count)]
        /\ disk = [f \in FileId |-> [p \in 0..FileSize[f] - 1 |->
                    IF Get(bitmap[f], IndexOf(Layout(f), p)) THEN <<f, p>> ELSE None]]
        /\ \E bytes \in Answers \cup {bitmap[0].bits} :
              /\ answer = [f \in FileId |-> IF f = 0 THEN bytes ELSE bitmap[f].bits]
              /\ honest = (bytes = bitmap[0].bits)
        /\ send = "accept"
        /\ file = 0
        /\ scan = NewScan
        /\ queue = {}
        /\ toSend = 0
        /\ wire = <<>>
        /\ tail = "none"
        /\ foreign = 0
        /\ drain = "reading"
        /\ current = None
        /\ buf = <<>>

-----------------------------------------------------------------------------
(* The sender: the loop over the entries, between Accept and the data       *)
(* streams.                                                                 *)

\* The bitmap of an entry; a file the Accept says nothing of has no chunk.
Had(f) ==
    IF answer[f] = None THEN NewBitmap(Layout(f).count)
    ELSE FromBytes(answer[f], Layout(f).count)

\* A bitmap from_bytes refuses ends the transfer.
RefuseBitmap ==
    /\ send = "accept"
    /\ file \in FileId
    /\ Had(file) = Err
    /\ send' = "refused"
    /\ UNCHANGED <<frameSize, answer, loopVars, queue, toSend, wire, tail, honest, foreign, drain, drainVars>>

\* One pass of missing_ranges.
ScanChunk ==
    /\ send = "accept"
    /\ file \in FileId
    /\ Had(file) # Err
    /\ scan.at < Layout(file).count
    /\ scan' = ScanBit(scan, Get(Had(file), scan.at))
    /\ UNCHANGED <<frameSize, answer, send, file, queue, toSend, wire, tail, honest, foreign, drain, drainVars>>

\* The chunks of the ranges are queued, with their bytes counted, and the loop
\* goes to the next entry.
QueueMissing ==
    LET missing == InRanges(Scanned(scan, Layout(file).count)) IN
    /\ send = "accept"
    /\ file \in FileId
    /\ Had(file) # Err
    /\ scan.at = Layout(file).count
    /\ queue' = queue \cup ({file} \X missing)
    /\ toSend' = toSend + Cardinality({p \in 0..FileSize[file] - 1 :
                                          IndexOf(Layout(file), p) \in missing})
    /\ file' = file + 1
    /\ scan' = NewScan
    /\ UNCHANGED <<frameSize, answer, send, wire, tail, honest, foreign, drain, drainVars>>

\* Every entry is done, and the data stream is opened.
OpenStream ==
    /\ send = "accept"
    /\ file \notin FileId
    /\ send' = "sending"
    /\ UNCHANGED <<frameSize, answer, loopVars, queue, toSend, wire, tail, honest, foreign, drain, drainVars>>

\* Mutant of PartStart: every frame after the first is addressed one byte late.
PartStartLate(start, n, size) == start + n * size + (IF n = 0 THEN 0 ELSE 1)

\* The offset of the nth part of a chunk.
PartStart(start, n, size) == start + n * size

\* payload.chunks(frame_size): the frames of one chunk, in order.
Frames(f, i, size) ==
    LET r == ChunkRange(Layout(f), i)
        part(n) == SubSeq(ChunkBytes(f, i), n * size + 1,
                          IF (n + 1) * size < r[2] THEN (n + 1) * size ELSE r[2])
    IN  [n \in 1..DivCeil(r[2], size) |->
            [bytes |-> Encode(Header("FileData", f, PartStart(r[1], n - 1, size), Len(part(n - 1)))),
             payload |-> part(n - 1)]]

\* Chunks are queued by file and index.
Before(c, d) == c[1] < d[1] \/ (c[1] = d[1] /\ c[2] < d[2])

\* A worker pops the first chunk and writes its frames.
SendChunk ==
    /\ send = "sending"
    /\ Len(wire) < MaxWire
    /\ \E c \in queue :
          /\ \A d \in queue : ~Before(d, c)
          /\ wire' = wire \o Frames(c[1], c[2], frameSize)
          /\ queue' = queue \ {c}
    /\ UNCHANGED <<frameSize, answer, send, loopVars, toSend, tail, honest, foreign, drain, drainVars>>

\* The queue is empty: flush and shutdown.
Shutdown ==
    /\ send = "sending"
    /\ queue = {}
    /\ send' = "closed"
    /\ UNCHANGED <<frameSize, answer, loopVars, queue, toSend, wire, tail, honest, foreign, drain, drainVars>>

\* The peer is another build and writes a frame of its own, between any two
\* chunks of the queue, after any frame of its own and whatever it answered.
WriteForeign ==
    /\ send = "sending"
    /\ Len(wire) < MaxWire
    /\ foreign < MaxForeign
    /\ \E fr \in Foreign : wire' = Append(wire, fr)
    /\ foreign' = foreign + 1
    /\ honest' = FALSE
    /\ UNCHANGED <<sendVars, tail, drain, drainVars>>

\* The connection is closed early: some of the frames are lost, and the first
\* lost one may have arrived in part.
Cut ==
    /\ send = "sending"
    /\ \E k \in 0..Len(wire) :
          /\ wire' = SubSeq(wire, 1, k)
          /\ tail' \in {"none"} \cup (IF k = Len(wire) THEN {}
                                     ELSE IF wire[k + 1].payload = <<>> THEN {"header"}
                                     ELSE {"header", "payload"})
    /\ send' = "closed"
    /\ honest' = FALSE
    /\ UNCHANGED <<frameSize, answer, loopVars, queue, toSend, foreign, drain, drainVars>>

-----------------------------------------------------------------------------
(* The receiver: one pass of drain_stream's loop. *)

\* The chunk a header belongs to: the current one, or a new one, which must
\* begin at its own offset.
Target(h) ==
    IF current # None THEN current
    ELSE LET i == IndexOf(Layout(h.file_id), h.offset)
         IN  IF i = Err \/ ChunkRange(Layout(h.file_id), i)[1] # h.offset THEN Err
             ELSE [file |-> h.file_id, index |-> i, start |-> h.offset,
                   len |-> ChunkRange(Layout(h.file_id), i)[2]]

\* Mutant of Fits: the end of the chunk is not checked.
FitsAnyLength(h, c) ==
    /\ h.file_id = c.file
    /\ h.offset = c.start + Len(buf)

\* Same file, contiguous and in order, inside the chunk.
Fits(h, c) ==
    /\ h.file_id = c.file
    /\ h.offset = c.start + Len(buf)
    /\ Len(buf) + h.length <= c.len

\* The header passes every check of the loop.
Accepted(h) ==
    /\ h # BadHeader
    /\ h.type = "FileData"
    /\ h.file_id \in FileId
    /\ Target(h) # Err
    /\ Fits(h, Target(h))

NextHeader == Decode(Head(wire).bytes)

\* A keepalive is skipped.
DrainKeepalive ==
    /\ drain = "reading"
    /\ wire # <<>>
    /\ NextHeader # BadHeader
    /\ NextHeader.type = "Keepalive"
    /\ wire' = Tail(wire)
    /\ UNCHANGED <<sendVars, tail, honest, foreign, drain, drainVars>>

\* A check fails, and the worker with it.
DrainRefused ==
    /\ drain = "reading"
    /\ wire # <<>>
    /\ ~Accepted(NextHeader)
    /\ NextHeader # BadHeader => NextHeader.type # "Keepalive"
    /\ drain' = "failed"
    /\ UNCHANGED <<sendVars, wire, tail, honest, foreign, drainVars>>

\* The frame is accepted and its chunk is not whole yet.
DrainPart ==
    LET c == Target(NextHeader) IN
    /\ drain = "reading"
    /\ wire # <<>>
    /\ Accepted(NextHeader)
    /\ Len(buf) + NextHeader.length # c.len
    /\ wire' = Tail(wire)
    /\ current' = c
    /\ buf' = buf \o Head(wire).payload
    /\ UNCHANGED <<sendVars, tail, honest, foreign, drain, bitmap, disk>>

\* Mutant of Verified: the hash is not compared.
VerifiedAlways(c, bytes) == TRUE

Verified(c, bytes) == bytes = ChunkBytes(c.file, c.index)

\* The frame completes its chunk: verify_and_write, then the bit.
DrainLast ==
    LET c == Target(NextHeader)
        bytes == buf \o Head(wire).payload
    IN  /\ drain = "reading"
        /\ wire # <<>>
        /\ Accepted(NextHeader)
        /\ Len(buf) + NextHeader.length = c.len
        /\ wire' = Tail(wire)
        /\ IF Verified(c, bytes)
             THEN /\ disk' = [disk EXCEPT ![c.file] = [p \in DOMAIN @ |->
                        IF p \in c.start..c.start + c.len - 1
                        THEN bytes[p - c.start + 1] ELSE @[p]]]
                  /\ bitmap' = [bitmap EXCEPT ![c.file] = Set(@, c.index)]
                  /\ current' = None
                  /\ buf' = <<>>
                  /\ UNCHANGED drain
             ELSE /\ drain' = "failed"
                  /\ UNCHANGED drainVars
        /\ UNCHANGED <<sendVars, tail, honest, foreign>>

\* The stream ended.  An end inside a header reads like a clean close; inside
\* a payload, or between the frames of a chunk, it is an error.
DrainEof ==
    /\ drain = "reading"
    /\ wire = <<>>
    /\ send = "closed"
    /\ drain' = IF tail = "payload" \/ current # None THEN "failed" ELSE "ended"
    /\ UNCHANGED <<sendVars, wire, tail, honest, foreign, drainVars>>

-----------------------------------------------------------------------------
Sender ==
    RefuseBitmap \/ ScanChunk \/ QueueMissing \/ OpenStream \/ SendChunk \/ Shutdown
Drain == DrainKeepalive \/ DrainRefused \/ DrainPart \/ DrainLast \/ DrainEof

Next == Sender \/ WriteForeign \/ Cut \/ Drain

Spec == Init /\ [][Next]_vars

-----------------------------------------------------------------------------
(* Properties. *)

\* Every layout up to the largest file cuts the file into consecutive chunks
\* and index_of inverts range, and the frames of a chunk are its bytes, each
\* once and in order: ChunkLayout::new, range and index_of and the sender's
\* chunks(frame_size) against the definition of a partition.  (Neither depends
\* on what is sent: they are evaluated until the queue is complete.)
LayoutTiles ==
    send = "accept" =>
    /\ \A size \in 0..FileSize[0] + 1, cs \in MIN_CHUNK_SIZE..MAX_CHUNK_SIZE :
          NewLayout(size, cs) # Err => Tiles(NewLayout(size, cs))
    /\ \A c \in queue :
        LET frames == Frames(c[1], c[2], frameSize)
            bytes == ChunkBytes(c[1], c[2])
            offset(n) == Le8(frames[n].bytes, 16)
            end(n) == offset(n) + Len(frames[n].payload)
        IN  /\ \A n \in 1..Len(frames) : \A k \in 1..Len(frames[n].payload) :
                  frames[n].payload[k] = <<c[1], offset(n) + k - 1>>
            /\ \A n \in 1..Len(frames) - 1 : offset(n + 1) = end(n)
            /\ offset(1) = bytes[1][2]
            /\ end(Len(frames)) = bytes[Len(bytes)][2] + 1

\* missing_ranges, pass by pass: the ranges found so far are coalesced, and
\* with the open run they are the absent chunks among the ones looked at; what
\* is queued for the entries that are done is what they miss, whatever bitmap
\* the peer sent.
RangesExact ==
    send = "accept" =>
        /\ Coalesced(scan.ranges)
        /\ file \in FileId /\ Had(file) # Err =>
              InRanges(Scanned(scan, scan.at)) = {i \in 0..scan.at - 1 : ~Get(Had(file), i)}
        /\ queue = {c \in Chunks : c[1] < file /\ ~Get(Had(c[1]), c[2])}

\* Whatever arrives, in whatever order and how often, a bitmap's count is
\* that of its bits.
BitmapExact == \A f \in FileId : Counted(bitmap[f])

\* The header codec is unambiguous: an accepted byte string, also one of
\* another build, is the encoding of what it decodes to.
HeaderCanonical == \A k \in 1..Len(wire) : Canonical(wire[k].bytes)

\* A set bit means the staging file holds the chunk's own bytes, although
\* frames may come out of order, twice, with another file's bytes or short.
BitsMatchContent ==
    \A f \in FileId : \A p \in 0..FileSize[f] - 1 :
        Get(bitmap[f], IndexOf(Layout(f), p)) => disk[f][p] = <<f, p>>

\* The chunk buffer never outgrows the chunk, so the announced lengths of a
\* peer cannot make it grow without bound.
BufferBounded == current # None => Len(buf) < current.len /\ current.len <= ChunkSize

\* What this sender writes this receiver takes: without a cut and without
\* foreign frames no frame is refused, as long as frames stay within the
\* limit both sides share, and the stream ends with every chunk in place.
HonestDelivers ==
    honest /\ frameSize <= MAX_FRAME_PAYLOAD =>
        /\ drain # "failed"
        /\ send # "refused"
        /\ drain = "ended" => \A f \in FileId : IsComplete(bitmap[f])
=============================================================================
