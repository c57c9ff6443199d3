----------------------------- MODULE Transfer ------------------------------
(***************************************************************************)
(* A transfer of several files, both sides composed: send::run with its    *)
(* workers and recv::run with its workers, joined by a control stream and  *)
(* by data streams (send.rs, recv.rs, control.rs, link.rs), over several   *)
(* attempts on one set of files.  An attempt begins when its control       *)
(* stream is up.                                                           *)
(*                                                                         *)
(* A data stream carries whole chunks, whose frames and checks are those   *)
(* of DataStream; a checkpoint is one step, its inside is StagingFile's.   *)
(* One side hosts the network and accepts connections, the other dials.    *)
(* No call has a timeout: run() waits for its peer's message, stream or    *)
(* end.  A run() that gives up leaves its workers running.  A connection   *)
(* may break, a process may die, and the network between the two may fall  *)
(* silent, so that neither side hears of the other any more.               *)
(***************************************************************************)
EXTENDS Naturals, Sequences, FiniteSets, Offer

CONSTANTS
    FileSize,      \* sizes of the files, in the order of the offer
    ChunkSize,
    Streams,       \* config.stream_count
    MaxStreams,    \* the receiver's config.max_streams
    Version,       \* PROTOCOL_VERSION
    Offers,        \* what a sender, also of another build, may offer
    ResumeFlag,    \* the values config.resume may take
    Hosts,         \* the sides that may accept connections: "sender", "receiver"
    MaxBuffer,     \* bound: chunks in flight on a stream
    MaxAttempts,   \* bound
    MaxFaults,     \* bound: failures over all attempts
    None

File == DOMAIN FileSize
Stream == 1..Streams
Layout(f) == NewLayout(FileSize[f], ChunkSize)
Chunk == UNION {{f} \X (0..Layout(f).count - 1) : f \in File}
ChunksOf(f) == {c \in Chunk : c[1] = f}
Bytes(c) == ChunkRange(Layout(c[1]), c[2])[2]
\* The bytes of a set of chunks, counted.
SumBytes(S) == Cardinality({b \in S \X (1..ChunkSize) : b[2] <= Bytes(b[1])})
Total == SumBytes(Chunk)

\* The control messages of the receiver.
Msg == [type : {"Accept", "Abort", "Complete"}, have : SUBSET Chunk, bytes : Nat]
AcceptMsg(have) == [type |-> "Accept", have |-> have, bytes |-> 0]
AbortMsg == [type |-> "Abort", have |-> {}, bytes |-> 0]
CompleteMsg(n) == [type |-> "Complete", have |-> {}, bytes |-> n]

HelloVerdict(o) ==
    IF o.version # Version \/ o.streams \notin 1..MaxStreams THEN "abort" ELSE "ok"

\* Fits a control frame and passes every check of the receiver.
Acceptable(o) == OfferFits(o) /\ HelloVerdict(o) = "ok" /\ OfferVerdict(o) = "ok"

ASSUME TransferAssumption ==
    /\ FileSize \in Seq(Nat)
    /\ ValidChunkSize(ChunkSize)
    /\ Streams \in Nat \ {0}
    /\ MaxBuffer \in Nat \ {0}
    /\ Hosts \subseteq {"sender", "receiver"}
    /\ ResumeFlag \subseteq BOOLEAN
    /\ None \notin Msg
    \* what is accepted is this set of files, each with an id of its own, as this
    \* sender numbers them: the receiver does not look for duplicates
    /\ \A o \in Offers : Acceptable(o) =>
          /\ \A j, k \in DOMAIN o.files : j # k => o.files[j].id # o.files[k].id
          /\ o.streams = Streams
          /\ o.chunk_size = ChunkSize
          /\ [k \in DOMAIN o.files |-> o.files[k].size] = FileSize

\* An offer is a sequence of entries, and
\* every name in them is a name the file system stores.
ASSUME OffersAssumption ==
    \A o \in Offers :
        /\ o.files \in Seq({o.files[k] : k \in DOMAIN o.files})
        /\ \A k \in DOMAIN o.files :
              o.files[k].path.parts \in Seq(DOMAIN OnDisk \cup {"", ".", ".."})

VARIABLES
    host,      \* who accepts connections
    attempt, offer, resume,
    silent,    \* nothing one side writes reaches the other any more
    sp,        \* where the sender's run() is
    wp,        \* where each sending worker is
    wchunk,    \* the chunk it has popped
    queue,     \* chunks nobody has popped yet
    toSend,    \* bytes_to_send
    sentStat,  \* the bytes the sender reports
    toR,       \* unread messages to the receiver; Hello is before Offer
    toS,       \* the unread message to the sender, or None
    wire,      \* chunks written to each stream and not yet read
    close,     \* how the sender's half of each stream ends
    rp,        \* where the receiver's run() is
    rw,        \* where each receiving worker is
    rchunk,    \* the chunk it has written
    disk,      \* chunks whose bytes are in the staging files
    bits,      \* chunks set in the bitmaps
    record,    \* chunks set in the sidecars; a file without any has none
    checked,   \* files past the completeness loop
    counter,   \* bytes_written
    notified,  \* history: on_file_completed calls of the attempt, by file
    started,   \* history: bits at the start of the attempt
    cause,     \* history: how the receiver's attempt failed at its end
    unsaved,   \* history: files without a checkpoint or a sync at that end
    faults, hurt  \* history: failures so far, and one in this attempt

sessionVars == <<host, attempt, offer, resume, silent>>
senderVars == <<sp, wp, wchunk, queue, toSend, sentStat>>
linkVars == <<toR, toS, wire, close>>
storeVars == <<disk, record>>
receiverVars == <<rp, rw, rchunk, bits, checked, counter>>
historyVars == <<notified, started, cause, unsaved, faults, hurt>>
vars == <<sessionVars, senderVars, linkVars, storeVars, receiverVars, historyVars>>

Ended == {"ok", "failed"}
Stopped == {"none", "ended", "err"}

TypeOK ==
    /\ host \in Hosts
    /\ offer \in Offers
    /\ resume \in ResumeFlag
    /\ sp \in {"hello", "offer", "answer", "streams", "join", "confirm"} \cup Ended
    /\ wp \in [Stream -> {"pop", "write", "drain"} \cup Stopped]
    /\ wchunk \in [Stream -> Chunk \cup {None}]
    /\ queue \subseteq Chunk
    /\ toR \subseteq {"Hello", "Offer"}
    /\ wire \in [Stream -> Seq(Chunk)]
    /\ close \in [Stream -> {"open", "eof", "broken"}]
    /\ rp \in {"hello", "offer", "streams", "join", "check"} \cup Ended
    /\ rw \in [Stream -> {"hello", "reading", "wrote"} \cup Stopped]
    /\ rchunk \in [Stream -> Chunk \cup {None}]
    /\ disk \subseteq Chunk
    /\ bits \subseteq Chunk
    /\ record \subseteq Chunk
    /\ checked \subseteq File
    /\ started \subseteq Chunk
    /\ unsaved \subseteq File

\* The state every attempt starts in; what is on disk is from before.
Begin ==
    /\ offer' = offer
    /\ resume' \in ResumeFlag
    /\ silent' = FALSE
    /\ sp' = "hello"
    /\ wp' = [i \in Stream |-> "none"]
    /\ wchunk' = [i \in Stream |-> None]
    /\ queue' = {}
    /\ toSend' = 0
    /\ sentStat' = 0
    /\ toR' = {}
    /\ toS' = None
    /\ wire' = [i \in Stream |-> <<>>]
    /\ close' = [i \in Stream |-> "open"]
    /\ rp' = "hello"
    /\ rw' = [i \in Stream |-> "none"]
    /\ rchunk' = [i \in Stream |-> None]
    /\ bits' = {}
    /\ checked' = {}
    /\ counter' = 0
    /\ notified' = [f \in File |-> 0]
    /\ started' = {}
    /\ cause' = "none"
    /\ unsaved' = {}
    /\ hurt' = FALSE

Init ==
    /\ host \in Hosts
    /\ attempt = 1
    /\ offer \in Offers
    /\ resume \in ResumeFlag
    /\ silent = FALSE
    /\ sp = "hello"
    /\ wp = [i \in Stream |-> "none"]
    /\ wchunk = [i \in Stream |-> None]
    /\ queue = {}
    /\ toSend = 0
    /\ sentStat = 0
    /\ toR = {}
    /\ toS = None
    /\ wire = [i \in Stream |-> <<>>]
    /\ close = [i \in Stream |-> "open"]
    /\ rp = "hello"
    /\ rw = [i \in Stream |-> "none"]
    /\ rchunk = [i \in Stream |-> None]
    /\ disk = {}
    /\ bits = {}
    /\ record = {}
    /\ checked = {}
    /\ counter = 0
    /\ notified = [f \in File |-> 0]
    /\ started = {}
    /\ cause = "none"
    /\ unsaved = {}
    /\ faults = 0
    /\ hurt = FALSE

Quiet == \A i \in Stream : wp[i] \in Stopped /\ rw[i] \in Stopped

\* The users start over, with the same offer, once everything has stopped.
Retry ==
    /\ attempt < MaxAttempts
    /\ sp \in Ended
    /\ rp \in Ended
    /\ ~(sp = "ok" /\ rp = "ok")
    /\ Quiet
    /\ attempt' = attempt + 1
    /\ Begin
    /\ UNCHANGED <<host, storeVars, faults>>

-----------------------------------------------------------------------------
(* The sender's run(). *)

\* A write to a peer that has left, or over a silent network, fails or is lost.
Unreachable(peer) == peer \in Ended \/ silent

\* Hello and the offer are written; an offer that does not fit a frame is not.
SendHello ==
    /\ sp = "hello"
    /\ \/ /\ sp' = "offer"
          /\ toR' = IF silent THEN toR ELSE toR \cup {"Hello"}
       \/ /\ Unreachable(rp)
          /\ sp' = "failed"
          /\ UNCHANGED toR
    /\ UNCHANGED <<sessionVars, wp, wchunk, queue, toSend, sentStat,
                   toS, wire, close, storeVars, receiverVars, historyVars>>

SendOffer ==
    /\ sp = "offer"
    /\ \/ /\ OfferFits(offer)
          /\ sp' = "answer"
          /\ toR' = IF silent THEN toR ELSE toR \cup {"Offer"}
       \/ /\ Unreachable(rp) \/ ~OfferFits(offer)
          /\ sp' = "failed"
          /\ UNCHANGED toR
    /\ UNCHANGED <<sessionVars, wp, wchunk, queue, toSend, sentStat,
                   toS, wire, close, storeVars, receiverVars, historyVars>>

\* Mutant of Missing: the chunks the receiver has.
MissingInverted(have) == have

\* The chunks an Accept leaves to send.
Missing(have) == Chunk \ have

\* Accept: the missing chunks are queued.
ReadAnswer ==
    /\ sp = "answer"
    /\ toS # None
    /\ toS.type = "Accept"
    /\ sp' = "streams"
    /\ queue' = Missing(toS.have)
    /\ toSend' = SumBytes(queue')
    /\ toS' = None
    /\ UNCHANGED <<sessionVars, wp, wchunk, sentStat, toR, wire, close,
                   storeVars, receiverVars, historyVars>>

\* Complete: the sender reports the larger of the two counts.
ReadComplete ==
    /\ sp = "confirm"
    /\ toS # None
    /\ toS.type = "Complete"
    /\ sp' = "ok"
    /\ sentStat' = IF toS.bytes > toSend THEN toS.bytes ELSE toSend
    /\ toS' = None
    /\ UNCHANGED <<sessionVars, wp, wchunk, queue, toSend, toR, wire, close,
                   storeVars, receiverVars, historyVars>>

\* An abort where an answer is expected, or the end of the control stream.
ReadRefusal ==
    /\ sp \in {"answer", "confirm"}
    /\ IF toS = None THEN rp \in Ended /\ ~silent ELSE toS.type = "Abort"
    /\ sp' = "failed"
    /\ UNCHANGED <<sessionVars, wp, wchunk, queue, toSend, sentStat,
                   linkVars, storeVars, receiverVars, historyVars>>

\* The dialler finds nobody listening, or no network.
DialRefused ==
    /\ host = "receiver"
    /\ sp = "streams"
    /\ Unreachable(rp)
    /\ sp' = "failed"
    /\ UNCHANGED <<sessionVars, wp, wchunk, queue, toSend, sentStat,
                   linkVars, storeVars, receiverVars, historyVars>>

\* The workers are awaited in order; the first failed one ends run() and
\* leaves the ones after it running.
JoinSenders ==
    /\ sp = "join"
    /\ \/ /\ \A i \in Stream : wp[i] = "ended"
          /\ sp' = "confirm"
       \/ /\ \E i \in Stream : wp[i] = "err" /\ \A j \in 1..i - 1 : wp[j] = "ended"
          /\ sp' = "failed"
    /\ UNCHANGED <<sessionVars, wp, wchunk, queue, toSend, sentStat,
                   linkVars, storeVars, receiverVars, historyVars>>

-----------------------------------------------------------------------------
(* The data streams and the sending workers. *)

\* next_stream on both sides, and the sender's Hello: a stream exists when
\* one side has dialled and the other accepted.  The receiver is back in
\* next_stream once it has read the Hello of the stream before.
Connect(i) ==
    /\ ~silent
    /\ sp = "streams"
    /\ rp = "streams"
    /\ wp[i] = "none"
    /\ \A j \in 1..i - 1 : wp[j] # "none" /\ rw[j] # "hello"
    /\ wp' = [wp EXCEPT ![i] = "pop"]
    /\ rw' = [rw EXCEPT ![i] = "hello"]
    /\ sp' = IF i = Streams THEN "join" ELSE sp
    /\ UNCHANGED <<sessionVars, wchunk, queue, toSend, sentStat, linkVars,
                   storeVars, rp, rchunk, bits, checked, counter, historyVars>>

\* Queue order: by file, then by chunk.
Before(c, d) == c[1] < d[1] \/ (c[1] = d[1] /\ c[2] <= d[2])

Pop(i) ==
    /\ wp[i] = "pop"
    /\ \E c \in queue :
          /\ \A d \in queue : Before(c, d)
          /\ wchunk' = [wchunk EXCEPT ![i] = c]
          /\ queue' = queue \ {c}
    /\ wp' = [wp EXCEPT ![i] = "write"]
    /\ UNCHANGED <<sessionVars, sp, toSend, sentStat, linkVars, storeVars,
                   receiverVars, historyVars>>

\* Mutant of Gone: a receiving worker that ends keeps its half of the stream.
GoneBroken(i) == close[i] = "broken"

\* The reader of the stream is gone or the connection is.  On a silent network
\* the reader's end is not heard of; the kernel gives up on what it has sent and
\* nobody acknowledges, but once the end of the stream was there nothing is left
\* to give up on.
Gone(i) ==
    IF silent THEN close[i] # "eof" ELSE rw[i] \in Stopped \/ close[i] = "broken"

\* The chunk goes into the stream.  When the reader is gone the write fails,
\* or its bytes are lost.
Write(i) ==
    /\ wp[i] = "write"
    /\ \/ /\ ~Gone(i)
          /\ Len(wire[i]) < MaxBuffer
          /\ wire' = [wire EXCEPT ![i] = Append(@, wchunk[i])]
          /\ wp' = [wp EXCEPT ![i] = "pop"]
       \/ /\ Gone(i)
          /\ \E p \in {"pop", "err"} : wp' = [wp EXCEPT ![i] = p]
          /\ UNCHANGED wire
    /\ wchunk' = [wchunk EXCEPT ![i] = None]
    /\ UNCHANGED <<sessionVars, sp, queue, toSend, sentStat, toR, toS,
                   close, storeVars, receiverVars, historyVars>>

\* Mutant of ShutDown: the stream is flushed and not shut down.
FlushOnly(end) == end

\* Mutant of ShutDown: the stream is dropped without a shutdown.
DropOnly(end) == "broken"

\* How the sender's half ends after shutdown(): on a silent network it does not.
ShutDown(end) == IF end = "open" /\ ~silent THEN "eof" ELSE end

\* The queue is empty: flush and shutdown, which may fail when the reader is
\* gone.
Shutdown(i) ==
    /\ wp[i] = "pop"
    /\ queue = {}
    /\ \/ /\ wp' = [wp EXCEPT ![i] = "drain"]
          /\ close' = [close EXCEPT ![i] = ShutDown(@)]
       \/ /\ Gone(i)
          /\ wp' = [wp EXCEPT ![i] = "err"]
          /\ UNCHANGED close
    /\ UNCHANGED <<sessionVars, sp, wchunk, queue, toSend, sentStat, toR, toS,
                   wire, storeVars, receiverVars, historyVars>>

\* read_to_end: over when the receiver has dropped the stream, error or not.
Drained(i) ==
    /\ wp[i] = "drain"
    /\ Gone(i)
    /\ wp' = [wp EXCEPT ![i] = "ended"]
    /\ UNCHANGED <<sessionVars, sp, wchunk, queue, toSend, sentStat, linkVars,
                   storeVars, receiverVars, historyVars>>

SendWorker(i) == Pop(i) \/ Write(i) \/ Shutdown(i) \/ Drained(i)

-----------------------------------------------------------------------------
(* The receiver's run(). *)

\* A Hello of another version or with too many streams is refused.  The
\* control stream is then dropped with the offer unread, and the reset that
\* follows may destroy the notice.
ReadHello ==
    /\ rp = "hello"
    /\ "Hello" \in toR
    /\ toR' = toR \ {"Hello"}
    /\ IF HelloVerdict(offer) = "ok"
         THEN rp' = "offer" /\ UNCHANGED toS
         ELSE rp' = "failed" /\ toS' \in {AbortMsg, None}
    /\ UNCHANGED <<sessionVars, senderVars, wire, close, storeVars, rw, rchunk, bits,
                   checked, counter, historyVars>>

\* Mutant of Loaded: a padding bit of the sidecar's bitmap counts as a chunk.
LoadedPadded(f) ==
    IF record \cap ChunksOf(f) # {}
    THEN (record \cap ChunksOf(f)) \cup {<<f, Layout(f).count>>}
    ELSE disk \cap ChunksOf(f)

\* The bitmap of a file: the sidecar's, or else what the file verifies to.
Loaded(f) ==
    IF record \cap ChunksOf(f) # {} THEN record \cap ChunksOf(f) ELSE disk \cap ChunksOf(f)

StartBits == IF resume THEN UNION {Loaded(f) : f \in File} ELSE {}

\* Mutant of ResumedBytes: not clamped to the total.
ResumedBytesRaw(S) == Cardinality(S) * ChunkSize

\* Every chunk counts as a full one; clamped to the total.
ResumedBytes(S) == AtMost(Cardinality(S) * ChunkSize, Total)

\* The offer is taken: files opened, bitmaps found, Accept written, which may
\* fail if the sender has left.
Accept ==
    /\ rp = "offer"
    /\ "Offer" \in toR
    /\ OfferVerdict(offer) = "ok"
    /\ toR' = toR \ {"Offer"}
    /\ \/ /\ rp' = "streams"
          /\ bits' = StartBits
          /\ started' = StartBits
          /\ counter' = ResumedBytes(StartBits)
          /\ toS' = AcceptMsg(StartBits)
       \/ /\ sp \in Ended
          /\ rp' = "failed"
          /\ UNCHANGED <<bits, started, counter, toS>>
    /\ UNCHANGED <<sessionVars, senderVars, wire, close, storeVars, rw, rchunk, checked,
                   notified, cause, unsaved, faults, hurt>>

\* The offer is refused, with or without a notice.
Refuse ==
    /\ rp = "offer"
    /\ "Offer" \in toR
    /\ OfferVerdict(offer) # "ok"
    /\ toR' = toR \ {"Offer"}
    /\ toS' = IF OfferVerdict(offer) = "abort" THEN AbortMsg ELSE None
    /\ rp' = "failed"
    /\ UNCHANGED <<sessionVars, senderVars, wire, close, storeVars, rw, rchunk, bits,
                   checked, counter, historyVars>>

\* The control stream ends before the message, or the dialler finds nobody.
PeerLeft ==
    /\ \/ sp \in Ended /\ ~silent /\ rp = "hello" /\ "Hello" \notin toR
       \/ sp \in Ended /\ ~silent /\ rp = "offer" /\ "Offer" \notin toR
       \/ /\ Unreachable(sp)
          /\ rp = "streams"
          /\ host = "sender"
          /\ \A i \in Stream : rw[i] # "hello"
    /\ rp' = "failed"
    /\ UNCHANGED <<sessionVars, senderVars, linkVars, storeVars, rw, rchunk, bits,
                   checked, counter, historyVars>>

\* A data stream's Hello is read and its worker spawned; if the stream broke
\* before the Hello, run() returns and leaves the workers so far running.
ReadStreamHello(i) ==
    /\ rp = "streams"
    /\ rw[i] = "hello"
    /\ \/ /\ ~silent
          /\ rw' = [rw EXCEPT ![i] = "reading"]
          /\ rp' = IF i = Streams THEN "join" ELSE rp
       \/ /\ close[i] = "broken"
          /\ rw' = [rw EXCEPT ![i] = "err"]
          /\ rp' = "failed"
    /\ UNCHANGED <<sessionVars, senderVars, linkVars, storeVars, rchunk, bits, checked,
                   counter, historyVars>>

\* checkpoint() of the given files: a file without a bit keeps what it had.
Checkpointed(S, b) ==
    LET saved == {f \in S : b \cap ChunksOf(f) # {}}
    IN  {c \in record : c[1] \notin saved} \cup {c \in b : c[1] \in saved}

\* Mutant of SaveAll: a failed stream ends run() without a checkpoint.
SaveNone(saved, b) == record

\* The checkpoints of all files before the error is returned: the ones that
\* succeed replace the records, the failures are ignored.
SaveAll(saved, b) == Checkpointed(saved, b)

\* All workers are awaited; if one failed every file is checkpointed, and each
\* checkpoint may fail by itself.
JoinWorkers ==
    /\ rp = "join"
    /\ \A i \in Stream : rw[i] \in {"ended", "err"}
    /\ IF \E i \in Stream : rw[i] = "err"
         THEN /\ rp' = "failed"
              /\ cause' = "stream"
              /\ \E saved \in SUBSET File :
                    record' = SaveAll(saved, bits) /\ unsaved' = File \ saved
         ELSE rp' = "check" /\ UNCHANGED <<cause, unsaved, record>>
    /\ UNCHANGED <<sessionVars, senderVars, linkVars, disk, rw, rchunk, bits, checked,
                   counter, notified, started, faults, hurt>>

\* What the sender will find of a message.
Arriving(m) == IF silent THEN None ELSE m

\* Mutant of Whole: completeness is not looked at.
WholeAlways(f) == TRUE

\* is_complete, once no worker runs.
Whole(f) == ChunksOf(f) \subseteq bits

\* The completeness loop, in the order of a hash map: a complete file is
\* synced and its record discarded; the first incomplete one is checkpointed,
\* which may fail, and ends the session with a notice.
CheckFile(f) ==
    /\ rp = "check"
    /\ f \notin checked
    /\ IF Whole(f)
         THEN /\ checked' = checked \cup {f}
              /\ record' = record \ ChunksOf(f)
              /\ UNCHANGED <<rp, toS, cause, unsaved>>
         ELSE /\ rp' = "failed"
              /\ cause' = "incomplete"
              /\ \E saved \in SUBSET {f} :
                    /\ record' = Checkpointed(saved, bits)
                    /\ unsaved' = File \ (checked \cup saved)
              /\ toS' = Arriving(AbortMsg)
              /\ UNCHANGED checked
    /\ UNCHANGED <<sessionVars, senderVars, toR, wire, close, disk, rw, rchunk, bits,
                   counter, notified, started, faults, hurt>>

\* Complete is written, which may fail if the sender has left.
Confirm ==
    /\ rp = "check"
    /\ checked = File
    /\ \/ /\ rp' = "ok"
          /\ toS' = Arriving(CompleteMsg(counter))
       \/ /\ Unreachable(sp)
          /\ rp' = "failed"
          /\ UNCHANGED toS
    /\ UNCHANGED <<sessionVars, senderVars, toR, wire, close, storeVars, rw, rchunk, bits,
                   checked, counter, historyVars>>

-----------------------------------------------------------------------------
(* The receiving workers. *)

\* A chunk is read, verified and written.
Land(i) ==
    /\ rw[i] = "reading"
    /\ wire[i] # <<>>
    /\ rchunk' = [rchunk EXCEPT ![i] = Head(wire[i])]
    /\ wire' = [wire EXCEPT ![i] = Tail(@)]
    /\ disk' = disk \cup {Head(wire[i])}
    /\ rw' = [rw EXCEPT ![i] = "wrote"]
    /\ UNCHANGED <<sessionVars, senderVars, toR, toS, close, record, rp, bits, checked,
                   counter, historyVars>>

\* Mutant of Completes: taken from the file instead of the bitmap.
CompletesOnDisk(f, b) == ChunksOf(f) \subseteq disk

\* is_complete, under the lock the bit was set under.
Completes(f, b) == ChunksOf(f) \subseteq b

\* The bit, the counter, the notice of a complete file, and a checkpoint if
\* one is due and nobody else is at it.
SetBit(i) ==
    LET c == rchunk[i]
        b == bits \cup {c}
    IN  /\ rw[i] = "wrote"
        /\ bits' = b
        /\ counter' = counter + Bytes(c)
        /\ notified' = IF Completes(c[1], b) THEN [notified EXCEPT ![c[1]] = @ + 1]
                       ELSE notified
        /\ record' \in {record, Checkpointed({c[1]}, b)}
        /\ rw' = [rw EXCEPT ![i] = "reading"]
        /\ rchunk' = [rchunk EXCEPT ![i] = None]
        /\ UNCHANGED <<sessionVars, senderVars, linkVars, disk, rp, checked,
                       started, cause, unsaved, faults, hurt>>

\* End of the stream between two chunks, or a broken one.
StreamEnds(i) ==
    /\ rw[i] = "reading"
    /\ wire[i] = <<>>
    /\ close[i] # "open"
    /\ rw' = [rw EXCEPT ![i] = IF close[i] = "eof" THEN "ended" ELSE "err"]
    /\ UNCHANGED <<sessionVars, senderVars, linkVars, storeVars, rp, rchunk, bits, checked,
                   counter, historyVars>>

RecvWorker(i) == Land(i) \/ SetBit(i) \/ StreamEnds(i)

-----------------------------------------------------------------------------
(* Failures. *)

Fault ==
    /\ faults < MaxFaults
    /\ faults' = faults + 1
    /\ hurt' = TRUE
    /\ UNCHANGED <<host, attempt, offer, resume, storeVars, notified, started, cause,
                   unsaved>>

\* A side that waits on a silent network may be killed, and that is not counted.
Killed ==
    \/ Fault /\ UNCHANGED silent
    \/ silent /\ UNCHANGED <<sessionVars, storeVars, historyVars>>

\* The network is gone and nobody is told: the peer walked out of range, its
\* device lost power.  What had arrived counts as read by then (reading it does
\* nothing the peer still sees), so all that is unread is lost: messages,
\* chunks, ends of streams.
Silence ==
    /\ ~silent
    /\ sp \notin Ended \/ rp \notin Ended \/ ~Quiet
    /\ silent' = TRUE
    /\ toR' = {}
    /\ toS' = None
    /\ wire' = [i \in Stream |-> <<>>]
    /\ close' = [i \in Stream |->
                   IF close[i] = "eof" /\ rw[i] \notin Stopped THEN "open" ELSE close[i]]
    /\ Fault
    /\ UNCHANGED <<senderVars, receiverVars>>

\* A connection breaks and both ends see it; what was in flight may be lost.
StreamBreaks(i) ==
    /\ ~silent
    /\ wp[i] # "none"
    /\ rw[i] \notin Stopped
    /\ close[i] # "broken"
    /\ close' = [close EXCEPT ![i] = "broken"]
    /\ \E s \in {<<>>, wire[i]} : wire' = [wire EXCEPT ![i] = s]
    /\ Fault /\ UNCHANGED silent
    /\ UNCHANGED <<senderVars, toR, toS, receiverVars>>

\* A receiving worker fails: a chunk does not verify, a write or a checkpoint
\* fails.
WorkerFails(i) ==
    /\ rw[i] = "reading"
    /\ rw' = [rw EXCEPT ![i] = "err"]
    /\ Fault /\ UNCHANGED silent
    /\ UNCHANGED <<senderVars, linkVars, rp, rchunk, bits, checked, counter>>

\* The sender's process dies.  Its kernel closes the connections, between
\* two chunks or inside one, if there is a network to do it over.
SenderKilled ==
    /\ sp \notin Ended \/ \E i \in Stream : wp[i] \notin Stopped
    /\ sp' = IF sp \in Ended THEN sp ELSE "failed"
    /\ wp' = [i \in Stream |-> IF wp[i] \in Stopped THEN wp[i] ELSE "err"]
    /\ \E end \in {"eof", "broken"} :
          close' = [i \in Stream |->
                      IF wp[i] \notin Stopped /\ close[i] = "open" /\ ~silent
                      THEN end ELSE close[i]]
    /\ Killed
    /\ UNCHANGED <<wchunk, queue, toSend, sentStat, toR, toS, wire, receiverVars>>

ReceiverKilled ==
    /\ rp \notin Ended \/ \E i \in Stream : rw[i] \notin Stopped
    /\ rp' = IF rp \in Ended THEN rp ELSE "failed"
    /\ rw' = [i \in Stream |-> IF rw[i] \in Stopped THEN rw[i] ELSE "err"]
    /\ Killed
    /\ UNCHANGED <<senderVars, linkVars, rchunk, bits, checked, counter>>

\* A host waits in accept() for a stream its peer will never dial.
SenderParked == host = "sender" /\ sp = "streams" /\ rp \in Ended
ReceiverParked ==
    /\ host = "receiver"
    /\ rp = "streams"
    /\ sp \in Ended
    /\ \A i \in Stream : rw[i] # "hello"

\* run() ends at an await while its workers go on: cancelled by the app, or a
\* connection, the control stream, the creation of a file or a sync failed.
SenderGivesUp ==
    /\ sp \notin Ended
    /\ sp' = "failed"
    /\ \/ Fault /\ UNCHANGED silent
       \/ SenderParked /\ UNCHANGED <<sessionVars, storeVars, historyVars>>
    /\ UNCHANGED <<wp, wchunk, queue, toSend, sentStat, linkVars, receiverVars>>

ReceiverGivesUp ==
    /\ rp \notin Ended
    /\ rp' = "failed"
    /\ rw' = [i \in Stream |-> IF rw[i] = "hello" THEN "err" ELSE rw[i]]
    /\ \/ Fault /\ UNCHANGED silent
       \/ ReceiverParked /\ UNCHANGED <<sessionVars, storeVars, historyVars>>
    /\ UNCHANGED <<senderVars, linkVars, rchunk, bits, checked, counter>>

-----------------------------------------------------------------------------
Sender ==
    \/ SendHello \/ SendOffer \/ ReadAnswer \/ ReadComplete \/ ReadRefusal
    \/ DialRefused \/ JoinSenders

Receiver ==
    \/ ReadHello \/ Accept \/ Refuse \/ PeerLeft \/ JoinWorkers \/ Confirm
    \/ \E i \in Stream : ReadStreamHello(i)
    \/ \E f \in File : CheckFile(f)

Failure ==
    \/ SenderKilled \/ ReceiverKilled \/ SenderGivesUp \/ ReceiverGivesUp \/ Silence
    \/ \E i \in Stream : StreamBreaks(i) \/ WorkerFails(i)

Next ==
    \/ Sender \/ Receiver \/ Failure \/ Retry
    \/ \E i \in Stream : Connect(i) \/ SendWorker(i) \/ RecvWorker(i)

Spec == Init /\ [][Next]_vars

\* Every task is polled and every connection made; nobody has to retry, and
\* no failure has to happen.
FairSpec ==
    /\ Spec
    /\ WF_vars(Sender)
    /\ WF_vars(Receiver)
    /\ \A i \in Stream :
          WF_vars(Connect(i)) /\ WF_vars(SendWorker(i)) /\ WF_vars(RecvWorker(i))

-----------------------------------------------------------------------------
(* Properties. *)

Status(p) == IF p \in Ended THEN p ELSE "working"

D == INSTANCE Delivery WITH
        Chunk <- Chunk, got <- disk, receiver <- Status(rp), sender <- Status(sp)

\* The protocol implements Delivery: chunks are never lost once delivered,
\* recv::run succeeds only with every chunk of every file, and send::run only
\* after recv::run did, whatever breaks and however often it is retried.
Refines == D!Spec

\* No accepted offer puts two files on one place or a file outside the output
\* directory, on a file system that strips trailing dots and spaces either:
\* sanitize_relative_path and the duplicate check against path resolution.
PathsApart == rp \notin {"hello", "offer", "failed"} => Apart(offer)

\* What a set of chunks lacks of as many full ones.
Shortfall(S) == Cardinality(S) * ChunkSize - SumBytes(S)

\* The bytes a completed transfer reports: never below the total, above it by
\* no more than the short last chunks the resumed bitmaps held and by no more
\* than was sent; and both sides report the same number (recv.rs counts a
\* resumed short chunk as a full one).
BytesReported ==
    /\ rp = "ok" =>
          /\ counter >= Total
          /\ counter <= Total + Shortfall(started)
          /\ counter <= Total + SumBytes(Chunk \ started)
    /\ sp = "ok" => sentStat = counter

\* on_file_completed is called once for every file that was not complete at
\* the start and never for the others, although two workers may set the last
\* bits of a file at once.
CompletedOnce ==
    \A f \in File :
        /\ notified[f] <= IF ChunksOf(f) \subseteq started THEN 0 ELSE 1
        /\ rp = "ok" /\ ~(ChunksOf(f) \subseteq started) => notified[f] = 1

\* What an attempt started with, the next one finds again, whatever happened in
\* between.  After an attempt that failed at its end it finds everything this
\* one received too, but for files whose last checkpoint failed or was never
\* made (the completeness loop stops at the first incomplete file) and whose
\* older record hides what came later.
NothingLost ==
    \A f \in File :
        /\ started \cap ChunksOf(f) \subseteq Loaded(f)
        /\ cause # "none" =>
              \/ bits \cap ChunksOf(f) \subseteq Loaded(f)
              \/ f \in unsaved /\ record \cap ChunksOf(f) # {}

\* Where a side waits for what a silent network will never bring: a message, a
\* stream, or a worker that waits.
SendWorkerDeaf(i) == silent /\ wp[i] = "drain"
RecvWorkerDeaf(i) == silent /\ rw[i] \in {"hello", "reading"}
SenderDeaf ==
    /\ silent
    /\ \/ sp \in {"answer", "confirm"}
       \/ sp = "streams" /\ host = "sender"
       \/ sp = "join" /\ \E i \in Stream : SendWorkerDeaf(i)
ReceiverDeaf ==
    /\ silent
    /\ \/ rp \in {"hello", "offer"}
       \/ rp = "streams" /\ host = "receiver"
       \/ rp \in {"streams", "join"} /\ \E i \in Stream : RecvWorkerDeaf(i)

SenderOver == sp \in Ended \/ SenderParked \/ SenderDeaf
ReceiverOver == rp \in Ended \/ ReceiverParked \/ ReceiverDeaf
WorkersOver ==
    \A i \in Stream :
        /\ wp[i] \in Stopped \/ SendWorkerDeaf(i)
        /\ rw[i] \in Stopped \/ RecvWorkerDeaf(i)

\* Whatever fails, both run()s and all workers come to an end, but for a host
\* in accept() whose peer has left and for whoever reads from a silent
\* network: these wait, without a timeout, until their app cancels or dies.
EndsOrParked == []<>SenderOver /\ []<>ReceiverOver /\ []<>WorkersOver

\* What a task needs for its next step, as the guards of its actions.
SenderCan ==
    \/ sp \in {"hello", "offer"}
    \/ sp = "answer" /\ toS # None /\ toS.type \in {"Accept", "Abort"}
    \/ sp = "confirm" /\ toS # None /\ toS.type \in {"Complete", "Abort"}
    \/ sp \in {"answer", "confirm"} /\ toS = None /\ rp \in Ended /\ ~silent
    \/ sp = "streams" /\ host = "receiver" /\ Unreachable(rp)
    \/ sp = "join" /\ \A i \in Stream : wp[i] = "ended"
    \/ sp = "join" /\ \E i \in Stream : wp[i] = "err" /\ \A j \in 1..i - 1 : wp[j] = "ended"

ReceiverCan ==
    \/ rp = "hello" /\ ("Hello" \in toR \/ (sp \in Ended /\ ~silent))
    \/ rp = "offer" /\ ("Offer" \in toR \/ (sp \in Ended /\ ~silent))
    \/ rp = "streams" /\ \E i \in Stream : rw[i] = "hello" /\ (~silent \/ close[i] = "broken")
    \/ /\ rp = "streams" /\ host = "sender" /\ Unreachable(sp)
       /\ \A i \in Stream : rw[i] # "hello"
    \/ rp = "join" /\ \A i \in Stream : rw[i] \in {"ended", "err"}
    \/ rp = "check"

StreamCan(i) ==
    \/ /\ ~silent /\ sp = "streams" /\ rp = "streams" /\ wp[i] = "none"
       /\ \A j \in 1..i - 1 : wp[j] # "none" /\ rw[j] # "hello"
    \/ wp[i] = "pop" /\ (queue = {} \/ \E c \in queue : \A d \in queue : Before(c, d))
    \/ wp[i] = "write" /\ (Gone(i) \/ Len(wire[i]) < MaxBuffer)
    \/ wp[i] = "drain" /\ Gone(i)
    \/ rw[i] = "reading" /\ (wire[i] # <<>> \/ close[i] # "open")
    \/ rw[i] = "wrote"

SomebodyCan == SenderCan \/ ReceiverCan \/ \E i \in Stream : StreamCan(i)

\* The two sides never wait on each other: whatever broke, whoever was killed
\* or cancelled and however full the streams are, a task of one side has a next
\* step until both run()s and all workers are over.  With a network between
\* them nobody is left waiting for the other but a host in accept().
NeverStuck == SomebodyCan \/ (SenderOver /\ ReceiverOver /\ WorkersOver)

\* Nobody gives up for nothing: in an attempt with an acceptable offer no
\* run() and no worker fails unless a connection, a process or a worker failed
\* first, whatever earlier attempts left behind and however the streams end.
\* In particular a stream is not closed with chunks of its queue unsent, and
\* nobody takes the other's normal end for a lost peer.
FailsOnlyWhenHurt ==
    ~hurt /\ Acceptable(offer) =>
        /\ sp # "failed"
        /\ rp # "failed"
        /\ \A i \in Stream : wp[i] # "err" /\ rw[i] # "err"

\* An attempt with an acceptable offer, in which nothing fails, completes on
\* both sides, from whatever earlier attempts left behind.
Delivered ==
    (sp = "hello" /\ Acceptable(offer)) ~> (hurt \/ (sp = "ok" /\ rp = "ok"))
=============================================================================
