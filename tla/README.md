# A TLA+ development for the AetherLink transfer engine

AetherLink (`src/core`) moves files between two phones over several TLS streams.
The sender maps each file, hashes it in chunks and offers a manifest; the
receiver answers with a bitmap of what it already has, and the missing chunks
travel over parallel streams. Interrupted transfers resume from a sidecar record
kept beside the file. A host app drives the engine through one FFI object.

## 1. Inventory

| component | state | operations | hard behaviour | what makes it correct |
|---|---|---|---|---|
| receiver, one path (`recv.rs`, `resume.rs`, `io.rs`) | staging file, `.aether_state` sidecar and its temporary file, `FileState` (bitmap, `since_checkpoint`, `checkpointing` guard) | create, load, accept streams, drain a stream, checkpoint, finish, discard | stream workers race; workers outlive a cancelled `run()`; kill and power loss at any step; several sessions on one path | a recorded or set bit means the bytes are there, durably; completion is exact; one checkpoint at a time; everybody ends if the peer sends or closes |
| sender, work queue and page release (`send.rs`, `io.rs`) | queue, `ReadCursor` per file, the mapping | pop and begin, send, finish, release, close | chunks finish out of order; the release happens outside the lock; streams fail | no page released under a borrow or before it is read; nothing leaks; bounded footprint |
| FFI session (`aetherlink-ffi/src/lib.rs`) | slot flag, state, task handle | four starts, cancel, reporter | calls and background tasks on any threads; abort cannot stop a last poll | one session at a time, one outcome each, slot always handed back |
| transfer protocol (`recv.rs`, `send.rs`, `control.rs`, `link.rs`) | where both `run()`s are, control and data streams, bitmaps, byte counters | Hello, Offer, Accept, streams, Complete, Abort, retry | either side fails at any point, also its last checkpoints; the network falls silent; several files share the streams; either side hosts; no timeouts | the sender succeeds only if the receiver did, the receiver only with everything; a retry finds what was received; nobody waits for the other but a host in `accept()` and readers of a silent network |
| framing (`frame.rs`, `drain_stream`) | partial chunk of a stream | encode, decode, accumulate | frames in any order or length, early close | only whole, contiguous, right chunks reach the disk; what we write we accept |
| progress (`progress.rs`) | time of the last update, byte counter | `on_progress` | lock-free race of workers | rate kept, first and final update delivered; late updates after the final one are few |
| geometry, bitmap (`chunk.rs`, `bitmap.rs`) | none | pure functions | boundaries, short last chunk | agree with a reference definition |
| offer (`manifest.rs`, `recv.rs`) | none | sanitize, check the entries | another build's strings and sizes | no two entries collide, none leaves the directory |
| TLS, platform, CLI | sockets | system and library calls | - | out of scope, see section 8 |

Interaction: the FFI object runs `send::run` or `recv::run` as one task of a
tokio runtime; each spawns one worker task per stream. The workers of a receiver
share a `FileState` per file, the workers of a sender share the queue and one
`ReadCursor` per file. The two sides exchange messages on a control stream and
chunks on data streams. Aborting the `run` task does not abort its workers.

## 2. Plan

1. **StagingFile** (done): the durability and resume protocol of one path, the
   behaviour a wrong answer of which is silent corruption. Proofs.
2. **PageRelease** (done): the sender's unsafe page release. Proofs.
3. **EngineSession** (done): the FFI object. Proofs.
4. **Throttled** (done): the lock-free limiter. Proofs.
5. **ChunkLayout, ChunkBitmap, Frame, DataStream** (done): the pure algorithms
   against reference definitions, and one stream end to end. Proofs.
6. **Offer, Delivery, Transfer** (done): both sides composed, and the abstract
   specification they implement. Proofs of the refinement, of the resume, of
   the byte counts and completion notices, of the paths of accepted offers, of
   deadlock freedom and of the absence of failures nobody caused.
7. Left to model: attempts that overlap (a host still in `accept()` for a dead
   attempt meets the next one's control connection, and session ids are not
   compared); sidecar and temporary names of several offered files; the hashing
   pass.

## 3. Modules

**StagingFile**. One destination path over `MaxSessions` sessions. A session is
one `run()` whose offer names the path, with its own `FileState` and one task per
stream plus `Main` for `run()` itself. The file is an array of chunk-sized
regions; `cache` is what a read returns, `onDevice[c]` the set of contents region
`c` may have after a power loss. A write adds to the set, an fsync reduces it to
the cached content. `onDeviceRecord` does the same for the sidecar, whose
directory entry the code never syncs. The temporary file is one per path, so two
sessions share it, as in the code.

| code | actions |
|---|---|
| `run`, loop over the offer: `SinkFile::create` | `Create` (`Created`) |
| the same: `resume::load`, `rebuild_by_verification`, `FileState` | `Load` (`Loads`, `RebuildByVerification`, `StartBitmap`) |
| `run`, accept loop; early returns; abort by the host | `Accept`, `AcceptFails`, `Cancel` |
| `drain_stream`, `verify_and_write` | `BeginWrite`, `EndWrite`, `SetBit`, `StreamEnds`, `StreamFails` |
| `checkpoint_if_due` | `CountSince`, `TryLock`, `Leave` |
| `checkpoint`, `resume::persist` | `Snapshot`, `SyncData`, `WriteTmp`, `Rename`, `SaveFails` |
| `run`, the end; `resume::discard` | `Join`, `Finish`, `Discard` |
| environment | `Kill`, `PowerLoss`, `Tamper` |

A cancelled `run()` leaves its workers running, and a checkpoint it was in runs
on in its blocking thread, so `Create` of the next session asks only that earlier
`run()`s gave way (`GaveWay`), and with `Overlap` nothing of the workers. A kill, a
power loss, a cancellation or a left-behind worker's step may come between
`Create` and `Load`. `SaveFails` is the failure of the fsync, of the temporary file
or of its rename.
The history variables `overwritten`, `stale` and `published` are read by no
guard. The first two name the sessions and records whose bytes another party
(another version, an older worker, a truncation) has changed: the sound
statements are made of the others, and the violation runs show what the
exceptions cost.

**PageRelease**. One source file and its workers. Pop and `begin` are one step
(both under the queue lock), `finish` one step (under the cursor lock), the
`madvise` a later one. The mapping is borrowed while a worker is `sending`. The
queue starts as any subset of the chunks, since the receiver's bitmap may have
any holes. `touched` is history.

**EngineSession**. Start calls, cancel calls and background tasks; every
statement that reads or writes the flag, the handle, the state or the observer is
a step. `abort()` stops a task only between polls, so a task whose future is
ready reports anyway. `owner` and `raced` are history: `raced` is set when
`cancel()` frees the slot of a transfer it did not stop, because the transfer was
not spawned yet, its handle not stored yet, or already finishing.

**Throttled**. The workers of one transfer and the shared counter. One call of
`on_progress` is `Count`, `Elapsed`, then `Load`, `Swap`, `Emit`, a step per atomic
access; a final call goes from `Elapsed` to `Emit`. `stamps` and `shown` are
history.

**ChunkLayout, ChunkBitmap, Frame**. Operators without state: `NewLayout`,
`ChunkRange`, `IndexOf`; `NewBitmap`, `FromBytes`, `Get`, `Set`, and the loop of
`missing_ranges` as its state and its steps (`NewScan`, `ScanBit`, `Scanned`);
`Encode`, `Decode`, on bytes of base `Base` with the code's offsets. Each module
ends with the reference its operators are compared with (`Tiles`; `Present`,
`Counted`, `Coalesced`; `Canonical`). None of them uses recursion: a loop is a
step of the specification that runs it, a field of a header is read by position.

**DataStream** uses them for one stream. The sender's loop over the entries is
`RefuseBitmap` (`from_bytes` fails), `ScanChunk` (one pass of `missing_ranges`) and
`QueueMissing` (the ranges of an entry are queued and the next one begins), then
`OpenStream`, `SendChunk` and `Shutdown`; the queue is a set whose least chunk by file
and index is popped, which is the order the loop pushes them in. A file the
Accept has no bitmap for counts as absent (`Had`). `DrainKeepalive`,
`DrainRefused`, `DrainPart`, `DrainLast`, `DrainEof` are one pass each of
`drain_stream`'s loop. A payload byte is the pair of its file and
position, so that a misplaced byte is visible; a chunk verifies iff it is the
offered run of bytes. `WriteForeign` is another build's frame. It may come before
and after any chunk of the queue, after other foreign frames and whatever the
receiver answered, so several of them may make up one chunk, or break off one
that has begun and start another; `MaxForeign` only bounds TLC's run. `Cut` is an
early close, also inside a header or a payload.

**Offer**. `Sanitize` and `OfferVerdict` are `sanitize_relative_path` and the checks
of the receiver's loop, with the outcomes accepted, refused with notice, refused
without. `Blocked` is an accepted path whose file `SinkFile::create` cannot make,
because an earlier entry is a file where it needs a directory, or the reverse.
The loop over the components is the recursive function `Pushed`: what has been
pushed after each of them. A name is one of a class (too long, trailing dot,
device name, plain). `Lands` is the reference: where a file system that strips
trailing dots puts a path, as the directory it is in after each component (`Walk`).
`OnDiskAssumption` says that such a file system stores names without trailing dots
and spaces under themselves; `OffersAssumption` of Transfer says that the names in
an offer are among those it knows. The receiver does not look for a file id that
occurs twice: the second `FileState` would replace the first in its map
(`recv.rs:210`). The sender numbers its files, and `TransferAssumption` asks that the
accepted offers have distinct ids, so nothing here speaks of an offer that
repeats one.

**Transfer**. Both `run()`s with their workers over `MaxAttempts` attempts on one
set of files. A stream carries whole chunks (DataStream is their inside) and a
checkpoint is one step (StagingFile is its inside). `host` says who accepts.

| code | actions |
|---|---|
| `send::run`, control stream | `SendHello`, `SendOffer`, `ReadAnswer`, `ReadComplete`, `ReadRefusal`, `JoinSenders` |
| `next_stream` on both sides | `Connect`, `DialRefused`, `PeerLeft`, `SenderParked`, `ReceiverParked` |
| sender's worker task | `Pop`, `Write`, `Shutdown`, `Drained` |
| `recv::run` | `ReadHello`, `Accept`, `Refuse`, `ReadStreamHello`, `JoinWorkers`, `CheckFile`, `Confirm` |
| `drain_stream` | `Land`, `SetBit`, `StreamEnds` |
| failures | `StreamBreaks`, `Silence`, `WorkerFails`, `SenderKilled`, `ReceiverKilled`, `SenderGivesUp`, `ReceiverGivesUp` |
| the users | `Retry` |

Early returns leave workers running as in the code: `SenderGivesUp`,
`ReceiverGivesUp`, a failed `JoinSenders` and `ReadStreamHello` end `run()` alone.
A checkpoint whose failure the code discards may fail here (`recv.rs:282`, `290`):
`JoinWorkers` saves any of the files, `CheckFile` saves its file or not, and a file
that was not saved keeps its older record. The history variable `unsaved` names
the files without a checkpoint at the end.

`StreamBreaks` is a break both ends hear of. `Silence` is the other kind: the peer is
out of range or its device has lost power, and nobody is told, because no
socket has a timeout or a keepalive. From then on nothing one side does reaches
the other, ends of processes and connections included. What is unread at that
moment is lost; a reader that would still have got it is the behaviour in which
it read it before, since reading does nothing the peer could see any more. A
writer is given up by its kernel in the end, since what it sent is not
acknowledged; so is a sender in `read_to_end` whose end of the stream is still
unacknowledged. A reader waits for ever. The users may kill either side then;
this does not count as another failure, so that the next attempt begins.

**Delivery** is what all this promises: chunks delivered and kept, two outcomes.
The mapping takes `disk` for what is delivered and forgets everything of a
`run()` but whether it works, succeeded or failed.

The `MC*` modules name the instances for TLC, the `*_proofs` modules hold the
theorems. Definitions marked "Mutant of" are never used by a specification; each
is a plausible mistake in the code that one of the properties must detect.

## 4. Runs

| run | instance | shows |
|---|---|---|
| `staging_sharing` | 2 sessions, 2 versions (a long and a short one), 1 stream, 2 regions, checkpoint every 2 chunks, resume on and off, deletion and truncation, overlap | `RecordSound`, `BitmapSound`, `CompleteExact` with every kill, power loss and left-behind worker |
| `staging_workers` | 1 session, 2 streams, 3 regions, checkpoint every chunk, fair | `OneCheckpoint`, `RecordsGrow`, `RecordSound`, `SessionEnds`, `WorkersEnd` |
| `staging_otherversion` | 3 sessions, 2 versions, no overlap | violation of `ResumeSound`: version A is checkpointed and killed, B writes over it and is killed, A loads its old record |
| `staging_truncated` | 2 sessions, truncation | violation of `ResumeSound`: `create` restores the length before `load` checks it |
| `staging_empty` | a short and an empty version | violation of `CompleteMatches`: the old bytes stay |
| `staging_resend` | 2 streams, 4 regions, checkpoint every chunk | violation of `ResendBound`: a slow checkpoint lets the other stream run ahead |
| `page_release` | 3 workers, 6 chunks of 4 bytes, last one short, pages of 2, batch of 2 chunks, all subsets queued | `NoReleaseUnderBorrow`, `UnreadKept`, `Footprint`, `Reclaimed` |
| `engine_session` | 3 starts (1 host), 2 cancels, any threads | `Exclusive`, `SlotFree`, `OneOutcome` |
| `engine_oneatatime` | the same, calls one after the other | violation of `OneAtATime`: a late report frees the next session's slot |
| `throttled` | 2 workers, 4 chunks, interval of 2 of 4 ticks, a counter that starts exact or ahead, fair | `RateHonest`, `FirstShown`, `FullShown` |
| `data_stream` | a file of 9 chunks, last one short, and one of a single short chunk; frames of 2, 3 and 4 bytes for chunks of 4, the limit at 3; 2 sets of chunks present, 3 foreign bitmaps and a missing one, 14 foreign frames, two in a behaviour | `LayoutTiles`, `RangesExact`, `BitmapExact`, `HeaderCanonical`, `BitsMatchContent`, `BufferBounded`, `HonestDelivers` |
| `transfer` | 2 files of 2 and 1 chunks, 2 streams, either host, resume on and off, 26 offers, 2 attempts, 1 failure or silence, checkpoints that fail, fair | `Refines`, `PathsApart`, `BytesReported`, `CompletedOnce`, `NothingLost`, `NeverStuck`, `FailsOnlyWhenHurt`, `EndsOrParked`, `Delivered` |

What each property says is in the comment above it. Several state less than one
would like, because the code does less, and a hazard they do not cover is listed
without a property:

- `NothingLost` excepts files whose last checkpoint failed or was never made, as
  the completeness loop stops at the first incomplete file: their older records
  hide what came later.
- `EndsOrParked` and `NeverStuck` except a host in `accept()` whose peer has left and
  whoever reads from a silent network.
- `FullShown` says that an update with the total is shown when the workers keep
  going, not that it is the last one: a call that passed the check before may
  show less after it, and nothing corrects it. Theorem `LateIsBounded` says how
  often this can happen, once for every other worker. `progress.rs:29-30` promises a
  bar that never sticks below 100%.
- `BytesReported` allows a resumed transfer to report more than the total, by the
  short last chunks it started with.
- `Footprint` bounds what lies below the slowest stream only. A stream that stalls
  holds the release point, and the others map the rest of the file.
- `Exclusive` and `OneOutcome` except the sessions a `cancel()` raced with, `SlotFree`
  the two errors of `bind_host` that leave the slot taken.
- `HonestDelivers` and `Delivered` ask that frames and offers stay within
  `MAX_FRAME_PAYLOAD`, which the sender does not check beforehand.

**Bounds.** `MaxSessions` and `Regions` bound StagingFile; `since` saturates at
the threshold, which is all the code compares it with. Two sessions are enough
for one to disturb the other and for a resume; the third in `otherversion` is
the return of the first version. Two regions distinguish a chunk recorded from
one that is not and a file from a longer one; a checkpoint interval of two makes
both an unrecorded and a recorded bit exist. Two streams race for the guard;
three regions let the loser go on. The proofs of section 6 remove these bounds
for the safety properties. In PageRelease three workers let one stall, one
finish and one release; six chunks make three batches. In EngineSession the race
of `OneAtATime` needs three starts. In Throttled `MaxTime` is two intervals, so an
update may be on time, early or late. In DataStream bytes have `Base` values (3
bits) and headers the code's length and field positions; nine chunks cross a
byte of the bitmap; `MaxWire` lets a chunk's frames and a foreign one meet, and
with `MaxForeign` two foreign frames make up a chunk, or the second comes inside
the chunk the first has begun. In Transfer `MaxFaults` is one failure or silence in
either attempt, at any step; a file of two
chunks can be complete, partly there or absent, the other shows what happens to
a file that did not fail; with `MaxBuffer` one chunk is in flight per stream while
another waits; two attempts make a resume. The chunk size is a multiple of the page
size as `ChunkLayout::new` and real page sizes make it.

**Deadlock** is not checked where sessions, streams and calls are finitely many
and all end: the system then really stops. That it stops only there is
`SessionEnds` and `WorkersEnd` for StagingFile, `NeverStuck` and `EndsOrParked` for
Transfer.

## 5. Fairness

`staging_workers` uses `FairSpec`: weak fairness of each worker, of each
checkpoint and of `run()`'s own steps. Tasks run on a multi-thread tokio runtime
that polls every woken task, file operations return, and nobody holds a lock
across a wait for the peer. Fairness of a worker's disjunction includes
`StreamEnds` and `StreamFails`: it assumes the peer sends or the connection
ends. The code has no timeout, so without this assumption a silent peer parks
the session until the host cancels; that is listed as a hazard, and Transfer has
it as `Silence`. `Load` is fair, since `run()` goes on after `Create`; `Create`,
`Cancel`, `Kill`, `PowerLoss` and `Tamper` are not fair.

`throttled` assumes that worker threads run and chunks keep coming. `transfer`
needs less of the peer, because the peer is in the model: weak fairness of either
`run()`, of each worker and of `Connect`, that is, tasks are polled and the network
makes connections. Failures, `Silence`, cancellation and `Retry` are not fair. A
`run()` in `accept()` whose peer has left has no fair step, nor has a task that
reads from a silent network: this is what `EndsOrParked` excepts (`SenderParked`,
`ReceiverParked`; `SenderDeaf`, `ReceiverDeaf`, `SendWorkerDeaf`, `RecvWorkerDeaf`) and the
missing timeouts mean. A write to a silent network does end, by the kernel's
own limit on unacknowledged data.

## 6. Proofs

Checked by TLAPS for every value of the constants.

**StagingFile_proofs** (assumptions `ConstantsAssumption`, `RecordAssumption`):
`TypeCorrect`, `MutualExclusion`, `RecordsOnlyGrow`, `RecordsAreSound`,
`BitmapsAreSound`, `CompletionIsExact`. None of the properties is inductive
alone. `IInv` adds:

- `Writeback`: what is cached is among what the device may have, so an fsync
  only removes possibilities;
- `Guard`: workers and bits exist only after `Load`, a worker inside `checkpoint()`
  holds the guard, and `run()` gets past its join only when all workers have
  stopped. This gives mutual exclusion although `run()` takes no guard;
- `Fresh`: a session has written no record before `Load` made its `FileState`;
- `Snapshots`: a snapshot lies between the last record and the bitmap, so
  records grow;
- `Progress`: a chunk just written is in the cache, and a snapshot past its
  fsync is on the device: the reason the order snapshot, fsync, rename is sound;
- `Completion`: what `run()` knows of the file from its join to the report.

A region can be damaged only by a step that also marks the sessions and records
it damages, which is how the exceptions enter the induction.

**PageRelease_proofs** (assumption `SizesAssumption`, which does not even ask the
page size to divide the chunk size): `TypeCorrect`, `ReleaseContract`,
`UnreadPagesKept`, `FootprintBounded`, `PagesReclaimed`. The key conjuncts are
`Ordered` (everything dispatched lies below everything queued), `Held` (a
borrowed chunk is registered, by one worker) and `Behind` (the release point
never passes a chunk in flight or the dispatch point); `Below` carries that to
the ranges handed out and the pages dropped, `Aligned` says releases end at chunk
boundaries, so no page inside a chunk is cut.

**EngineSession_proofs** (assumption `CallsAssumption`: start and cancel calls are
two finite, disjoint sets): `TypeCorrect`, `OneSession`, `SessionReusable`,
`EverySessionEndsOnce`. `Sole` says only the owner of the slot holds the session
while no cancel has raced; `Slot` says a taken slot always has somebody left to
free it: its owner, or the cancel that stopped the owner. `Ledger` says who sent
the events: final events and the cancel calls about to send one are as many as
the transfers reported and the transfers stopped whose slot is free again. Both
the bound on `ended` in `TypeOK` and `OneOutcome` follow from it.

**Throttled_proofs** (assumption `ConstantsAssumption`): `TypeCorrect`,
`RateIsHonest`, `FirstIsShown`, `LateIsBounded`, `FinalIsShown`. For the rate the invariant says
that `last` is the last of `stamps`, and that a worker at its swap found the value
it loaded an interval old: if the value is still there, its own time is an
interval past every stamp. `FirstStamp`: a time is stored only by somebody who goes
on to emit, and a worker that gives way to a stored time proves there is one.
`Behind`: no call is ahead of the counter, so once a final update was shown every
new call is final too; the late updates shown and the late calls under way
together leave out one worker. `FinalKept`: the call that brings the counter to the
total goes from the clock to the sink without a look at the limit, so when
nobody is in a call the final update has been shown. This is what `FullShown` says
but for the fairness that ends the calls.

**Transfer_proofs** (assumptions `TransferAssumption`, `OffersAssumption`,
`OnDiskAssumption`): `TypeCorrect`, `TransferRefinesDelivery`, `ResumeKeepsProgress`,
`OffersApart`, `DeadlockFree`. `IInv` is `TypeOK` with `InHand` (a
chunk a worker holds is a chunk of the offer, one whose bit is about to be set is
in the file), `Claims` (bits and records claim only what is in the files),
`CheckedWhole` (a file past the completeness loop is whole) and `Announced`
(Complete is on the control stream only of a receiver that completed): what lets
`Confirm` map to `ReceiverOk` and `ReadComplete` to `SenderOk`; every other step maps
to a delivery, a failure or a stutter. `KInv` adds for `NothingLost` that a receiver past
its join has no worker running (`Joined`), that a recorded cause means `run()` has
failed (`CauseFails`), that files past the loop have no record (`Cleared`) and that a
record never falls behind what the attempt started with (`Kept`): after the cause
is set, nobody changes bits, records or files until the next attempt, so the
bits of a saved file are found (`Found`), and those of one that was not saved
unless an older record hides them. Each checkpoint may fail by itself.

`OffersApart` needs two inductions over a path. `WalkFollowsPushed`: as long as every
component is redundant or passes the rules, the directory the file system is in is
what `sanitize_relative_path` has pushed. So a path it accepts lands, inside the
output directory, at what it returns (`CleanPathLands`), and the comparison of the
cleaned paths in the loop over the entries is a comparison of places
(`AcceptedApart`). `PInv` carries the verdict from `Accept` on.

`DeadlockFree` is `NeverStuck`: in every reachable state some task has a next
step (`SomebodyCan`, the guards of the actions written out, since the prover has
no `ENABLED`), or both `run()`s and all workers have stopped, are in an
`accept()` nobody will answer or read from a silent network. `DInv` says who may
be waiting for whom: the streams come in order and with both ends, one at a time
has its Hello unread (`Paired`); a sender through with one has closed it or lost
its reader, or the network is silent (`Closed`); the streams that exist are
those that fit where the two `run()`s are (`Streamed`); what a `run()` waits for
has been written, or its writer has ended, if there is a network (`Mailed`).
From it: a stream stands still only when both its workers have stopped, because
a writer with a full stream and a drainer wait for a reader that has something
to read, and a reader waits for a writer that is not done (`StreamsStill`); then
the sender's `run()`, in whichever of its waits, has its answer, its stream or
its peer's end (`SenderStill`), and then the receiver's (`ReceiverStill`).

**TransferOnce_proofs** (also `FileSize` a sequence of naturals and a valid
`ChunkSize`): `FilesCompleteOnce`, `BytesAddUp`. A stream is a pipe from the chunk
its sender has popped to the one its receiver has written. `OnePlace` says a chunk is
in one of the queue, one position of one pipe, or the bitmap; `Answered` says
nothing is sent before the Accept is read and that it tells the bits as they
are. So a bit is set once, a file gets its last bit once (`Notices`), and the
counters are sums over sets of chunks that only grow (`Counts`). `SumBytes` is the
size of a set of byte positions, not a fold, which is what makes it additive
for the prover.

`NoSpuriousFailure` is about attempts in which nothing failed (`Unhurt`).
`Phases` relates where the two `run()`s are, `StreamEnded` says that only a
sender at the end of the queue has closed a stream and only a reader of a closed
and empty one has ended, `NoneDropped` that every chunk without a bit is in the
queue or in a pipe, and `NoneFailed` that the network is up, nothing is broken
and nobody has failed so far. So every failing branch has a false guard: no
stream is lost, no peer has left early, and at the join every file is whole.

**ChunkLayout_proofs**: `LayoutsTile`, for every file size and valid chunk size,
from division with remainder; the lemmas on the number and the length of chunks
are used by TransferOnce_proofs and DataStream_proofs. `LeastNatural` and
`SetInduction` are the least-number principle and induction over the naturals stated
with a set instead of an operator, which is the form the provers can use; the
proofs about paths and about the order of streams and chunks rest on them.

**DataStream_proofs** (assumptions `HeaderAssumption`: a byte has at least the
four values of a message type; `StreamAssumption`: sizes, ids and frame sizes fit
their fields and the frame size is not zero, because `chunks(0)` panics in the
code; `PeersAssumption`: the receiver's own bitmaps parse, a foreign frame has a
whole header and as much payload as it announces, since the reader takes exactly
that; `NoneAssumption`: the model values differ from what they stand beside): all
eight invariants of the run. The operators come first:

- codec: a number of two halves is its halves, so `Le2`, `Le4`, `Le8` invert
  `ToLe2`, `ToLe4`, `ToLe8` and back; `DecodeEncode`, `Decoded` put the fields together;
- bitmap: setting a clear bit of a byte changes no other (`BitAdded`, by cases on
  the eight positions); `Sound` says the bytes are as many as the count needs,
  no padding bit is set and the count is that of the bits; `from_bytes`, `new` and
  `set` give sound bitmaps, and a sound one is `Counted`;
- scan: `Scanning` is the loop invariant of `missing_ranges`;
- frames: `Framed`, the nth frame carries the nth part and its header fits.

On them rests `StreamInv`: `SendInv` (the scan is at a `Scanning` state of the entry's
bitmap, the queue is what the finished entries miss), `WireInv` (what is unread is
whole frames) and `DrainInv` (the buffer is shorter than its chunk, the bitmaps are
sound, the bits match the content). A new chunk begins at its own offset and
every frame is checked to fit, so the buffer cannot pass the chunk; content
changes only with a verified chunk, in the range `index_of` maps to its bit.
`HonestStreamDelivers` needs `HonestInv` besides: as long as nobody interferes, the
frames on the wire are parts of chunks in order and end with a last part
(`InOrder`), the first of them goes on where the receiver is (`Aligned`), what it has
buffered is the chunk's (`Own`), and every chunk has its bit, is queued, or has its
last part on the wire (`Covered`). So no check can fail, and when the stream has
ended every chunk has its bit. The step in this that a test would hardly reach
is the frame size that does not divide the chunk.

## 7. Only model-checked

Liveness (`SessionEnds`, `WorkersEnd`, `FullShown`, `EndsOrParked`, `Delivered`), which
the prover cannot do; `FinalIsShown`, `DeadlockFree` and `NoSpuriousFailure` are what it
can say of the last three. `OfferFits`, a sum over the entries of an offer, is
evaluated by TLC and left opaque by the proofs, which hold for either answer.
Every safety property of a passing run is a theorem.

## 8. Not modelled

- Not yet: overlapping attempts, colliding sidecar names, the hashing pass (plan,
  item 7).
- Not used by the engine: `Manifest::validate`, `ChunkHashSet`, `end_offset`,
  `remaining_bytes`, header flags.
- TLS, sockets and platform calls: library and system calls without state of the
  engine's own. Their failures appear as `AcceptFails`, `StreamFails`, `SaveFails`,
  `SendFails`, `StreamBreaks`, `Silence`, `Blocked` and the two `GivesUp`.
- An offer that repeats a file id, which this sender never writes (Offer, above).
- A network that comes back: a silent one stays silent until the next attempt.
- Hash collisions: a chunk verifies iff it is the offered one.
- An Accept that leaves out files: this receiver accepts every file of an offer or
  none of them, so the sender's skip is never taken.
- Protobuf encoding: generated code; a control message arrives whole or not at
  all, and an offer that is too large is not written.
- Characters of a path: `Offer` has the classes the rules tell apart. A file system
  that ignores case is not in the reference, and the code does not consider it. A
  colon inside a component is an ordinary character to the reference.
- A torn write of the sidecar: it is written to a temporary file and synced
  before the rename, and a checksum guards it; the model keeps only the rename.
- The wording and rate of observer events, the CLI, build scripts.
