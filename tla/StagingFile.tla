---------------------------- MODULE StagingFile ----------------------------
(***************************************************************************)
(* One destination path of the receiver, over the life of several receive  *)
(* sessions: the staging file, its ".aether_state" sidecar, and the stream *)
(* workers and the run() that share one FileState (recv.rs, resume.rs,     *)
(* io.rs).  A session is one call of run() whose offer names this path; a  *)
(* cancelled session's workers are detached, not stopped, so workers of    *)
(* several sessions can be alive at once.                                  *)
(*                                                                         *)
(* Bytes.  The file is an array of chunk-sized regions.  A region holds a  *)
(* Value, Zero (reserved, never written), Torn (part of a write) or Absent *)
(* (past the end of the file), so the length needs no variable.  Hashes    *)
(* are collision-free: a chunk verifies iff its value is the offered one.  *)
(*                                                                         *)
(* Durability.  cache is what a read returns; onDevice[c] is the set of    *)
(* contents region c may have after a power loss.  A write adds to the     *)
(* set, an fsync reduces it to the cached content.  onDeviceRecord does    *)
(* the same for the sidecar, whose directory entry is never synced.        *)
(***************************************************************************)
EXTENDS Naturals, FiniteSets

CONSTANTS
    MaxSessions,      \* bound: how many sessions use the path
    Stream,           \* the data streams of a session
    Main,             \* the task that executes run()
    Version,          \* the files offered under this path (a StateKey each)
    Regions,          \* bound: chunk-sized regions of the longest version
    Value, Zero, Torn, Absent,
    Data,             \* Data[v][c]: what version v has in region c
    CheckpointChunks, \* config.checkpoint_bytes in chunks; 0 switches it off
    ResumeFlag,       \* the values config.resume may take
    Overlap,          \* may a session start while a cancelled one's workers run
    Tampering,        \* what others may do to the file between two sessions
    NoRecord

Session == 1..MaxSessions
Region == 0..(Regions - 1)
Task == Stream \cup {Main}

ASSUME ConstantsAssumption ==
    /\ MaxSessions \in Nat
    /\ Regions \in Nat \ {0}
    /\ Main \notin Stream
    /\ Zero \in Value
    /\ Torn \notin Value
    /\ Absent \notin Value
    /\ Torn # Absent
    /\ Data \in [Version -> [Region -> Value \cup {Absent}]]
    /\ CheckpointChunks \in Nat
    /\ ResumeFlag \subseteq BOOLEAN
    /\ Overlap \in BOOLEAN
    /\ Tampering \subseteq {"delete", "truncate"}

Content == Value \cup {Torn, Absent}

\* ChunkLayout: the chunks of a version are the regions it has bytes in.
Chunks(v) == {c \in Region : Data[v][c] # Absent}

\* A sidecar record: the StateKey it was written for and the bits set.
Record == [key : Version, bits : SUBSET Region]

ASSUME RecordAssumption == NoRecord \notin Record

-----------------------------------------------------------------------------
VARIABLES
    \* the file system
    exists,          \* the staging file is there
    cache,           \* its content, as a read returns it
    onDevice,        \* its possible contents after a power loss
    record,          \* the sidecar
    onDeviceRecord,  \* the sidecar's possible contents after a power loss
    tmp,             \* the sidecar's temporary file
    \* the tasks
    pc,              \* where each task is
    chunk,           \* the chunk a worker is handling
    snap,            \* the bitmap snapshot of a task's checkpoint
    \* one FileState per session
    ver,             \* the version the session's offer names
    queued,          \* chunks the sender has still to put on a stream
    bitmap,          \* FileState.bitmap
    since,           \* FileState.since_checkpoint, saturating at the threshold
    checkpointing,   \* FileState.checkpointing is locked
    \* history, read by no guard
    overwritten,     \* sessions under which another party changed their bytes
    stale,           \* records that claim bytes another party has changed
    published        \* the bits of the last record each session wrote

fileVars == <<exists, cache, onDevice>>
recordVars == <<record, onDeviceRecord, tmp>>
taskVars == <<pc, chunk, snap>>
stateVars == <<ver, queued, bitmap, since, checkpointing>>
historyVars == <<overwritten, stale, published>>
vars == <<fileVars, recordVars, taskVars, stateVars, historyVars>>

Stopped == {"done", "failed", "cancelled", "ended", "dead"}
Saving == {"snapshot", "sync", "tmp", "rename"}
\* run() has created the staging file, which was there or was not, and has
\* yet to find out which chunks it holds.
Opening == {"found", "made"}
PC == {"idle", "accepting", "reading", "writing", "wrote", "count", "trylock",
       "finish", "discard"} \cup Opening \cup Saving \cup Stopped

TypeOK ==
    /\ exists \in BOOLEAN
    /\ cache \in [Region -> Content]
    /\ onDevice \in [Region -> SUBSET Content]
    /\ record \in Record \cup {NoRecord}
    /\ onDeviceRecord \subseteq Record \cup {NoRecord}
    /\ tmp \in Record \cup {NoRecord}
    /\ pc \in [Session -> [Task -> PC]]
    /\ chunk \in [Session -> [Task -> Region]]
    /\ snap \in [Session -> [Task -> SUBSET Region]]
    /\ ver \in [Session -> Version]
    /\ queued \in [Session -> SUBSET Region]
    /\ bitmap \in [Session -> SUBSET Region]
    /\ since \in [Session -> 0..CheckpointChunks]
    /\ checkpointing \in [Session -> BOOLEAN]
    /\ overwritten \subseteq Session
    /\ stale \subseteq Record
    /\ published \in [Session -> SUBSET Region]

Init ==
    /\ exists = FALSE
    /\ cache = [c \in Region |-> Absent]
    /\ onDevice = [c \in Region |-> {Absent}]
    /\ record = NoRecord
    /\ onDeviceRecord = {NoRecord}
    /\ tmp = NoRecord
    /\ pc = [s \in Session |-> [w \in Task |-> "idle"]]
    /\ chunk = [s \in Session |-> [w \in Task |-> 0]]
    /\ snap = [s \in Session |-> [w \in Task |-> {}]]
    /\ ver \in [Session -> Version]
    /\ queued = [s \in Session |-> {}]
    /\ bitmap = [s \in Session |-> {}]
    /\ since = [s \in Session |-> 0]
    /\ checkpointing = [s \in Session |-> FALSE]
    /\ overwritten = {}
    /\ stale = {}
    /\ published = [s \in Session |-> {}]

Opened(s) == pc[s][Main] # "idle"
Alive(s, w) == pc[s][w] \notin Stopped \cup {"idle"}
Quiet == \A s \in Session, w \in Task : ~ Alive(s, w)

Goto(s, w, label) == pc' = [pc EXCEPT ![s][w] = label]

-----------------------------------------------------------------------------
\* History of a change that puts f[c] into every region c of C: the records
\* and the sessions that counted on other bytes there.
Claims == (onDeviceRecord \cup {record, tmp}) \ {NoRecord}
Voided(C, f) ==
    {r \in Claims : \E c \in C : c \in r.bits /\ Data[r.key][c] # f[c]}
Disturbed(C, f) ==
    {s \in Session : Opened(s) /\ \E c \in C : Data[ver[s]][c] # f[c]}

-----------------------------------------------------------------------------
(* Opening a session on the path: the body of run()'s loop over the offer. *)

\* SinkFile::create and platform::preallocate: set_len to the offered size,
\* skipped for an empty file.
Created(v) ==
    IF Chunks(v) = {} THEN cache
    ELSE [c \in Region |->
            IF c \notin Chunks(v) THEN Absent
            ELSE IF cache[c] = Absent THEN Zero ELSE cache[c]]

\* Mutant of Loads: the sidecar's key is not compared.
LoadsAnyKey(v, file) ==
    /\ record # NoRecord
    /\ {c \in Region : file[c] # Absent} = Chunks(v)

\* resume::load accepts the sidecar: same key, and the staging file has the
\* recorded size.  file is the content at the time of the call, which follows
\* the creation.
Loads(v, file) ==
    /\ record # NoRecord
    /\ record.key = v
    /\ {c \in Region : file[c] # Absent} = Chunks(v)

\* resume::rebuild_by_verification
RebuildByVerification(v, file) == {c \in Chunks(v) : file[c] = Data[v][c]}

\* The bitmap a session starts from; preexisting was read before create.
StartBitmap(v, resume, preexisting, file) ==
    IF ~resume THEN {}
    ELSE IF Loads(v, file) THEN record.bits
    ELSE IF preexisting THEN RebuildByVerification(v, file)
    ELSE {}

\* An earlier run() no longer keeps the host from starting another: it has
\* returned, or it was cancelled inside its last checkpoint, the blocking part
\* of which runs on.
GaveWay(r) == pc[r][Main] \in Stopped \cup {"sync", "tmp", "rename"}

\* A session starts only when every earlier run() gave way; with Overlap,
\* what they left running may still be.  Whether the staging file predates the
\* session is asked before it is created.
Create(s) ==
    LET file == Created(ver[s])
        changed == {c \in Region : file[c] # cache[c]}
    IN  /\ pc[s][Main] = "idle"
        /\ \A r \in Session : r < s => GaveWay(r)
        /\ Overlap \/ Quiet
        /\ Goto(s, Main, IF exists THEN "found" ELSE "made")
        /\ exists' = TRUE
        /\ cache' = file
        /\ onDevice' = [c \in Region |-> onDevice[c] \cup {file[c]}]
        /\ overwritten' = overwritten \cup Disturbed(changed, file)
        /\ stale' = stale \cup Voided(changed, file)
        /\ UNCHANGED <<recordVars, chunk, snap, stateVars, published>>

\* The bitmap is found and the FileState made of it.
Load(s, resume) ==
    LET v == ver[s]
        have == StartBitmap(v, resume, pc[s][Main] = "found", cache)
    IN  /\ pc[s][Main] \in Opening
        /\ Goto(s, Main, "accepting")
        /\ bitmap' = [bitmap EXCEPT ![s] = have]
        /\ queued' = [queued EXCEPT ![s] = Chunks(v) \ have]
        /\ since' = [since EXCEPT ![s] = 0]
        /\ checkpointing' = [checkpointing EXCEPT ![s] = FALSE]
        /\ overwritten' = overwritten \cup
                IF resume /\ Loads(v, cache) /\ record \in stale THEN {s} ELSE {}
        /\ published' = [published EXCEPT ![s] = have]
        /\ UNCHANGED <<fileVars, recordVars, chunk, snap, ver, stale>>

\* One pass of the accept loop: a data stream arrived, its worker is spawned.
Accept(s, w) ==
    /\ pc[s][Main] = "accepting"
    /\ w \in Stream
    /\ pc[s][w] = "idle"
    /\ Goto(s, w, "reading")
    /\ UNCHANGED <<fileVars, recordVars, chunk, snap, stateVars, historyVars>>

\* run() returns early with an error (a later entry of the offer is refused,
\* Accept cannot be written, a stream does not arrive) and drops the handles
\* of the workers it spawned, which keep running.
AcceptFails(s) ==
    /\ pc[s][Main] = "accepting"
    /\ \E w \in Stream : pc[s][w] = "idle"
    /\ Goto(s, Main, "failed")
    /\ UNCHANGED <<fileVars, recordVars, chunk, snap, stateVars, historyVars>>

\* The host app cancels: run()'s task is aborted, its workers are detached.
Cancel(s) ==
    /\ pc[s][Main] = "accepting"
    /\ Goto(s, Main, "cancelled")
    /\ UNCHANGED <<fileVars, recordVars, chunk, snap, stateVars, historyVars>>

-----------------------------------------------------------------------------
(* A stream worker: drain_stream. *)

\* Frames of one chunk arrived and verified; write_all_at begins.  Until it
\* ends the region holds part of the new bytes, unless they were there.
BeginWrite(s, w) ==
    \E c \in queued[s] :
        /\ pc[s][w] = "reading"
        /\ queued' = [queued EXCEPT ![s] = @ \ {c}]
        /\ chunk' = [chunk EXCEPT ![s][w] = c]
        /\ Goto(s, w, "writing")
        /\ IF cache[c] = Data[ver[s]][c]
             THEN UNCHANGED <<cache, onDevice>>
             ELSE /\ cache' = [cache EXCEPT ![c] = Torn]
                  /\ onDevice' = [onDevice EXCEPT ![c] = @ \cup {Torn, Data[ver[s]][c]}]
        /\ overwritten' = overwritten \cup Disturbed({c}, Data[ver[s]])
        /\ stale' = stale \cup Voided({c}, Data[ver[s]])
        /\ UNCHANGED <<exists, recordVars, snap, ver, bitmap, since,
                       checkpointing, published>>

\* write_all_at returned.
EndWrite(s, w) ==
    LET c == chunk[s][w] IN
    /\ pc[s][w] = "writing"
    /\ Goto(s, w, "wrote")
    /\ cache' = [cache EXCEPT ![c] = Data[ver[s]][c]]
    /\ onDevice' = [onDevice EXCEPT ![c] = @ \cup {Data[ver[s]][c]}]
    /\ overwritten' = overwritten \cup Disturbed({c}, Data[ver[s]])
    /\ stale' = stale \cup Voided({c}, Data[ver[s]])
    /\ UNCHANGED <<exists, recordVars, chunk, snap, stateVars, published>>

\* Mutant of SetBit: off by one.
SetNextBit(s, w) ==
    /\ pc[s][w] = "wrote"
    /\ bitmap' = [bitmap EXCEPT ![s] = @ \cup {chunk[s][w] + 1}]
    /\ Goto(s, w, "count")
    /\ UNCHANGED <<fileVars, recordVars, chunk, snap, ver, queued, since,
                   checkpointing, historyVars>>

\* bitmap.set under the bitmap lock.
SetBit(s, w) ==
    /\ pc[s][w] = "wrote"
    /\ bitmap' = [bitmap EXCEPT ![s] = @ \cup {chunk[s][w]}]
    /\ Goto(s, w, "count")
    /\ UNCHANGED <<fileVars, recordVars, chunk, snap, ver, queued, since,
                   checkpointing, historyVars>>

\* checkpoint_if_due up to the threshold test; off, the counter stays.
CountSince(s, w) ==
    /\ pc[s][w] = "count"
    /\ IF CheckpointChunks = 0
         THEN Goto(s, w, "reading") /\ UNCHANGED since
         ELSE LET n == IF since[s] < CheckpointChunks THEN since[s] + 1 ELSE since[s]
              IN  /\ since' = [since EXCEPT ![s] = n]
                  /\ Goto(s, w, IF n < CheckpointChunks THEN "reading" ELSE "trylock")
    /\ UNCHANGED <<fileVars, recordVars, chunk, snap, ver, queued, bitmap,
                   checkpointing, historyVars>>

\* Mutant of TryLock: no guard.
NoLock(s, w) ==
    /\ pc[s][w] = "trylock"
    /\ since' = [since EXCEPT ![s] = 0]
    /\ Goto(s, w, "snapshot")
    /\ UNCHANGED <<fileVars, recordVars, chunk, snap, ver, queued, bitmap,
                   checkpointing, historyVars>>

\* The try_lock: the loser goes on reading, the winner resets the counter and
\* runs the checkpoint with the guard held.
TryLock(s, w) ==
    /\ pc[s][w] = "trylock"
    /\ IF checkpointing[s]
         THEN Goto(s, w, "reading") /\ UNCHANGED <<since, checkpointing>>
         ELSE /\ checkpointing' = [checkpointing EXCEPT ![s] = TRUE]
              /\ since' = [since EXCEPT ![s] = 0]
              /\ Goto(s, w, "snapshot")
    /\ UNCHANGED <<fileVars, recordVars, chunk, snap, ver, queued, bitmap, historyVars>>

\* The peer closed the stream between two chunks.
StreamEnds(s, w) ==
    /\ w \in Stream
    /\ pc[s][w] = "reading"
    /\ Goto(s, w, "ended")
    /\ UNCHANGED <<fileVars, recordVars, chunk, snap, stateVars, historyVars>>

\* The worker returns an error: the connection broke, a frame was refused, a
\* chunk failed its hash (reading), or the disk refused the write (writing).
StreamFails(s, w) ==
    /\ w \in Stream
    /\ pc[s][w] \in {"reading", "writing"}
    /\ Goto(s, w, "failed")
    /\ UNCHANGED <<fileVars, recordVars, chunk, snap, stateVars, historyVars>>

-----------------------------------------------------------------------------
(* checkpoint: run by a worker that holds the guard, or by run() once every *)
(* worker has been awaited.                                                 *)

\* Mutant of Leave: a worker retries a failed checkpoint with the guard held.
LeaveRetrying(s, w, ok) ==
    IF w # Main /\ ~ok
      THEN Goto(s, w, "snapshot") /\ UNCHANGED checkpointing
      ELSE /\ Goto(s, w, IF w # Main THEN "reading" ELSE "failed")
           /\ checkpointing' = [checkpointing EXCEPT ![s] = IF w = Main THEN @ ELSE FALSE]

\* Leaving checkpoint: a worker drops the guard and goes on, or fails with
\* the error; run() ignores the outcome and returns its own error.
Leave(s, w, ok) ==
    /\ Goto(s, w, IF w # Main /\ ok THEN "reading" ELSE "failed")
    /\ checkpointing' = [checkpointing EXCEPT ![s] = IF w = Main THEN @ ELSE FALSE]

\* The bitmap is copied before the fsync; an empty one is not recorded.
Snapshot(s, w) ==
    /\ pc[s][w] = "snapshot"
    /\ snap' = [snap EXCEPT ![s][w] = bitmap[s]]
    /\ IF bitmap[s] = {}
         THEN Leave(s, w, TRUE)
         ELSE Goto(s, w, "sync") /\ UNCHANGED checkpointing
    /\ UNCHANGED <<fileVars, recordVars, chunk, ver, queued, bitmap, since, historyVars>>

\* Mutant of SyncData: the data is not synced before it is recorded.
SkipSyncData(s, w) ==
    /\ pc[s][w] = "sync"
    /\ Goto(s, w, "tmp")
    /\ UNCHANGED <<fileVars, recordVars, chunk, snap, stateVars, historyVars>>

\* sync_data: everything in the cache has reached the device.
SyncData(s, w) ==
    /\ pc[s][w] = "sync"
    /\ onDevice' = [c \in Region |-> {cache[c]}]
    /\ Goto(s, w, "tmp")
    /\ UNCHANGED <<exists, cache, recordVars, chunk, snap, stateVars, historyVars>>

\* Mutant of WriteTmp: the bitmap is read after the fsync.
WriteTmpLateSnapshot(s, w) ==
    LET r == [key |-> ver[s], bits |-> bitmap[s]] IN
    /\ pc[s][w] = "tmp"
    /\ tmp' = r
    /\ Goto(s, w, "rename")
    /\ stale' = IF s \in overwritten THEN stale \cup {r} ELSE stale \ {r}
    /\ published' = [published EXCEPT ![s] = bitmap[s]]
    /\ UNCHANGED <<fileVars, record, onDeviceRecord, chunk, snap, stateVars, overwritten>>

\* resume::persist, first half: the record is written to the temporary file
\* and synced.  Two sessions' workers share that file.
WriteTmp(s, w) ==
    LET r == [key |-> ver[s], bits |-> snap[s][w]] IN
    /\ pc[s][w] = "tmp"
    /\ tmp' = r
    /\ Goto(s, w, "rename")
    /\ stale' = IF s \in overwritten THEN stale \cup {r} ELSE stale \ {r}
    /\ published' = [published EXCEPT ![s] = snap[s][w]]
    /\ UNCHANGED <<fileVars, record, onDeviceRecord, chunk, snap, stateVars, overwritten>>

\* resume::persist, second half: the rename.  It fails if the temporary file
\* is gone, because another session renamed or discarded it.
Rename(s, w) ==
    /\ pc[s][w] = "rename"
    /\ IF tmp = NoRecord
         THEN UNCHANGED recordVars
         ELSE /\ record' = tmp
              /\ onDeviceRecord' = onDeviceRecord \cup {tmp}
              /\ tmp' = NoRecord
    /\ Leave(s, w, tmp # NoRecord)
    /\ UNCHANGED <<fileVars, chunk, snap, ver, queued, bitmap, since, historyVars>>

\* The fsync, the write of the temporary file or its rename fails.
SaveFails(s, w) ==
    /\ pc[s][w] \in {"sync", "tmp", "rename"}
    /\ Leave(s, w, FALSE)
    /\ UNCHANGED <<fileVars, recordVars, chunk, snap, ver, queued, bitmap, since, historyVars>>

-----------------------------------------------------------------------------
(* The end of run(). *)

\* Mutants of Join: run() acts on the first error without awaiting the other
\* workers; run() waits for every worker to end cleanly.
JoinOnFirstError(s) ==
    /\ pc[s][Main] = "accepting"
    /\ \/ \E w \in Stream : pc[s][w] = "failed"
       \/ \A w \in Stream : pc[s][w] = "ended"
    /\ Goto(s, Main,
            IF (\E w \in Stream : pc[s][w] = "failed") \/ bitmap[s] # Chunks(ver[s])
            THEN "snapshot" ELSE "finish")
    /\ UNCHANGED <<fileVars, recordVars, chunk, snap, stateVars, historyVars>>
JoinWhenClean(s) ==
    /\ pc[s][Main] = "accepting"
    /\ \A w \in Stream : pc[s][w] = "ended"
    /\ Goto(s, Main, IF bitmap[s] # Chunks(ver[s]) THEN "snapshot" ELSE "finish")
    /\ UNCHANGED <<fileVars, recordVars, chunk, snap, stateVars, historyVars>>

\* Every worker has been awaited: checkpoint and fail on the first error or
\* when chunks are missing, otherwise finish.
Join(s) ==
    /\ pc[s][Main] = "accepting"
    /\ \A w \in Stream : pc[s][w] \in {"ended", "failed"}
    /\ Goto(s, Main,
            IF (\E w \in Stream : pc[s][w] = "failed") \/ bitmap[s] # Chunks(ver[s])
            THEN "snapshot" ELSE "finish")
    /\ UNCHANGED <<fileVars, recordVars, chunk, snap, stateVars, historyVars>>

\* Mutant of Finish: Complete is reported without the final sync.
FinishUnsynced(s) ==
    /\ pc[s][Main] = "finish"
    /\ Goto(s, Main, "discard")
    /\ UNCHANGED <<fileVars, recordVars, chunk, snap, stateVars, historyVars>>

\* sink.sync(): sync_all on the complete file, or its failure.
Finish(s) ==
    /\ pc[s][Main] = "finish"
    /\ \/ /\ onDevice' = [c \in Region |-> {cache[c]}]
          /\ Goto(s, Main, "discard")
       \/ /\ Goto(s, Main, "failed")
          /\ UNCHANGED onDevice
    /\ UNCHANGED <<exists, cache, recordVars, chunk, snap, stateVars, historyVars>>

\* resume::discard, then Complete is reported.
Discard(s) ==
    /\ pc[s][Main] = "discard"
    /\ record' = NoRecord
    /\ onDeviceRecord' = onDeviceRecord \cup {NoRecord}
    /\ tmp' = NoRecord
    /\ Goto(s, Main, "done")
    /\ UNCHANGED <<fileVars, chunk, snap, stateVars, historyVars>>

-----------------------------------------------------------------------------
(* The environment. *)

\* The process is gone, and with it every task and every FileState.
Forget ==
    /\ pc' = [s \in Session |-> [w \in Task |->
                IF Opened(s) /\ pc[s][w] \notin Stopped THEN "dead" ELSE pc[s][w]]]
    /\ chunk' = [s \in Session |-> [w \in Task |-> 0]]
    /\ snap' = [s \in Session |-> [w \in Task |-> {}]]
    /\ queued' = [s \in Session |-> {}]
    /\ bitmap' = [s \in Session |-> {}]
    /\ since' = [s \in Session |-> 0]
    /\ checkpointing' = [s \in Session |-> FALSE]
    /\ UNCHANGED <<ver, historyVars>>

\* The process is killed: the page cache survives it.
Kill ==
    /\ ~ Quiet
    /\ Forget
    /\ UNCHANGED <<fileVars, recordVars>>

\* Power loss: each region and the sidecar come back as any of the contents
\* the device may have.  A file has no hole before its end.
PowerLoss ==
    /\ \E s \in Session : Opened(s)
    /\ Forget
    /\ cache' \in {f \in [Region -> UNION {onDevice[c] : c \in Region}] :
                     /\ \A c \in Region : f[c] \in onDevice[c]
                     /\ \A c, d \in Region : c < d /\ f[d] # Absent => f[c] # Absent}
    /\ exists' \in {e \in BOOLEAN : e \/ \A c \in Region : cache'[c] = Absent}
    /\ onDevice' = [c \in Region |-> {cache'[c]}]
    /\ record' \in onDeviceRecord
    /\ onDeviceRecord' = {record'}
    /\ UNCHANGED tmp

\* Somebody deletes or truncates the staging file while no task is using it,
\* and leaves the sidecar.
Tamper(how) ==
    \E n \in Region :
        LET file == [c \in Region |-> IF c < n THEN cache[c] ELSE Absent]
            cut == {c \in Region : file[c] # cache[c]}
        IN  /\ Quiet
            /\ exists
            /\ how = "delete" => n = 0
            /\ how = "truncate" => cut # {}
            /\ exists' = (how # "delete")
            /\ cache' = file
            /\ onDevice' = [c \in Region |-> onDevice[c] \cup {file[c]}]
            /\ overwritten' = overwritten \cup Disturbed(cut, file)
            /\ stale' = stale \cup Voided(cut, file)
            /\ UNCHANGED <<recordVars, taskVars, stateVars, published>>

-----------------------------------------------------------------------------
MainStep(s) ==
    \/ Create(s)
    \/ \E resume \in ResumeFlag : Load(s, resume)
    \/ \E w \in Stream : Accept(s, w)
    \/ AcceptFails(s) \/ Cancel(s) \/ Join(s) \/ Finish(s) \/ Discard(s)

WorkerStep(s, w) ==
    \/ BeginWrite(s, w) \/ EndWrite(s, w) \/ SetBit(s, w)
    \/ CountSince(s, w) \/ TryLock(s, w)
    \/ StreamEnds(s, w) \/ StreamFails(s, w)

CheckpointStep(s, w) ==
    \/ Snapshot(s, w) \/ SyncData(s, w) \/ WriteTmp(s, w) \/ Rename(s, w)
    \/ SaveFails(s, w)

Next ==
    \/ \E s \in Session : MainStep(s)
    \/ \E s \in Session, w \in Stream : WorkerStep(s, w)
    \/ \E s \in Session, w \in Task : CheckpointStep(s, w)
    \/ Kill
    \/ PowerLoss
    \/ \E how \in Tampering : Tamper(how)

Spec == Init /\ [][Next]_vars

\* The runtime keeps polling every task, and the peer either goes on sending
\* or closes; nothing obliges the host to start, cancel or kill a session.
Fairness ==
    /\ \A s \in Session : WF_vars((\E resume \in ResumeFlag : Load(s, resume))
                                  \/ (\E w \in Stream : Accept(s, w)) \/ AcceptFails(s)
                                  \/ Join(s) \/ Finish(s) \/ Discard(s))
    /\ \A s \in Session, w \in Stream : WF_vars(WorkerStep(s, w))
    /\ \A s \in Session, w \in Task : WF_vars(CheckpointStep(s, w))

FairSpec == Spec /\ Fairness

-----------------------------------------------------------------------------
(* Properties. *)

\* A record that may be read after a power loss claims only chunks that are
\* on the device with the offered bytes, unless another party changed those
\* bytes after it was written: the snapshot-before-fsync-before-rename order
\* of checkpoint() and persist().
RecordSound ==
    \A r \in Claims \ stale : \A c \in r.bits : onDevice[c] = {Data[r.key][c]}

\* A set bit means the chunk's offered bytes are in the file: verify_and_write
\* precedes bitmap.set, and a bitmap taken from the sidecar or rebuilt by
\* hashing is right.  Sessions another party wrote under are excepted.
BitmapSound ==
    \A s \in Session \ overwritten : \A c \in bitmap[s] : cache[c] = Data[ver[s]][c]

\* At most one task of a session is inside checkpoint(), although the error
\* path of run() takes no guard and the workers use try_lock.
OneCheckpoint ==
    \A s \in Session : \A w, x \in Task :
        pc[s][w] \in Saving /\ pc[s][x] \in Saving => w = x

\* When a transfer of a non-empty file is reported complete, the device holds
\* exactly that file, bytes past its end included, so no later power loss can
\* take it back.
CompleteExact ==
    [][\A s \in Session \ overwritten :
        pc[s][Main] # "done" /\ pc'[s][Main] = "done" /\ Chunks(ver[s]) # {}
            => \A c \in Region : onDevice'[c] = {Data[ver[s]][c]}]_vars

\* The records one session writes only gain chunks, starting from what it
\* resumed with: an older snapshot never replaces a newer one of the session.
RecordsGrow ==
    [][\A s \in Session : Opened(s) => published[s] \subseteq published'[s]]_vars

\* Every session that started ends, and so does every worker, also a detached
\* one: nobody waits forever for the guard or for a worker that failed.
SessionEnds ==
    \A s \in Session : Opened(s) ~> pc[s][Main] \in Stopped
WorkersEnd ==
    \A s \in Session, w \in Stream :
        pc[s][w] = "reading" ~> pc[s][w] \in Stopped

-----------------------------------------------------------------------------
(* What the comments and tests of the code claim, without the exceptions. *)

Alone(s) == \A r \in Session \ {s}, w \in Task : ~ Alive(r, w)

\* resume.rs: a bit is set only for a chunk whose hash matched and whose
\* bytes are on disk.  Stated of the bitmap a session starts from when no
\* task of another session is left.
ResumeSound ==
    [][\A s \in Session :
        pc[s][Main] \in Opening /\ pc'[s][Main] = "accepting" /\ Alone(s)
            => \A c \in bitmap'[s] : cache'[c] = Data[ver[s]][c]]_vars

\* tests/resume.rs: a completed transfer is byte-for-byte correct.
CompleteMatches ==
    [][\A s \in Session :
        pc[s][Main] # "done" /\ pc'[s][Main] = "done" => cache' = Data[ver[s]]]_vars

\* resume.rs: an interruption re-sends one checkpoint interval.  Stated with
\* one chunk of slack per stream.
ResendBound ==
    \A s \in Session :
        Cardinality(bitmap[s] \ UNION {r.bits : r \in {record} \cap Record})
            <= CheckpointChunks + Cardinality(Stream)
=============================================================================
