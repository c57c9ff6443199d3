------------------------- MODULE StagingFile_proofs -------------------------
(***************************************************************************)
(* Proofs about StagingFile, for any number of sessions, streams, regions  *)
(* and versions, and any contents.                                         *)
(***************************************************************************)
EXTENDS StagingFile, TLAPS

-----------------------------------------------------------------------------
(* The inductive invariant. *)

\* The cached content is one of those the device may have, and so is the
\* sidecar.
Writeback ==
    /\ \A c \in Region : cache[c] \in onDevice[c]
    /\ record \in onDeviceRecord

\* Before a session's FileState is made.
Early == {"idle"} \cup Opening

\* Who may be where: workers and bits exist only once the FileState is made,
\* run() goes past its accept loop only when every worker has stopped, and a
\* worker inside checkpoint() holds the session's only guard.
Guard ==
    \A s \in Session :
        /\ pc[s][Main] \in Early =>
             bitmap[s] = {} /\ \A w \in Stream : pc[s][w] = "idle"
        /\ pc[s][Main] \in Saving \cup {"finish", "discard"} =>
             \A w \in Stream : pc[s][w] \in Stopped
        /\ \A w \in Stream : pc[s][w] \in Saving => checkpointing[s]
        /\ \A w, x \in Stream :
             pc[s][w] \in Saving /\ pc[s][x] \in Saving => w = x

\* No record was written before.
Fresh == \A s \in Session : pc[s][Main] \in Early => published[s] = {}

\* A snapshot holds no chunk the bitmap has not, and no less than the last
\* record its session wrote.
Snapshots ==
    \A s \in Session : \A w \in Task :
        /\ Alive(s, w) => published[s] \subseteq bitmap[s]
        /\ pc[s][w] \in {"sync", "tmp", "rename"} =>
             snap[s][w] \subseteq bitmap[s] /\ published[s] \subseteq snap[s][w]

\* What a task of an undisturbed session knows of the file: the chunk it has
\* just written is there, and a synced snapshot is on the device.
Progress ==
    \A s \in Session \ overwritten : \A w \in Task :
        /\ pc[s][w] = "wrote" => cache[chunk[s][w]] = Data[ver[s]][chunk[s][w]]
        /\ pc[s][w] \in {"tmp", "rename"} =>
             \A c \in snap[s][w] : onDevice[c] = {Data[ver[s]][c]}

\* What run() knows of the file: nothing lies past the offered end, all
\* chunks are there when it finishes, all on the device when it discards.
CompletionOf(s) ==
    /\ pc[s][Main] \in Opening \cup {"accepting", "finish", "discard"} /\ Chunks(ver[s]) # {} =>
         \A c \in Region \ Chunks(ver[s]) : cache[c] = Absent
    /\ pc[s][Main] \in {"finish", "discard"} => bitmap[s] = Chunks(ver[s])
    /\ pc[s][Main] = "discard" /\ Chunks(ver[s]) # {} =>
         \A c \in Region : onDevice[c] = {Data[ver[s]][c]}
Completion == \A s \in Session \ overwritten : CompletionOf(s)

IInv ==
    /\ TypeOK
    /\ Writeback
    /\ Guard
    /\ Fresh
    /\ Snapshots
    /\ BitmapSound
    /\ RecordSound
    /\ Progress
    /\ Completion

-----------------------------------------------------------------------------
(* Type correctness. *)

\* What run() itself does keeps every variable in its type.
LEMMA MainType ==
    ASSUME TypeOK, NEW s \in Session, MainStep(s)
    PROVE  TypeOK'
<1>. USE ConstantsAssumption, RecordAssumption
<1>1. Main \in Task
  BY DEF Task
<1>2. CASE Create(s)
  <2>. DEFINE file == Created(ver[s])
              changed == {c \in Region : file[c] # cache[c]}
  <2>1. file \in [Region -> Content]
    BY DEF TypeOK, Created, Content
  <2>2. Voided(changed, file) \subseteq Record
    BY DEF TypeOK, Voided, Claims
  <2>3. Disturbed(changed, file) \subseteq Session
    BY DEF Disturbed
  <2>. HIDE DEF file, changed
  <2>4. /\ exists' \in BOOLEAN
        /\ cache' \in [Region -> Content]
        /\ onDevice' \in [Region -> SUBSET Content]
    BY <1>2, <2>1 DEF TypeOK, Create, file
  <2>5. /\ overwritten' \subseteq Session
        /\ stale' \subseteq Record
    BY <1>2, <2>2, <2>3 DEF TypeOK, Create, changed, file
  <2>6. pc' \in [Session -> [Task -> PC]]
    BY <1>1, <1>2 DEF TypeOK, Create, Goto, PC, Opening
  <2>7. UNCHANGED <<record, onDeviceRecord, tmp, chunk, snap, stateVars, published>>
    BY <1>2 DEF Create, recordVars
  <2>. QED
    BY <2>4, <2>5, <2>6, <2>7 DEF TypeOK, stateVars
<1>9. ASSUME NEW resume \in ResumeFlag, Load(s, resume)
      PROVE  TypeOK'
  <2>. DEFINE have == StartBitmap(ver[s], resume, pc[s][Main] = "found", cache)
  <2>1. have \in SUBSET Region
    BY DEF TypeOK, StartBitmap, Loads, RebuildByVerification, Chunks, Record
  <2>. HIDE DEF have
  <2>2. /\ bitmap' \in [Session -> SUBSET Region]
        /\ published' \in [Session -> SUBSET Region]
        /\ queued' \in [Session -> SUBSET Region]
    BY <1>9, <2>1 DEF TypeOK, Load, have, Chunks
  <2>3. overwritten' \subseteq Session
    BY <1>9 DEF TypeOK, Load
  <2>4. /\ pc' \in [Session -> [Task -> PC]]
        /\ since' \in [Session -> 0..CheckpointChunks]
        /\ checkpointing' \in [Session -> BOOLEAN]
    BY <1>1, <1>9 DEF TypeOK, Load, Goto, PC
  <2>5. UNCHANGED <<exists, cache, onDevice, record, onDeviceRecord, tmp, chunk, snap, ver, stale>>
    BY <1>9 DEF Load, fileVars, recordVars
  <2>. QED
    BY <2>2, <2>3, <2>4, <2>5 DEF TypeOK
<1>3. ASSUME NEW w \in Stream, Accept(s, w)
      PROVE  TypeOK'
  BY <1>3 DEF Accept, TypeOK, Goto, PC, Task, fileVars, recordVars, stateVars, historyVars
<1>4. CASE AcceptFails(s)
  BY <1>1, <1>4 DEF AcceptFails, TypeOK, Goto, PC, Stopped, fileVars, recordVars, stateVars, historyVars
<1>5. CASE Cancel(s)
  BY <1>1, <1>5 DEF Cancel, TypeOK, Goto, PC, Stopped, fileVars, recordVars, stateVars, historyVars
<1>6. CASE Join(s)
  BY <1>1, <1>6 DEF Join, TypeOK, Goto, PC, Saving, fileVars, recordVars, stateVars, historyVars
<1>7. CASE Finish(s)
  <2>1. onDevice' \in [Region -> SUBSET Content]
    BY <1>7 DEF Finish, TypeOK
  <2>2. pc' \in [Session -> [Task -> PC]]
    <3>1. \E l \in {"discard", "failed"} : Goto(s, Main, l)
      BY <1>7 DEF Finish
    <3>. QED
      BY <1>1, <3>1 DEF TypeOK, Goto, PC, Stopped
  <2>. QED
    BY <1>7, <2>1, <2>2 DEF Finish, TypeOK, recordVars, stateVars, historyVars
<1>8. CASE Discard(s)
  BY <1>1, <1>8 DEF Discard, TypeOK, Goto, PC, Stopped, fileVars, stateVars, historyVars
<1>. QED
  BY <1>2, <1>3, <1>4, <1>5, <1>6, <1>7, <1>8, <1>9 DEF MainStep

\* So does a worker.
LEMMA WorkerType ==
    ASSUME TypeOK, NEW s \in Session, NEW w \in Stream, WorkerStep(s, w)
    PROVE  TypeOK'
<1>. USE ConstantsAssumption, RecordAssumption
<1>1. w \in Task
  BY DEF Task
<1>2. ASSUME NEW C, NEW f
      PROVE  Voided(C, f) \subseteq Record /\ Disturbed(C, f) \subseteq Session
  BY DEF TypeOK, Voided, Claims, Disturbed
<1>3. CASE BeginWrite(s, w)
  <2>1. PICK c \in queued[s] : BeginWrite(s, w)!(c)
    BY <1>3 DEF BeginWrite
  <2>2. c \in Region /\ Data[ver[s]][c] \in Content
    BY DEF TypeOK, Content
  <2>3. cache' \in [Region -> Content] /\ onDevice' \in [Region -> SUBSET Content]
    <3>1. CASE cache[c] = Data[ver[s]][c]
      BY <2>1, <3>1 DEF TypeOK
    <3>2. CASE cache[c] # Data[ver[s]][c]
      <4>1. cache' = [cache EXCEPT ![c] = Torn]
        BY <2>1, <3>2
      <4>2. onDevice' = [onDevice EXCEPT ![c] = @ \cup {Torn, Data[ver[s]][c]}]
        BY <2>1, <3>2
      <4>3. Torn \in Content /\ onDevice[c] \cup {Torn, Data[ver[s]][c]} \in SUBSET Content
        BY <2>2 DEF TypeOK, Content
      <4>. QED
        BY <4>1, <4>2, <4>3 DEF TypeOK
    <3>. QED
      BY <3>1, <3>2
  <2>4. overwritten' \subseteq Session /\ stale' \subseteq Record
    BY <1>2, <2>1 DEF TypeOK
  <2>. QED
    BY <1>1, <2>1, <2>2, <2>3, <2>4 DEF TypeOK, Goto, PC, recordVars
<1>4. CASE EndWrite(s, w)
  <2>1. cache' \in [Region -> Content] /\ onDevice' \in [Region -> SUBSET Content]
    BY <1>1, <1>4 DEF EndWrite, TypeOK, Content
  <2>2. overwritten' \subseteq Session /\ stale' \subseteq Record
    BY <1>2, <1>4 DEF EndWrite, TypeOK
  <2>. QED
    BY <1>1, <1>4, <2>1, <2>2 DEF EndWrite, TypeOK, Goto, PC, recordVars, stateVars
<1>5. CASE SetBit(s, w)
  BY <1>1, <1>5 DEF SetBit, TypeOK, Goto, PC, fileVars, recordVars, historyVars
<1>6. CASE CountSince(s, w)
  <2>1. since' \in [Session -> 0..CheckpointChunks]
    <3>1. CASE CheckpointChunks = 0
      BY <1>6, <3>1 DEF CountSince, TypeOK
    <3>2. CASE CheckpointChunks # 0
      <4>. DEFINE n == IF since[s] < CheckpointChunks THEN since[s] + 1 ELSE since[s]
      <4>1. n \in 0..CheckpointChunks
        BY DEF TypeOK
      <4>2. since' = [since EXCEPT ![s] = n]
        BY <1>6, <3>2 DEF CountSince
      <4>. HIDE DEF n
      <4>. QED
        BY <4>1, <4>2 DEF TypeOK
    <3>. QED
      BY <3>1, <3>2
  <2>2. \E l \in {"reading", "trylock"} : Goto(s, w, l)
    BY <1>6 DEF CountSince
  <2>3. pc' \in [Session -> [Task -> PC]]
    BY <1>1, <2>2 DEF TypeOK, Goto, PC
  <2>. QED
    BY <1>6, <2>1, <2>3 DEF CountSince, TypeOK, fileVars, recordVars, historyVars
<1>7. CASE TryLock(s, w)
  <2>1. since' \in [Session -> 0..CheckpointChunks] /\ checkpointing' \in [Session -> BOOLEAN]
    <3>1. CASE checkpointing[s]
      BY <1>7, <3>1 DEF TryLock, TypeOK
    <3>2. CASE ~ checkpointing[s]
      <4>1. /\ checkpointing' = [checkpointing EXCEPT ![s] = TRUE]
            /\ since' = [since EXCEPT ![s] = 0]
        BY <1>7, <3>2 DEF TryLock
      <4>. QED
        BY <4>1 DEF TypeOK
    <3>. QED
      BY <3>1, <3>2
  <2>2. \E l \in {"reading", "snapshot"} : Goto(s, w, l)
    BY <1>7 DEF TryLock
  <2>3. pc' \in [Session -> [Task -> PC]]
    BY <1>1, <2>2 DEF TypeOK, Goto, PC, Saving
  <2>. QED
    BY <1>7, <2>1, <2>3 DEF TryLock, TypeOK, fileVars, recordVars, historyVars
<1>8. CASE StreamEnds(s, w)
  BY <1>1, <1>8 DEF StreamEnds, TypeOK, Goto, PC, Stopped, fileVars, recordVars, stateVars, historyVars
<1>9. CASE StreamFails(s, w)
  BY <1>1, <1>9 DEF StreamFails, TypeOK, Goto, PC, Stopped, fileVars, recordVars, stateVars, historyVars
<1>. QED
  BY <1>3, <1>4, <1>5, <1>6, <1>7, <1>8, <1>9 DEF WorkerStep

\* So does a checkpoint.
LEMMA CheckpointType ==
    ASSUME TypeOK, NEW s \in Session, NEW w \in Task, CheckpointStep(s, w)
    PROVE  TypeOK'
<1>. USE ConstantsAssumption, RecordAssumption
<1>1. ASSUME NEW ok \in BOOLEAN, Leave(s, w, ok)
      PROVE  /\ pc' \in [Session -> [Task -> PC]]
             /\ checkpointing' \in [Session -> BOOLEAN]
  <2>1. \E l \in {"reading", "failed"} : Goto(s, w, l)
    BY <1>1 DEF Leave
  <2>2. pc' \in [Session -> [Task -> PC]]
    BY <2>1 DEF TypeOK, Goto, PC, Stopped
  <2>3. checkpointing' \in [Session -> BOOLEAN]
    BY <1>1 DEF TypeOK, Leave
  <2>. QED
    BY <2>2, <2>3
<1>2. CASE Snapshot(s, w)
  <2>1. snap' \in [Session -> [Task -> SUBSET Region]]
    BY <1>2 DEF Snapshot, TypeOK
  <2>2. /\ pc' \in [Session -> [Task -> PC]]
        /\ checkpointing' \in [Session -> BOOLEAN]
    <3>1. CASE bitmap[s] = {}
      BY <1>1, <1>2, <3>1 DEF Snapshot
    <3>2. CASE bitmap[s] # {}
      <4>1. Goto(s, w, "sync") /\ checkpointing' = checkpointing
        BY <1>2, <3>2 DEF Snapshot
      <4>2. pc' \in [Session -> [Task -> PC]]
        BY <4>1 DEF Goto, TypeOK, PC, Saving
      <4>. QED
        BY <4>1, <4>2 DEF TypeOK
    <3>. QED
      BY <3>1, <3>2
  <2>. QED
    BY <1>2, <2>1, <2>2 DEF Snapshot, TypeOK, fileVars, recordVars, historyVars
<1>3. CASE SyncData(s, w)
  BY <1>3 DEF SyncData, TypeOK, Goto, PC, Saving, recordVars, stateVars, historyVars
<1>4. CASE WriteTmp(s, w)
  <2>. DEFINE r == [key |-> ver[s], bits |-> snap[s][w]]
  <2>1. r \in Record
    BY DEF TypeOK, Record
  <2>2. tmp' \in Record \cup {NoRecord} /\ stale' \subseteq Record
    BY <1>4, <2>1 DEF WriteTmp, TypeOK
  <2>3. published' \in [Session -> SUBSET Region]
    BY <1>4 DEF WriteTmp, TypeOK
  <2>4. pc' \in [Session -> [Task -> PC]]
    BY <1>4 DEF WriteTmp, TypeOK, Goto, PC, Saving
  <2>. QED
    BY <1>4, <2>2, <2>3, <2>4 DEF WriteTmp, TypeOK, fileVars, stateVars
<1>5. CASE Rename(s, w)
  <2>1. /\ pc' \in [Session -> [Task -> PC]]
        /\ checkpointing' \in [Session -> BOOLEAN]
    BY <1>1, <1>5 DEF Rename
  <2>2. /\ record' \in Record \cup {NoRecord}
        /\ onDeviceRecord' \subseteq Record \cup {NoRecord}
        /\ tmp' \in Record \cup {NoRecord}
    BY <1>5 DEF Rename, TypeOK, recordVars
  <2>. QED
    BY <1>5, <2>1, <2>2 DEF Rename, TypeOK, fileVars, historyVars
<1>6. CASE SaveFails(s, w)
  <2>1. /\ pc' \in [Session -> [Task -> PC]]
        /\ checkpointing' \in [Session -> BOOLEAN]
    BY <1>1, <1>6 DEF SaveFails
  <2>. QED
    BY <1>6, <2>1 DEF SaveFails, TypeOK, fileVars, recordVars, historyVars
<1>. QED
  BY <1>2, <1>3, <1>4, <1>5, <1>6 DEF CheckpointStep

\* So do a crash and somebody else's change of the file.
LEMMA EnvironmentType ==
    ASSUME TypeOK, Kill \/ PowerLoss \/ \E how \in Tampering : Tamper(how)
    PROVE  TypeOK'
<1>. USE ConstantsAssumption, RecordAssumption
<1>1. ASSUME Forget
      PROVE  /\ pc' \in [Session -> [Task -> PC]]
             /\ chunk' \in [Session -> [Task -> Region]]
             /\ snap' \in [Session -> [Task -> SUBSET Region]]
             /\ queued' \in [Session -> SUBSET Region]
             /\ bitmap' \in [Session -> SUBSET Region]
             /\ since' \in [Session -> 0..CheckpointChunks]
             /\ checkpointing' \in [Session -> BOOLEAN]
             /\ ver' \in [Session -> Version]
             /\ overwritten' \subseteq Session
             /\ stale' \subseteq Record
             /\ published' \in [Session -> SUBSET Region]
  BY <1>1 DEF Forget, TypeOK, PC, Stopped, Region, historyVars
<1>2. CASE Kill
  BY <1>1, <1>2 DEF Kill, TypeOK, fileVars, recordVars
<1>3. CASE PowerLoss
  <2>1. /\ \A c \in Region : cache'[c] \in onDevice[c]
        /\ cache' = [c \in Region |-> cache'[c]]
    BY <1>3 DEF PowerLoss
  <2>2. cache' \in [Region -> Content]
    BY <2>1 DEF TypeOK
  <2>3. onDevice' \in [Region -> SUBSET Content]
    BY <1>3, <2>2 DEF PowerLoss
  <2>4. /\ exists' \in BOOLEAN
        /\ record' \in Record \cup {NoRecord}
        /\ onDeviceRecord' \subseteq Record \cup {NoRecord}
        /\ tmp' \in Record \cup {NoRecord}
    BY <1>3 DEF PowerLoss, TypeOK
  <2>. QED
    BY <1>1, <1>3, <2>2, <2>3, <2>4 DEF PowerLoss, TypeOK
<1>4. ASSUME NEW how \in Tampering, Tamper(how)
      PROVE  TypeOK'
  <2>1. PICK n \in Region : Tamper(how)!(n)
    BY <1>4 DEF Tamper
  <2>. DEFINE file == [c \in Region |-> IF c < n THEN cache[c] ELSE Absent]
              cut == {c \in Region : file[c] # cache[c]}
  <2>2. file \in [Region -> Content]
    BY DEF TypeOK, Content
  <2>3. Voided(cut, file) \subseteq Record /\ Disturbed(cut, file) \subseteq Session
    BY DEF TypeOK, Voided, Claims, Disturbed
  <2>. HIDE DEF file, cut
  <2>4. cache' = file /\ onDevice' = [c \in Region |-> onDevice[c] \cup {file[c]}]
    BY <2>1 DEF file
  <2>5. onDevice' \in [Region -> SUBSET Content]
    BY <2>2, <2>4 DEF TypeOK
  <2>6. stale' \subseteq Record /\ overwritten' \subseteq Session
    BY <2>1, <2>3 DEF TypeOK, cut, file
  <2>. QED
    BY <2>1, <2>2, <2>4, <2>5, <2>6 DEF TypeOK, recordVars, taskVars, stateVars
<1>. QED
  BY <1>2, <1>3, <1>4

\* Every variable keeps its type, for every value of the constants.
THEOREM TypeCorrect == Spec => []TypeOK
<1>1. Init => TypeOK
  <2>. SUFFICES ASSUME Init
                PROVE  TypeOK
    OBVIOUS
  <2>. USE ConstantsAssumption
  <2>1. /\ cache \in [Region -> Content]
        /\ onDevice \in [Region -> SUBSET Content]
    BY DEF Init, Content
  <2>2. /\ pc \in [Session -> [Task -> PC]]
        /\ chunk \in [Session -> [Task -> Region]]
        /\ snap \in [Session -> [Task -> SUBSET Region]]
    BY DEF Init, PC, Region
  <2>3. /\ since \in [Session -> 0..CheckpointChunks]
        /\ checkpointing \in [Session -> BOOLEAN]
    BY DEF Init
  <2>. QED
    BY <2>1, <2>2, <2>3 DEF Init, TypeOK
<1>2. TypeOK /\ [Next]_vars => TypeOK'
  <2>1. TypeOK /\ Next => TypeOK'
    BY MainType, WorkerType, CheckpointType, EnvironmentType DEF Next
  <2>2. TypeOK /\ UNCHANGED vars => TypeOK'
    BY DEF TypeOK, vars, fileVars, recordVars, taskVars, stateVars, historyVars
  <2>. QED
    BY <2>1, <2>2
<1>. QED
  BY <1>1, <1>2, PTL DEF Spec

-----------------------------------------------------------------------------
(* The guard of a session's checkpoints. *)

\* A step of one task moves that task only.
LEMMA GotoMoves ==
    ASSUME TypeOK, NEW s \in Session, NEW w \in Task, NEW l, Goto(s, w, l)
    PROVE  \A q \in Session, x \in Task :
             pc'[q][x] = IF q = s /\ x = w THEN l ELSE pc[q][x]
  BY DEF TypeOK, Goto

\* Guard is kept by what run() does.
LEMMA MainGuard ==
    ASSUME TypeOK, Guard, NEW s \in Session, MainStep(s)
    PROVE  Guard'
<1>. USE ConstantsAssumption DEF Task
<1>1. CASE Create(s)
  <2>1. PICK l \in Opening : Goto(s, Main, l)
    BY <1>1 DEF Create, Opening
  <2>2. \A q \in Session, x \in Task :
          pc'[q][x] = IF q = s /\ x = Main THEN l ELSE pc[q][x]
    BY <2>1, GotoMoves
  <2>3. pc[s][Main] = "idle" /\ UNCHANGED <<bitmap, checkpointing>>
    BY <1>1 DEF Create, stateVars
  <2>. QED
    BY <2>1, <2>2, <2>3 DEF Guard, Saving, Early, Opening
<1>10. ASSUME NEW resume \in ResumeFlag, Load(s, resume)
      PROVE  Guard'
  <2>1. \A q \in Session, x \in Task :
          pc'[q][x] = IF q = s /\ x = Main THEN "accepting" ELSE pc[q][x]
    BY <1>10, GotoMoves DEF Load
  <2>2. \A q \in Session : q # s =>
          bitmap'[q] = bitmap[q] /\ checkpointing'[q] = checkpointing[q]
    BY <1>10 DEF Load, TypeOK
  <2>3. pc[s][Main] \in Early
    BY <1>10 DEF Load, Early
  <2>. QED
    BY <2>1, <2>2, <2>3 DEF Guard, Saving, Early, Opening
<1>2. ASSUME NEW w \in Stream, Accept(s, w)
      PROVE  Guard'
  <2>1. \A q \in Session, x \in Task :
          pc'[q][x] = IF q = s /\ x = w THEN "reading" ELSE pc[q][x]
    BY <1>2, GotoMoves DEF Accept
  <2>2. pc[s][Main] \notin Early \cup Saving \cup {"finish", "discard"}
    BY <1>2 DEF Accept, Early, Opening, Saving
  <2>. QED
    BY <1>2, <2>1, <2>2 DEF Accept, Guard, Saving, stateVars
<1>3. ASSUME NEW l, Goto(s, Main, l), pc[s][Main] = "accepting",
             l \notin Saving \cup Early \cup {"finish", "discard"},
             UNCHANGED <<bitmap, checkpointing>>
      PROVE  Guard'
  <2>1. \A q \in Session, x \in Task :
          pc'[q][x] = IF q = s /\ x = Main THEN l ELSE pc[q][x]
    BY <1>3, GotoMoves
  <2>. QED
    BY <1>3, <2>1 DEF Guard
<1>4. CASE AcceptFails(s)
  BY <1>3, <1>4 DEF AcceptFails, Saving, Early, Opening, stateVars
<1>5. CASE Cancel(s)
  BY <1>3, <1>5 DEF Cancel, Saving, Early, Opening, stateVars
<1>6. ASSUME NEW l, Goto(s, Main, l), l \notin Early,
             \A w \in Stream : pc[s][w] \in Stopped,
             UNCHANGED <<bitmap, checkpointing>>
      PROVE  Guard'
  <2>1. \A q \in Session, x \in Task :
          pc'[q][x] = IF q = s /\ x = Main THEN l ELSE pc[q][x]
    BY <1>6, GotoMoves
  <2>. QED
    BY <1>6, <2>1 DEF Guard
<1>7. CASE Join(s)
  <2>1. \A w \in Stream : pc[s][w] \in Stopped
    BY <1>7 DEF Join, Stopped
  <2>2. \E l \in {"snapshot", "finish"} : Goto(s, Main, l)
    BY <1>7 DEF Join
  <2>. QED
    BY <1>6, <1>7, <2>1, <2>2 DEF Join, stateVars, Early, Opening
<1>8. CASE Finish(s)
  <2>1. \A w \in Stream : pc[s][w] \in Stopped
    BY <1>8 DEF Finish, Guard
  <2>2. \E l \in {"discard", "failed"} : Goto(s, Main, l)
    BY <1>8 DEF Finish
  <2>. QED
    BY <1>6, <1>8, <2>1, <2>2 DEF Finish, stateVars, Early, Opening
<1>9. CASE Discard(s)
  <2>1. \A w \in Stream : pc[s][w] \in Stopped
    BY <1>9 DEF Discard, Guard
  <2>. QED
    BY <1>6, <1>9, <2>1 DEF Discard, stateVars, Early, Opening
<1>. QED
  BY <1>1, <1>2, <1>4, <1>5, <1>7, <1>8, <1>9, <1>10 DEF MainStep

\* Guard is kept by a worker: only TryLock enters checkpoint().
LEMMA WorkerGuard ==
    ASSUME TypeOK, Guard, NEW s \in Session, NEW w \in Stream, WorkerStep(s, w)
    PROVE  Guard'
<1>. USE ConstantsAssumption DEF Task
<1>1. ASSUME NEW l, Goto(s, w, l), Alive(s, w), l \notin Saving \cup {"idle"},
             \A q \in Session : pc[q][Main] \in Early => bitmap'[q] = bitmap[q],
             UNCHANGED checkpointing
      PROVE  Guard'
  <2>1. \A q \in Session, x \in Task :
          pc'[q][x] = IF q = s /\ x = w THEN l ELSE pc[q][x]
    BY <1>1, GotoMoves
  <2>2. pc[s][Main] \notin Early /\ pc[s][Main] \notin Saving \cup {"finish", "discard"}
    BY <1>1 DEF Guard, Alive
  <2>. QED
    BY <1>1, <2>1, <2>2 DEF Guard
<1>2. CASE BeginWrite(s, w)
  BY <1>1, <1>2 DEF BeginWrite, Alive, Stopped, Saving
<1>3. CASE EndWrite(s, w)
  BY <1>1, <1>3 DEF EndWrite, Alive, Stopped, Saving, stateVars
<1>4. CASE SetBit(s, w)
  <2>1. pc[s][Main] \notin Early
    BY <1>4 DEF SetBit, Guard
  <2>2. \A q \in Session : pc[q][Main] \in Early => bitmap'[q] = bitmap[q]
    BY <1>4, <2>1 DEF SetBit, TypeOK
  <2>. QED
    BY <1>1, <1>4, <2>2 DEF SetBit, Alive, Stopped, Saving
<1>5. CASE CountSince(s, w)
  <2>1. \E l \in {"reading", "trylock"} : Goto(s, w, l)
    BY <1>5 DEF CountSince
  <2>. QED
    BY <1>1, <1>5, <2>1 DEF CountSince, Alive, Stopped, Saving
<1>6. CASE TryLock(s, w)
  <2>1. CASE checkpointing[s]
    BY <1>1, <1>6, <2>1 DEF TryLock, Alive, Stopped, Saving
  <2>2. CASE ~ checkpointing[s]
    <3>1. \A q \in Session, x \in Task :
            pc'[q][x] = IF q = s /\ x = w THEN "snapshot" ELSE pc[q][x]
      BY <1>6, <2>2, GotoMoves DEF TryLock
    <3>2. /\ checkpointing'[s] = TRUE
          /\ \A q \in Session : q # s => checkpointing'[q] = checkpointing[q]
          /\ bitmap' = bitmap
      BY <1>6, <2>2 DEF TryLock, TypeOK
    <3>3. pc[s][Main] \notin Early /\ pc[s][Main] \notin Saving \cup {"finish", "discard"}
      BY <1>6 DEF TryLock, Guard, Stopped
    <3>4. \A x \in Stream : pc[s][x] \notin Saving
      BY <2>2 DEF Guard
    <3>. QED
      BY <3>1, <3>2, <3>3, <3>4 DEF Guard, Saving
  <2>. QED
    BY <2>1, <2>2
<1>7. CASE StreamEnds(s, w)
  BY <1>1, <1>7 DEF StreamEnds, Alive, Stopped, Saving, stateVars
<1>8. CASE StreamFails(s, w)
  BY <1>1, <1>8 DEF StreamFails, Alive, Stopped, Saving, stateVars
<1>. QED
  BY <1>2, <1>3, <1>4, <1>5, <1>6, <1>7, <1>8 DEF WorkerStep

\* Guard is kept by a checkpoint.
LEMMA CheckpointGuard ==
    ASSUME TypeOK, Guard, NEW s \in Session, NEW w \in Task, CheckpointStep(s, w)
    PROVE  Guard'
<1>. USE ConstantsAssumption DEF Task
<1>1. ASSUME NEW l \in Saving, Goto(s, w, l), pc[s][w] \in Saving,
             UNCHANGED <<bitmap, checkpointing>>
      PROVE  Guard'
  <2>1. \A q \in Session, x \in Task :
          pc'[q][x] = IF q = s /\ x = w THEN l ELSE pc[q][x]
    BY <1>1, GotoMoves
  <2>. QED
    BY <1>1, <2>1 DEF Guard, Saving, Stopped, Early, Opening
<1>2. ASSUME NEW ok \in BOOLEAN, Leave(s, w, ok), pc[s][w] \in Saving, UNCHANGED bitmap
      PROVE  Guard'
  <2>1. PICK l \in {"reading", "failed"} : Goto(s, w, l) /\ (w = Main => l = "failed")
    BY <1>2 DEF Leave
  <2>2. \A q \in Session, x \in Task :
          pc'[q][x] = IF q = s /\ x = w THEN l ELSE pc[q][x]
    BY <2>1, GotoMoves
  <2>3. /\ \A q \in Session : q # s => checkpointing'[q] = checkpointing[q]
        /\ w = Main => checkpointing'[s] = checkpointing[s]
    BY <1>2 DEF Leave, TypeOK
  <2>4. CASE w = Main
    BY <1>2, <2>1, <2>2, <2>3, <2>4 DEF Guard, Saving, Early, Opening
  <2>5. CASE w \in Stream
    <3>1. \A x \in Stream : pc'[s][x] \notin Saving
      BY <1>2, <2>1, <2>2, <2>5 DEF Guard, Saving
    <3>2. pc[s][Main] \notin Early /\ pc[s][Main] \notin Saving \cup {"finish", "discard"}
      BY <1>2, <2>5 DEF Guard, Saving, Stopped
    <3>. QED
      BY <1>2, <2>1, <2>2, <2>3, <2>5, <3>1, <3>2 DEF Guard, Saving
  <2>. QED
    BY <2>4, <2>5
<1>3. CASE Snapshot(s, w)
  <2>1. CASE bitmap[s] = {}
    BY <1>2, <1>3, <2>1 DEF Snapshot, Saving
  <2>2. CASE bitmap[s] # {}
    BY <1>1, <1>3, <2>2 DEF Snapshot, Saving
  <2>. QED
    BY <2>1, <2>2
<1>4. CASE SyncData(s, w)
  BY <1>1, <1>4 DEF SyncData, Saving, stateVars
<1>5. CASE WriteTmp(s, w)
  BY <1>1, <1>5 DEF WriteTmp, Saving, stateVars
<1>6. CASE Rename(s, w)
  BY <1>2, <1>6 DEF Rename, Saving
<1>7. CASE SaveFails(s, w)
  BY <1>2, <1>7 DEF SaveFails, Saving
<1>. QED
  BY <1>3, <1>4, <1>5, <1>6, <1>7 DEF CheckpointStep

\* A crash leaves every task stopped or not started, and no bitmap.
LEMMA ForgetStops ==
    ASSUME TypeOK, Guard, Forget
    PROVE  /\ \A q \in Session, x \in Task : pc'[q][x] \in Stopped \cup {"idle"}
           /\ \A q \in Session : bitmap'[q] = {}
           /\ Guard'
<1>. USE ConstantsAssumption DEF Task
<1>1. \A q \in Session, x \in Task :
        pc'[q][x] = IF pc[q][Main] # "idle" /\ pc[q][x] \notin Stopped
                    THEN "dead" ELSE pc[q][x]
  BY DEF Forget, Opened
<1>2. \A q \in Session : bitmap'[q] = {}
  BY DEF Forget
<1>3. \A q \in Session, x \in Task : pc'[q][x] \in Stopped \cup {"idle"}
  BY <1>1 DEF Guard, Stopped, Early
<1>4. Guard'
  BY <1>1, <1>2, <1>3 DEF Guard, Saving, Stopped, Early, Opening
<1>. QED
  BY <1>2, <1>3, <1>4

\* Every step keeps Guard.
LEMMA GuardKept ==
    ASSUME TypeOK, Guard, Next
    PROVE  Guard'
<1>1. CASE Kill \/ PowerLoss
  BY <1>1, ForgetStops DEF Kill, PowerLoss
<1>2. ASSUME NEW how \in Tampering, Tamper(how)
      PROVE  Guard'
  BY <1>2 DEF Tamper, Guard, taskVars, stateVars
<1>. QED
  BY <1>1, <1>2, MainGuard, WorkerGuard, CheckpointGuard DEF Next

\* Guard gives mutual exclusion.
LEMMA GuardExcludes ==
    ASSUME Guard
    PROVE  OneCheckpoint
  BY ConstantsAssumption DEF Guard, OneCheckpoint, Task, Saving, Stopped

\* One checkpoint of a session at a time, for any number of workers.
THEOREM MutualExclusion == Spec => []OneCheckpoint
<1>1. Init => Guard
  BY DEF Init, Guard, Saving, Task
<1>2. TypeOK /\ Guard /\ [Next]_vars => Guard'
  <2>1. Guard /\ UNCHANGED vars => Guard'
    BY DEF Guard, vars, taskVars, stateVars
  <2>. QED
    BY <2>1, GuardKept
<1>3. Guard => OneCheckpoint
  BY GuardExcludes
<1>. QED
  BY <1>1, <1>2, <1>3, TypeCorrect, PTL DEF Spec

-----------------------------------------------------------------------------
(* Snapshots against bitmaps and records. *)

\* A session writes no record before its FileState is made.
LEMMA FreshKept ==
    ASSUME TypeOK, Guard, Fresh, Next
    PROVE  Fresh'
<1>. USE ConstantsAssumption DEF Task
<1>1. ASSUME NEW s \in Session, NEW w \in Task, NEW l, Goto(s, w, l),
             w = Main => l \notin Early \/ pc[s][Main] \in Early,
             \A q \in Session : published'[q] = published[q] \/ pc'[q][Main] \notin Early
      PROVE  Fresh'
  <2>1. \A q \in Session, x \in Task :
          pc'[q][x] = IF q = s /\ x = w THEN l ELSE pc[q][x]
    BY <1>1, GotoMoves
  <2>. QED
    BY <1>1, <2>1 DEF Fresh
<1>2. ASSUME NEW s \in Session, MainStep(s)
      PROVE  Fresh'
  <2>1. CASE Create(s)
    BY <1>1, <1>2, <2>1 DEF Create, Early
  <2>2. ASSUME NEW resume \in ResumeFlag, Load(s, resume)
        PROVE  Fresh'
    <3>1. Goto(s, Main, "accepting") /\ "accepting" \notin Early
      BY <2>2 DEF Load, Early, Opening
    <3>2. pc'[s][Main] = "accepting"
      BY <3>1, GotoMoves
    <3>3. \A q \in Session : q # s => published'[q] = published[q]
      BY <2>2 DEF Load, TypeOK
    <3>. QED
      BY <1>1, <3>1, <3>2, <3>3
  <2>3. ASSUME NEW w \in Stream, Accept(s, w)
        PROVE  Fresh'
    BY <1>1, <2>3 DEF Accept, historyVars
  <2>4. CASE AcceptFails(s) \/ Cancel(s) \/ Join(s) \/ Finish(s) \/ Discard(s)
    <3>1. \E l \in {"failed", "cancelled", "snapshot", "finish", "discard", "done"} :
            Goto(s, Main, l)
      BY <2>4 DEF AcceptFails, Cancel, Join, Finish, Discard
    <3>2. UNCHANGED published
      BY <2>4 DEF AcceptFails, Cancel, Join, Finish, Discard, historyVars
    <3>. QED
      BY <1>1, <3>1, <3>2 DEF Early, Opening
  <2>. QED
    BY <1>2, <2>1, <2>2, <2>3, <2>4 DEF MainStep
<1>3. ASSUME NEW s \in Session, NEW w \in Stream, WorkerStep(s, w)
      PROVE  Fresh'
  <2>1. \E l : Goto(s, w, l)
    BY <1>3 DEF WorkerStep, BeginWrite, EndWrite, SetBit, CountSince, TryLock,
                StreamEnds, StreamFails
  <2>2. UNCHANGED published
    BY <1>3 DEF WorkerStep, BeginWrite, EndWrite, SetBit, CountSince, TryLock,
                StreamEnds, StreamFails, historyVars
  <2>. QED
    BY <1>1, <2>1, <2>2
<1>4. ASSUME NEW s \in Session, NEW w \in Task, CheckpointStep(s, w)
      PROVE  Fresh'
  <2>1. PICK l \in {"reading", "failed", "sync", "tmp", "rename"} : Goto(s, w, l)
    BY <1>4 DEF CheckpointStep, Snapshot, SyncData, WriteTmp, Rename, SaveFails, Leave
  <2>2. l \notin Early
    BY <2>1 DEF Early, Opening
  <2>3. CASE UNCHANGED published
    BY <1>1, <2>1, <2>2, <2>3
  <2>4. CASE WriteTmp(s, w)
    <3>1. pc[s][w] = "tmp" /\ \A q \in Session : q # s => published'[q] = published[q]
      BY <2>4 DEF WriteTmp, TypeOK
    <3>2. pc[s][Main] \notin Early
      BY <3>1 DEF Guard, Early, Opening
    <3>3. pc'[s][Main] \notin Early
      BY <2>1, <2>2, <3>2, GotoMoves
    <3>. QED
      BY <1>1, <2>1, <2>2, <3>1, <3>3
  <2>. QED
    BY <1>4, <2>3, <2>4
    DEF CheckpointStep, Snapshot, SyncData, Rename, SaveFails, historyVars
<1>5. CASE Kill \/ PowerLoss
  <2>1. \A q \in Session, x \in Task : pc'[q][x] \in Stopped \cup {"idle"}
    BY <1>5, ForgetStops DEF Kill, PowerLoss
  <2>2. \A q \in Session : pc'[q][Main] = "idle" => pc[q][Main] = "idle"
    BY <1>5 DEF Kill, PowerLoss, Forget
  <2>3. published' = published
    BY <1>5 DEF Kill, PowerLoss, Forget, historyVars
  <2>. QED
    BY <2>1, <2>2, <2>3 DEF Fresh, Early, Opening, Stopped
<1>6. ASSUME NEW how \in Tampering, Tamper(how)
      PROVE  Fresh'
  BY <1>6 DEF Tamper, Fresh, taskVars
<1>. QED
  BY <1>2, <1>3, <1>4, <1>5, <1>6 DEF Next

\* The common case: one task of a session that is alive moves on, bitmaps do
\* not shrink, snapshots and records are left alone.
LEMMA MoveKeepsSnapshots ==
    ASSUME TypeOK, Snapshots,
           NEW s \in Session, NEW w \in Task, NEW l, Goto(s, w, l),
           NEW x \in Task, Alive(s, x),
           \/ l \notin {"sync", "tmp", "rename"}
           \/ pc[s][w] \in {"sync", "tmp", "rename"},
           \A q \in Session : bitmap[q] \subseteq bitmap'[q],
           UNCHANGED <<snap, published>>
    PROVE  Snapshots'
<1>1. \A q \in Session, y \in Task :
        pc'[q][y] = IF q = s /\ y = w THEN l ELSE pc[q][y]
  BY GotoMoves
<1>2. ASSUME NEW q \in Session, NEW y \in Task, Alive(q, y)'
      PROVE  published'[q] \subseteq bitmap'[q]
  <2>1. CASE q = s
    BY <2>1 DEF Snapshots
  <2>2. CASE q # s
    <3>1. Alive(q, y)
      BY <1>1, <1>2, <2>2 DEF Alive
    <3>. QED
      BY <3>1 DEF Snapshots
  <2>. QED
    BY <2>1, <2>2
<1>3. ASSUME NEW q \in Session, NEW y \in Task, pc'[q][y] \in {"sync", "tmp", "rename"}
      PROVE  snap'[q][y] \subseteq bitmap'[q] /\ published'[q] \subseteq snap'[q][y]
  <2>1. pc[q][y] \in {"sync", "tmp", "rename"}
    BY <1>1, <1>3
  <2>. QED
    BY <2>1 DEF Snapshots
<1>. QED
  BY <1>2, <1>3 DEF Snapshots

\* Snapshots is kept by what run() does.
LEMMA MainSnapshots ==
    ASSUME TypeOK, Guard, Fresh, Snapshots, NEW s \in Session, MainStep(s)
    PROVE  Snapshots'
<1>. USE ConstantsAssumption DEF Task
<1>1. ASSUME NEW resume \in ResumeFlag, Load(s, resume)
      PROVE  Snapshots'
  <2>1. \A q \in Session, x \in Task :
          pc'[q][x] = IF q = s /\ x = Main THEN "accepting" ELSE pc[q][x]
    BY <1>1, GotoMoves DEF Load
  <2>2. /\ bitmap'[s] = published'[s]
        /\ \A q \in Session : q # s =>
             bitmap'[q] = bitmap[q] /\ published'[q] = published[q]
        /\ snap' = snap
    BY <1>1 DEF Load, TypeOK
  <2>3. \A x \in Stream : pc[s][x] = "idle"
    BY <1>1 DEF Load, Guard, Early
  <2>. QED
    BY <2>1, <2>2, <2>3 DEF Snapshots, Alive
<1>9. CASE Create(s)
  <2>1. PICK l \in Opening : Goto(s, Main, l)
    BY <1>9 DEF Create, Opening
  <2>2. \A q \in Session, x \in Task :
          pc'[q][x] = IF q = s /\ x = Main THEN l ELSE pc[q][x]
    BY <2>1, GotoMoves
  <2>3. published[s] = {} /\ UNCHANGED <<bitmap, published, snap>>
    BY <1>9 DEF Create, Fresh, Early, stateVars
  <2>. QED
    BY <2>1, <2>2, <2>3 DEF Snapshots, Alive, Opening
<1>2. ASSUME NEW w \in Stream, Accept(s, w)
      PROVE  Snapshots'
  <2>1. Alive(s, Main)
    BY <1>2 DEF Accept, Alive, Stopped
  <2>. QED
    BY <1>2, <2>1, MoveKeepsSnapshots DEF Accept, stateVars, historyVars
<1>3. ASSUME Alive(s, Main), NEW l, Goto(s, Main, l), l \notin {"sync", "tmp", "rename"},
             UNCHANGED <<bitmap, snap, published>>
      PROVE  Snapshots'
  BY <1>3, MoveKeepsSnapshots
<1>4. CASE AcceptFails(s)
  BY <1>3, <1>4 DEF AcceptFails, Alive, Stopped, stateVars, historyVars
<1>5. CASE Cancel(s)
  BY <1>3, <1>5 DEF Cancel, Alive, Stopped, stateVars, historyVars
<1>6. CASE Join(s)
  <2>1. \E l \in {"snapshot", "finish"} : Goto(s, Main, l)
    BY <1>6 DEF Join
  <2>. QED
    BY <1>3, <1>6, <2>1 DEF Join, Alive, Stopped, stateVars, historyVars
<1>7. CASE Finish(s)
  <2>1. \E l \in {"discard", "failed"} : Goto(s, Main, l)
    BY <1>7 DEF Finish
  <2>. QED
    BY <1>3, <1>7, <2>1 DEF Finish, Alive, Stopped, stateVars, historyVars
<1>8. CASE Discard(s)
  BY <1>3, <1>8 DEF Discard, Alive, Stopped, stateVars, historyVars
<1>. QED
  BY <1>1, <1>2, <1>4, <1>5, <1>6, <1>7, <1>8, <1>9 DEF MainStep

\* Snapshots is kept by a worker, which only adds to its bitmap.
LEMMA WorkerSnapshots ==
    ASSUME TypeOK, Snapshots, NEW s \in Session, NEW w \in Stream, WorkerStep(s, w)
    PROVE  Snapshots'
<1>. USE DEF Task
<1>1. ASSUME NEW l, Goto(s, w, l), Alive(s, w), l \notin {"sync", "tmp", "rename"},
             \A q \in Session : bitmap[q] \subseteq bitmap'[q],
             UNCHANGED <<snap, published>>
      PROVE  Snapshots'
  BY <1>1, MoveKeepsSnapshots
<1>2. CASE BeginWrite(s, w)
  BY <1>1, <1>2 DEF BeginWrite, Alive, Stopped
<1>3. CASE EndWrite(s, w)
  BY <1>1, <1>3 DEF EndWrite, Alive, Stopped, stateVars
<1>4. CASE SetBit(s, w)
  <2>1. \A q \in Session : bitmap[q] \subseteq bitmap'[q]
    BY <1>4 DEF SetBit, TypeOK
  <2>. QED
    BY <1>1, <1>4, <2>1 DEF SetBit, Alive, Stopped, historyVars
<1>5. CASE CountSince(s, w)
  <2>1. \E l \in {"reading", "trylock"} : Goto(s, w, l)
    BY <1>5 DEF CountSince
  <2>. QED
    BY <1>1, <1>5, <2>1 DEF CountSince, Alive, Stopped, historyVars
<1>6. CASE TryLock(s, w)
  <2>1. \E l \in {"reading", "snapshot"} : Goto(s, w, l)
    BY <1>6 DEF TryLock
  <2>. QED
    BY <1>1, <1>6, <2>1 DEF TryLock, Alive, Stopped, historyVars
<1>7. CASE StreamEnds(s, w)
  BY <1>1, <1>7 DEF StreamEnds, Alive, Stopped, stateVars, historyVars
<1>8. CASE StreamFails(s, w)
  BY <1>1, <1>8 DEF StreamFails, Alive, Stopped, stateVars, historyVars
<1>. QED
  BY <1>2, <1>3, <1>4, <1>5, <1>6, <1>7, <1>8 DEF WorkerStep

\* Snapshots is kept by a checkpoint; that WriteTmp replaces no newer record
\* of the session needs the mutual exclusion.
LEMMA CheckpointSnapshots ==
    ASSUME TypeOK, Guard, Snapshots, NEW s \in Session, NEW w \in Task, CheckpointStep(s, w)
    PROVE  Snapshots'
<1>1. ASSUME NEW ok \in BOOLEAN, Leave(s, w, ok), Alive(s, w), UNCHANGED <<bitmap, snap, published>>
      PROVE  Snapshots'
  <2>1. \E l \in {"reading", "failed"} : Goto(s, w, l)
    BY <1>1 DEF Leave
  <2>. QED
    BY <1>1, <2>1, MoveKeepsSnapshots
<1>2. CASE Snapshot(s, w)
  <2>1. PICK l \in {"reading", "failed", "sync"} : Goto(s, w, l)
    BY <1>2 DEF Snapshot, Leave
  <2>2. \A q \in Session, y \in Task :
          pc'[q][y] = IF q = s /\ y = w THEN l ELSE pc[q][y]
    BY <2>1, GotoMoves
  <2>3. \A q \in Session, y \in Task :
          snap'[q][y] = IF q = s /\ y = w THEN bitmap[s] ELSE snap[q][y]
    BY <1>2 DEF Snapshot, TypeOK
  <2>4. Alive(s, w) /\ bitmap' = bitmap /\ published' = published
    BY <1>2 DEF Snapshot, Alive, Stopped, historyVars
  <2>5. published[s] \subseteq bitmap[s]
    BY <2>4 DEF Snapshots
  <2>6. ASSUME NEW q \in Session, NEW y \in Task
        PROVE  /\ Alive(q, y)' => published'[q] \subseteq bitmap'[q]
               /\ pc'[q][y] \in {"sync", "tmp", "rename"} =>
                    snap'[q][y] \subseteq bitmap'[q] /\ published'[q] \subseteq snap'[q][y]
    <3>1. CASE q = s /\ y = w
      BY <2>3, <2>4, <2>5, <3>1
    <3>2. CASE ~(q = s /\ y = w)
      BY <2>2, <2>3, <2>4, <3>2 DEF Snapshots, Alive
    <3>. QED
      BY <3>1, <3>2
  <2>. QED
    BY <2>6 DEF Snapshots
<1>3. CASE SyncData(s, w)
  <2>1. Alive(s, w)
    BY <1>3 DEF SyncData, Alive, Stopped
  <2>. QED
    BY <1>3, <2>1, MoveKeepsSnapshots DEF SyncData, stateVars, historyVars
<1>4. CASE WriteTmp(s, w)
  <2>1. \A q \in Session, y \in Task :
          pc'[q][y] = IF q = s /\ y = w THEN "rename" ELSE pc[q][y]
    BY <1>4, GotoMoves DEF WriteTmp
  <2>2. /\ published'[s] = snap[s][w]
        /\ \A q \in Session : q # s => published'[q] = published[q]
        /\ bitmap' = bitmap /\ snap' = snap
    BY <1>4 DEF WriteTmp, TypeOK, stateVars
  <2>3. snap[s][w] \subseteq bitmap[s]
    BY <1>4 DEF WriteTmp, Snapshots
  <2>4. \A y \in Task : pc[s][y] \in {"sync", "tmp", "rename"} => y = w
    BY <1>4, GuardExcludes DEF WriteTmp, OneCheckpoint, Saving
  <2>5. ASSUME NEW q \in Session, NEW y \in Task
        PROVE  /\ Alive(q, y)' => published'[q] \subseteq bitmap'[q]
               /\ pc'[q][y] \in {"sync", "tmp", "rename"} =>
                    snap'[q][y] \subseteq bitmap'[q] /\ published'[q] \subseteq snap'[q][y]
    <3>1. CASE q = s
      BY <2>1, <2>2, <2>3, <2>4, <3>1
    <3>2. CASE q # s
      BY <2>1, <2>2, <3>2 DEF Snapshots, Alive
    <3>. QED
      BY <3>1, <3>2
  <2>. QED
    BY <2>5 DEF Snapshots
<1>5. CASE Rename(s, w)
  BY <1>1, <1>5 DEF Rename, Alive, Stopped, historyVars
<1>6. CASE SaveFails(s, w)
  BY <1>1, <1>6 DEF SaveFails, Alive, Stopped, historyVars
<1>. QED
  BY <1>2, <1>3, <1>4, <1>5, <1>6 DEF CheckpointStep

\* Every step keeps Snapshots.
LEMMA SnapshotsKept ==
    ASSUME TypeOK, Guard, Fresh, Snapshots, Next
    PROVE  Snapshots'
<1>1. CASE Kill \/ PowerLoss
  <2>1. \A q \in Session, x \in Task : pc'[q][x] \in Stopped \cup {"idle"}
    BY <1>1, ForgetStops DEF Kill, PowerLoss
  <2>. QED
    BY <2>1 DEF Snapshots, Alive, Stopped
<1>2. ASSUME NEW how \in Tampering, Tamper(how)
      PROVE  Snapshots'
  BY <1>2 DEF Tamper, Snapshots, Alive, taskVars, stateVars
<1>. QED
  BY <1>1, <1>2, MainSnapshots, WorkerSnapshots, CheckpointSnapshots DEF Next

\* The records a session writes only gain chunks, whatever the number of
\* workers and of other sessions that share the temporary file.
THEOREM RecordsOnlyGrow == Spec => RecordsGrow
<1>. DEFINE J == TypeOK /\ Guard /\ Fresh /\ Snapshots
            Grow == \A s \in Session : Opened(s) => published[s] \subseteq published'[s]
<1>1. Init => Guard /\ Fresh /\ Snapshots
  BY DEF Init, Guard, Fresh, Snapshots, Saving, Task, Alive
<1>2. TypeOK /\ Guard /\ Fresh /\ Snapshots /\ [Next]_vars => Guard' /\ Fresh' /\ Snapshots'
  <2>1. Guard /\ Fresh /\ Snapshots /\ UNCHANGED vars => Guard' /\ Fresh' /\ Snapshots'
    BY DEF Guard, Fresh, Snapshots, Alive, vars, taskVars, stateVars, historyVars
  <2>. QED
    BY <2>1, GuardKept, FreshKept, SnapshotsKept
<1>3. J /\ [Next]_vars => [Grow]_vars
  <2>. SUFFICES ASSUME J, Next
                PROVE  Grow
    OBVIOUS
  <2>1. ASSUME NEW s \in Session, MainStep(s)
        PROVE  Grow
    <3>1. ASSUME NEW resume \in ResumeFlag, Load(s, resume)
          PROVE  Grow
      <4>1. published[s] = {}
        BY <3>1 DEF Load, Fresh, Early
      <4>2. \A q \in Session : q # s => published'[q] = published[q]
        BY <3>1 DEF Load, TypeOK
      <4>. QED
        BY <4>1, <4>2
    <3>2. CASE UNCHANGED published
      BY <3>2
    <3>. QED
      BY <2>1, <3>1, <3>2
      DEF MainStep, Create, Accept, AcceptFails, Cancel, Join, Finish, Discard, historyVars
  <2>2. ASSUME NEW s \in Session, NEW w \in Stream, WorkerStep(s, w)
        PROVE  UNCHANGED published
    BY <2>2 DEF WorkerStep, BeginWrite, EndWrite, SetBit, CountSince, TryLock,
                StreamEnds, StreamFails, historyVars
  <2>3. ASSUME NEW s \in Session, NEW w \in Task, CheckpointStep(s, w)
        PROVE  Grow
    <3>1. CASE WriteTmp(s, w)
      BY <3>1 DEF WriteTmp, Snapshots, TypeOK
    <3>2. CASE UNCHANGED published
      BY <3>2
    <3>. QED
      BY <2>3, <3>1, <3>2
      DEF CheckpointStep, Snapshot, SyncData, Rename, SaveFails, historyVars
  <2>4. Kill \/ PowerLoss \/ (\E how \in Tampering : Tamper(how)) => UNCHANGED published
    BY DEF Kill, PowerLoss, Forget, Tamper, historyVars
  <2>. QED
    BY <2>1, <2>2, <2>3, <2>4 DEF Next
<1>. QED
  BY <1>1, <1>2, <1>3, TypeCorrect, PTL DEF Spec, RecordsGrow

-----------------------------------------------------------------------------
(* What a step does to the bytes others count on. *)

\* The bytes an undisturbed session has offered stay in the file, and stay on
\* the device, once they are there.
Keeps ==
    \A q \in Session \ overwritten' : Opened(q) =>
        \A c \in Region :
            /\ cache[c] = Data[ver[q]][c] => cache'[c] = Data[ver[q]][c]
            /\ onDevice[c] = {Data[ver[q]][c]} => onDevice'[c] = {Data[ver[q]][c]}

\* A step that changes the regions of C to f, and leaves the records alone,
\* keeps what is claimed by the sessions and the records it does not disturb.
LEMMA ChangeKeeps ==
    ASSUME RecordSound,
           NEW C \in SUBSET Region, NEW f,
           \A c \in Region \ C : cache'[c] = cache[c] /\ onDevice'[c] = onDevice[c],
           \A c \in C : cache[c] = f[c] => cache'[c] = f[c],
           \A c \in C : onDevice[c] = {f[c]} => onDevice'[c] = {f[c]},
           Disturbed(C, f) \subseteq overwritten',
           stale \cup Voided(C, f) \subseteq stale',
           \A r \in Claims : r.bits \subseteq Region,
           UNCHANGED recordVars
    PROVE  Keeps /\ RecordSound'
<1>1. ASSUME NEW q \in Session \ overwritten', Opened(q), NEW c \in C
      PROVE  Data[ver[q]][c] = f[c]
  BY <1>1 DEF Disturbed
<1>2. Keeps
  BY <1>1 DEF Keeps
<1>3. Claims' = Claims
  BY DEF Claims, recordVars
<1>4. ASSUME NEW r \in Claims \ stale', NEW c \in r.bits
      PROVE  onDevice'[c] = {Data[r.key][c]}
  <2>1. onDevice[c] = {Data[r.key][c]}
    BY <1>4 DEF RecordSound
  <2>2. CASE c \in C
    BY <1>4, <2>1, <2>2 DEF Voided
  <2>3. CASE c \notin C
    BY <1>4, <2>1, <2>3
  <2>. QED
    BY <2>2, <2>3
<1>5. RecordSound'
  BY <1>3, <1>4 DEF RecordSound
<1>. QED
  BY <1>2, <1>5

\* The bits of a record are regions.
LEMMA ClaimedBits ==
    ASSUME TypeOK
    PROVE  \A r \in Claims : r.bits \subseteq Region /\ r \in Record
  BY DEF TypeOK, Claims, Record

\* The parts of the invariant that speak of the device, and what they need.
Stored == Keeps /\ Writeback' /\ RecordSound' /\ overwritten \subseteq overwritten'

\* A step that touches neither the file nor the history, and adds no record.
LEMMA IdleStored ==
    ASSUME Writeback, RecordSound,
           UNCHANGED <<fileVars, historyVars>>, Claims' \subseteq Claims,
           record' \in onDeviceRecord'
    PROVE  Stored
<1>1. Keeps
  BY DEF Keeps, fileVars
<1>2. Writeback'
  BY DEF Writeback, fileVars
<1>3. RecordSound'
  BY DEF RecordSound, fileVars, historyVars
<1>. QED
  BY <1>1, <1>2, <1>3 DEF Stored, historyVars

\* An fsync makes durable what is in the cache.
LEMMA SyncStored ==
    ASSUME TypeOK, Writeback, RecordSound,
           onDevice' = [c \in Region |-> {cache[c]}],
           UNCHANGED <<cache, recordVars, historyVars>>
    PROVE  Stored
<1>1. \A c \in Region : \A x : onDevice[c] = {x} => cache[c] = x /\ onDevice'[c] = {x}
  BY DEF Writeback
<1>2. Keeps
  BY <1>1 DEF Keeps
<1>3. Writeback'
  BY DEF Writeback, recordVars
<1>4. Claims' = Claims /\ stale' = stale
  BY DEF Claims, recordVars, historyVars
<1>5. RecordSound'
  BY <1>1, <1>4, ClaimedBits DEF RecordSound
<1>. QED
  BY <1>2, <1>3, <1>5 DEF Stored, historyVars

\* Stored holds of what run() does; opening resizes the file.
LEMMA MainStored ==
    ASSUME TypeOK, Writeback, RecordSound, NEW s \in Session, MainStep(s)
    PROVE  Stored
<1>1. CASE Create(s)
  <2>. DEFINE file == Created(ver[s])
              changed == {c \in Region : file[c] # cache[c]}
  <2>1. /\ cache' = file
        /\ onDevice' = [c \in Region |-> onDevice[c] \cup {file[c]}]
        /\ overwritten \cup Disturbed(changed, file) \subseteq overwritten'
        /\ stale' = stale \cup Voided(changed, file)
        /\ UNCHANGED recordVars
    BY <1>1 DEF Create
  <2>. HIDE DEF file
  <2>2. \A c \in Region \ changed : cache'[c] = cache[c] /\ onDevice'[c] = onDevice[c]
    BY <2>1 DEF Writeback
  <2>3. \A c \in changed : cache[c] = file[c] => cache'[c] = file[c]
    BY <2>1
  <2>4. \A c \in changed : onDevice[c] = {file[c]} => onDevice'[c] = {file[c]}
    BY <2>1
  <2>5. changed \in SUBSET Region
    OBVIOUS
  <2>. HIDE DEF changed
  <2>6. Keeps /\ RecordSound'
    BY <2>1, <2>2, <2>3, <2>4, <2>5, ClaimedBits, ChangeKeeps
  <2>7. Writeback'
    BY <2>1 DEF Writeback, recordVars
  <2>. QED
    BY <2>1, <2>6, <2>7 DEF Stored
<1>2. ASSUME UNCHANGED <<fileVars, recordVars, historyVars>>
      PROVE  Stored
  <2>1. Claims' \subseteq Claims /\ record' \in onDeviceRecord'
    BY <1>2 DEF Claims, recordVars, Writeback
  <2>. QED
    BY <1>2, <2>1, IdleStored
<1>3. ASSUME NEW w \in Stream, Accept(s, w)
      PROVE  Stored
  BY <1>2, <1>3 DEF Accept
<1>4. CASE AcceptFails(s) \/ Cancel(s) \/ Join(s)
  BY <1>2, <1>4 DEF AcceptFails, Cancel, Join
<1>5. CASE Finish(s)
  <2>1. CASE UNCHANGED onDevice
    BY <1>2, <1>5, <2>1 DEF Finish, fileVars
  <2>2. CASE onDevice' = [c \in Region |-> {cache[c]}]
    BY <1>5, <2>2, SyncStored DEF Finish
  <2>. QED
    BY <1>5, <2>1, <2>2 DEF Finish
<1>6. CASE Discard(s)
  <2>1. Claims' \subseteq Claims /\ record' \in onDeviceRecord'
    BY <1>6 DEF Discard, Claims
  <2>. QED
    BY <1>6, <2>1, IdleStored DEF Discard
<1>7. ASSUME NEW resume \in ResumeFlag, Load(s, resume)
      PROVE  Stored
  <2>1. /\ UNCHANGED <<fileVars, recordVars, stale>>
        /\ overwritten \subseteq overwritten'
    BY <1>7 DEF Load
  <2>2. Keeps
    BY <2>1 DEF Keeps, fileVars
  <2>3. Writeback'
    BY <2>1 DEF Writeback, fileVars, recordVars
  <2>4. RecordSound'
    BY <2>1 DEF RecordSound, Claims, fileVars, recordVars
  <2>. QED
    BY <2>1, <2>2, <2>3, <2>4 DEF Stored
<1>. QED
  BY <1>1, <1>3, <1>4, <1>5, <1>6, <1>7 DEF MainStep

\* Stored holds of a worker's steps: the two halves of a write.
LEMMA WorkerStored ==
    ASSUME TypeOK, Writeback, RecordSound, NEW s \in Session, NEW w \in Stream, WorkerStep(s, w)
    PROVE  Stored
<1>1. CASE BeginWrite(s, w)
  <2>1. PICK c \in queued[s] : BeginWrite(s, w)!(c)
    BY <1>1 DEF BeginWrite
  <2>. DEFINE f == Data[ver[s]]
  <2>2. c \in Region
    BY DEF TypeOK
  <2>3. \A d \in Region \ {c} : cache'[d] = cache[d] /\ onDevice'[d] = onDevice[d]
    BY <2>1, <2>2 DEF TypeOK
  <2>4. cache[c] = f[c] => cache'[c] = f[c] /\ onDevice'[c] = onDevice[c]
    BY <2>1
  <2>5. onDevice[c] = {f[c]} => cache[c] = f[c]
    BY <2>2 DEF Writeback
  <2>6. cache'[c] \in onDevice'[c]
    BY <2>1, <2>2 DEF Writeback, TypeOK
  <2>7. /\ overwritten' = overwritten \cup Disturbed({c}, f)
        /\ stale' = stale \cup Voided({c}, f)
        /\ UNCHANGED recordVars
    BY <2>1
  <2>. HIDE DEF f
  <2>8. Keeps /\ RecordSound'
    <3>1. \A d \in {c} : cache[d] = f[d] => cache'[d] = f[d]
      BY <2>4
    <3>2. \A d \in {c} : onDevice[d] = {f[d]} => onDevice'[d] = {f[d]}
      BY <2>4, <2>5
    <3>3. {c} \in SUBSET Region
      BY <2>2
    <3>4. Disturbed({c}, f) \subseteq overwritten' /\ stale \cup Voided({c}, f) \subseteq stale'
      BY <2>7
    <3>. QED
      BY <2>3, <2>7, <3>1, <3>2, <3>3, <3>4, ClaimedBits, ChangeKeeps
  <2>9. Writeback'
    BY <2>3, <2>6, <2>7 DEF Writeback, recordVars
  <2>. QED
    BY <2>7, <2>8, <2>9 DEF Stored
<1>2. CASE EndWrite(s, w)
  <2>. DEFINE c == chunk[s][w]
              f == Data[ver[s]]
  <2>1. c \in Region
    BY DEF TypeOK, Task
  <2>2. /\ cache' = [cache EXCEPT ![c] = f[c]]
        /\ onDevice' = [onDevice EXCEPT ![c] = @ \cup {f[c]}]
        /\ overwritten' = overwritten \cup Disturbed({c}, f)
        /\ stale' = stale \cup Voided({c}, f)
        /\ UNCHANGED recordVars
    BY <1>2 DEF EndWrite
  <2>. HIDE DEF c, f
  <2>3. /\ \A d \in Region \ {c} : cache'[d] = cache[d] /\ onDevice'[d] = onDevice[d]
        /\ cache'[c] = f[c] /\ onDevice'[c] = onDevice[c] \cup {f[c]}
    BY <2>1, <2>2 DEF TypeOK
  <2>4. Keeps /\ RecordSound'
    BY <2>1, <2>2, <2>3, ClaimedBits, ChangeKeeps
  <2>5. Writeback'
    BY <2>2, <2>3 DEF Writeback, recordVars
  <2>. QED
    BY <2>2, <2>4, <2>5 DEF Stored
<1>3. ASSUME UNCHANGED <<fileVars, recordVars, historyVars>>
      PROVE  Stored
  <2>1. Claims' \subseteq Claims /\ record' \in onDeviceRecord'
    BY <1>3 DEF Claims, recordVars, Writeback
  <2>. QED
    BY <1>3, <2>1, IdleStored
<1>4. CASE \/ SetBit(s, w) \/ CountSince(s, w) \/ TryLock(s, w)
           \/ StreamEnds(s, w) \/ StreamFails(s, w)
  BY <1>3, <1>4 DEF SetBit, CountSince, TryLock, StreamEnds, StreamFails
<1>. QED
  BY <1>1, <1>2, <1>4 DEF WorkerStep

\* Stored holds of a checkpoint: the record it writes is of synced chunks.
LEMMA CheckpointStored ==
    ASSUME TypeOK, Writeback, RecordSound, Progress,
           NEW s \in Session, NEW w \in Task, CheckpointStep(s, w)
    PROVE  Stored
<1>1. CASE Snapshot(s, w) \/ SaveFails(s, w)
  <2>1. Claims' \subseteq Claims /\ record' \in onDeviceRecord'
    BY <1>1 DEF Snapshot, SaveFails, Claims, recordVars, Writeback
  <2>. QED
    BY <1>1, <2>1, IdleStored DEF Snapshot, SaveFails
<1>2. CASE SyncData(s, w)
  BY <1>2, SyncStored DEF SyncData
<1>3. CASE WriteTmp(s, w)
  <2>. DEFINE r == [key |-> ver[s], bits |-> snap[s][w]]
  <2>1. /\ tmp' = r /\ record' = record /\ onDeviceRecord' = onDeviceRecord
        /\ stale' = IF s \in overwritten THEN stale \cup {r} ELSE stale \ {r}
        /\ UNCHANGED <<fileVars, overwritten>>
    BY <1>3 DEF WriteTmp
  <2>2. s \notin overwritten => \A c \in r.bits : onDevice[c] = {Data[r.key][c]}
    BY <1>3 DEF WriteTmp, Progress
  <2>. HIDE DEF r
  <2>3. Claims' \subseteq Claims \cup {r}
    BY <2>1 DEF Claims
  <2>4. ASSUME NEW x \in Claims' \ stale'
        PROVE  \A c \in x.bits : onDevice'[c] = {Data[x.key][c]}
    <3>1. onDevice' = onDevice
      BY <2>1 DEF fileVars
    <3>2. CASE x = r
      BY <2>1, <2>2, <2>4, <3>1, <3>2
    <3>3. CASE x # r
      BY <2>1, <2>3, <2>4, <3>1, <3>3 DEF RecordSound
    <3>. QED
      BY <3>2, <3>3
  <2>5. RecordSound'
    BY <2>4 DEF RecordSound
  <2>6. Keeps /\ Writeback'
    BY <2>1 DEF Keeps, Writeback, fileVars
  <2>. QED
    BY <2>1, <2>5, <2>6 DEF Stored
<1>4. CASE Rename(s, w)
  <2>1. Claims' \subseteq Claims /\ record' \in onDeviceRecord'
    BY <1>4 DEF Rename, Claims, recordVars, Writeback
  <2>. QED
    BY <1>4, <2>1, IdleStored DEF Rename
<1>. QED
  BY <1>1, <1>2, <1>3, <1>4 DEF CheckpointStep

\* Stored holds of somebody else's change of the file.
LEMMA TamperStored ==
    ASSUME TypeOK, Writeback, RecordSound, NEW how \in Tampering, Tamper(how)
    PROVE  Stored
<1>1. PICK n \in Region : Tamper(how)!(n)
  BY DEF Tamper
<1>. DEFINE file == [c \in Region |-> IF c < n THEN cache[c] ELSE Absent]
            cut == {c \in Region : file[c] # cache[c]}
<1>2. /\ cache' = file
      /\ onDevice' = [c \in Region |-> onDevice[c] \cup {file[c]}]
      /\ overwritten' = overwritten \cup Disturbed(cut, file)
      /\ stale' = stale \cup Voided(cut, file)
      /\ UNCHANGED recordVars
  BY <1>1
<1>. HIDE DEF file
<1>3. \A c \in Region \ cut : cache'[c] = cache[c] /\ onDevice'[c] = onDevice[c]
  BY <1>2 DEF Writeback
<1>4. /\ \A c \in cut : cache[c] = file[c] => cache'[c] = file[c]
      /\ \A c \in cut : onDevice[c] = {file[c]} => onDevice'[c] = {file[c]}
  BY <1>2
<1>5. cut \in SUBSET Region
  OBVIOUS
<1>. HIDE DEF cut
<1>6. Keeps /\ RecordSound'
  <2>1. Disturbed(cut, file) \subseteq overwritten' /\ stale \cup Voided(cut, file) \subseteq stale'
    BY <1>2
  <2>. QED
    BY <1>2, <1>3, <1>4, <1>5, <2>1, ClaimedBits, ChangeKeeps
<1>7. Writeback'
  BY <1>2 DEF Writeback, recordVars
<1>. QED
  BY <1>2, <1>6, <1>7 DEF Stored

\* A power loss leaves each region with one of the contents it may have, so a
\* record that may come back is still right.
LEMMA CrashStored ==
    ASSUME TypeOK, Writeback, RecordSound, Kill \/ PowerLoss
    PROVE  Writeback' /\ RecordSound' /\ UNCHANGED overwritten
<1>1. CASE Kill
  <2>1. Claims' = Claims
    BY <1>1 DEF Kill, Claims, recordVars
  <2>. QED
    BY <1>1, <2>1 DEF Kill, Forget, Writeback, RecordSound, fileVars, recordVars, historyVars
<1>2. CASE PowerLoss
  <2>1. /\ \A c \in Region : cache'[c] \in onDevice[c]
        /\ onDevice' = [c \in Region |-> {cache'[c]}]
        /\ record' \in onDeviceRecord /\ onDeviceRecord' = {record'}
        /\ tmp' = tmp /\ stale' = stale /\ overwritten' = overwritten
    BY <1>2 DEF PowerLoss, Forget, historyVars
  <2>2. Claims' \subseteq Claims
    BY <2>1 DEF Claims
  <2>3. \A c \in Region : \A x : onDevice[c] = {x} => onDevice'[c] = {x}
    BY <2>1
  <2>4. RecordSound'
    BY <2>1, <2>2, <2>3, ClaimedBits DEF RecordSound
  <2>. QED
    BY <2>1, <2>4 DEF Writeback
<1>. QED
  BY <1>1, <1>2

-----------------------------------------------------------------------------
(* The bitmaps, and what the tasks know of the file. *)

\* A bitmap that is left alone stays right.
LEMMA KeepsBitmap ==
    ASSUME TypeOK, Guard, BitmapSound, Stored, UNCHANGED <<bitmap, ver>>
    PROVE  BitmapSound'
<1>1. ASSUME NEW q \in Session \ overwritten', NEW c \in bitmap[q]
      PROVE  cache'[c] = Data[ver[q]][c]
  <2>1. Opened(q) /\ q \notin overwritten /\ c \in Region
    BY <1>1 DEF Guard, Opened, Stored, TypeOK, Early
  <2>2. cache[c] = Data[ver[q]][c]
    BY <1>1, <2>1 DEF BitmapSound
  <2>. QED
    BY <1>1, <2>1, <2>2 DEF Stored, Keeps
<1>. QED
  BY <1>1 DEF BitmapSound

\* What the tasks other than the one that moves know stays true.
LEMMA MoveKeepsProgress ==
    ASSUME TypeOK, Guard, Progress, Stored, UNCHANGED ver,
           NEW s \in Session, NEW w \in Task, NEW l, Goto(s, w, l),
           \A q \in Session, y \in Task : ~(q = s /\ y = w) =>
             chunk'[q][y] = chunk[q][y] /\ snap'[q][y] = snap[q][y],
           s \notin overwritten' /\ l = "wrote" =>
             cache'[chunk'[s][w]] = Data[ver[s]][chunk'[s][w]],
           s \notin overwritten' /\ l \in {"tmp", "rename"} =>
             \A c \in snap'[s][w] : onDevice'[c] = {Data[ver[s]][c]}
    PROVE  Progress'
<1>1. \A q \in Session, y \in Task :
        pc'[q][y] = IF q = s /\ y = w THEN l ELSE pc[q][y]
  BY GotoMoves
<1>2. ASSUME NEW q \in Session \ overwritten', NEW y \in Task
      PROVE  /\ pc'[q][y] = "wrote" => cache'[chunk'[q][y]] = Data[ver[q]][chunk'[q][y]]
             /\ pc'[q][y] \in {"tmp", "rename"} =>
                  \A c \in snap'[q][y] : onDevice'[c] = {Data[ver[q]][c]}
  <2>1. CASE q = s /\ y = w
    BY <1>1, <1>2, <2>1
  <2>2. CASE ~(q = s /\ y = w)
    <3>1. pc'[q][y] = pc[q][y] /\ chunk'[q][y] = chunk[q][y] /\ snap'[q][y] = snap[q][y]
      BY <1>1, <2>2
    <3>2. pc[q][y] # "idle" => Opened(q)
      BY DEF Guard, Opened, Task, Early
    <3>3. chunk[q][y] \in Region /\ snap[q][y] \subseteq Region /\ q \notin overwritten
      BY <1>2 DEF TypeOK, Stored
    <3>. QED
      BY <1>2, <3>1, <3>2, <3>3 DEF Progress, Stored, Keeps
  <2>. QED
    BY <2>1, <2>2
<1>. QED
  BY <1>2 DEF Progress

\* What run() of another session knows stays true.
LEMMA KeepsCompletion ==
    ASSUME TypeOK, Completion, Stored, UNCHANGED ver,
           NEW q \in Session \ overwritten', pc'[q][Main] = pc[q][Main],
           bitmap'[q] = bitmap[q] \/ pc[q][Main] \notin {"finish", "discard"}
    PROVE  CompletionOf(q)'
<1>1. q \notin overwritten /\ CompletionOf(q)
  BY DEF Stored, Completion
<1>2. \A c \in Region \ Chunks(ver[q]) : Data[ver[q]][c] = Absent
  BY DEF Chunks
<1>3. pc[q][Main] \in Opening \cup {"accepting", "finish", "discard"} => Opened(q)
  BY DEF Opened, Opening
<1>4. Chunks(ver[q])' = Chunks(ver[q])
  BY DEF Chunks
<1>5. pc[q][Main] \in Opening \cup {"accepting", "finish", "discard"} /\ Chunks(ver[q]) # {} =>
        \A c \in Region \ Chunks(ver[q]) : cache'[c] = Absent
  BY <1>1, <1>2, <1>3 DEF CompletionOf, Stored, Keeps
<1>6. pc[q][Main] = "discard" /\ Chunks(ver[q]) # {} =>
        \A c \in Region : onDevice'[c] = {Data[ver[q]][c]}
  BY <1>1, <1>3 DEF CompletionOf, Stored, Keeps
<1>7. pc[q][Main] \in {"finish", "discard"} => bitmap'[q] = Chunks(ver[q])
  BY <1>1 DEF CompletionOf
<1>. QED
  BY <1>4, <1>5, <1>6, <1>7 DEF CompletionOf

\* The conjuncts that speak of what is known, together.
Known == BitmapSound /\ Progress /\ Completion

\* Creating the staging file leaves nothing past the offered end.
LEMMA CreateKnown ==
    ASSUME TypeOK, Guard, Known, Stored, NEW s \in Session, Create(s)
    PROVE  Known'
<1>. USE ConstantsAssumption
<1>1. Main \in Task
  BY DEF Task
<1>2. PICK l \in Opening : Goto(s, Main, l)
  BY DEF Create, Opening
<1>3. UNCHANGED <<chunk, snap, ver, bitmap>> /\ cache' = Created(ver[s])
  BY DEF Create, stateVars
<1>4. BitmapSound' /\ Progress'
  BY <1>1, <1>2, <1>3, KeepsBitmap, MoveKeepsProgress DEF Known, Opening
<1>5. \A q \in Session, y \in Task :
        pc'[q][y] = IF q = s /\ y = Main THEN l ELSE pc[q][y]
  BY <1>1, <1>2, GotoMoves
<1>6. ASSUME NEW q \in Session \ overwritten'
      PROVE  CompletionOf(q)'
  <2>1. CASE q = s
    <3>1. Chunks(ver[s])' = Chunks(ver[s]) /\ pc'[s][Main] = l
      BY <1>1, <1>3, <1>5 DEF Chunks
    <3>2. Chunks(ver[s]) # {} => \A c \in Region \ Chunks(ver[s]) : cache'[c] = Absent
      BY <1>3 DEF Created
    <3>. QED
      BY <1>2, <2>1, <3>1, <3>2 DEF CompletionOf, Opening
  <2>2. CASE q # s
    BY <1>1, <1>3, <1>5, <1>6, <2>2, KeepsCompletion DEF Known
  <2>. QED
    BY <2>1, <2>2
<1>. QED
  BY <1>4, <1>6 DEF Known, Completion

\* A bitmap taken from a record or by hashing is right.
LEMMA LoadKnown ==
    ASSUME TypeOK, Writeback, Guard, RecordSound, Known, Stored,
           NEW s \in Session, NEW resume \in ResumeFlag, Load(s, resume)
    PROVE  Known'
<1>. USE ConstantsAssumption
<1>. DEFINE v == ver[s]
            have == StartBitmap(v, resume, pc[s][Main] = "found", cache)
<1>1. /\ pc[s][Main] \in Opening /\ Goto(s, Main, "accepting")
      /\ bitmap' = [bitmap EXCEPT ![s] = have]
      /\ resume /\ Loads(v, cache) /\ record \in stale => s \in overwritten'
      /\ UNCHANGED <<cache, chunk, snap, ver>>
  BY DEF Load, fileVars
<1>2. Main \in Task
  BY DEF Task
<1>3. ASSUME s \notin overwritten', NEW c \in have
      PROVE  cache[c] = Data[v][c]
  <2>1. CASE resume /\ Loads(v, cache)
    <3>1. record \in Claims /\ record.key = v /\ have = record.bits
      BY <2>1 DEF Loads, StartBitmap, Claims
    <3>2. record \notin stale
      BY <1>1, <1>3, <2>1
    <3>3. c \in Region
      BY <1>3, <3>1, ClaimedBits
    <3>4. onDevice[c] = {Data[v][c]}
      BY <1>3, <3>1, <3>2 DEF RecordSound
    <3>. QED
      BY <3>3, <3>4 DEF Writeback
  <2>2. CASE ~(resume /\ Loads(v, cache))
    BY <1>3, <2>2 DEF StartBitmap, RebuildByVerification
  <2>. QED
    BY <2>1, <2>2
<1>4. BitmapSound'
  <2>1. ASSUME NEW q \in Session \ overwritten', NEW c \in bitmap'[q]
        PROVE  cache'[c] = Data[ver[q]][c]
    <3>1. CASE q = s
      <4>1. bitmap'[s] = have
        BY <1>1 DEF TypeOK
      <4>. HIDE DEF have, v
      <4>. QED
        BY <1>1, <1>3, <2>1, <3>1, <4>1 DEF v
    <3>2. CASE q # s
      <4>1. bitmap'[q] = bitmap[q]
        BY <1>1, <3>2 DEF TypeOK
      <4>2. q \notin overwritten
        BY <2>1 DEF Stored
      <4>. QED
        BY <1>1, <2>1, <4>1, <4>2 DEF Known, BitmapSound
    <3>. QED
      BY <3>1, <3>2
  <2>. QED
    BY <1>1, <2>1 DEF BitmapSound
<1>5. Progress'
  BY <1>1, <1>2, MoveKeepsProgress DEF Known
<1>6. \A q \in Session, y \in Task :
        pc'[q][y] = IF q = s /\ y = Main THEN "accepting" ELSE pc[q][y]
  BY <1>1, <1>2, GotoMoves
<1>7. ASSUME NEW q \in Session \ overwritten'
      PROVE  CompletionOf(q)'
  <2>1. CASE q = s
    <3>1. Chunks(ver[s])' = Chunks(ver[s]) /\ pc'[s][Main] = "accepting" /\ s \notin overwritten
      BY <1>1, <1>2, <1>6, <1>7, <2>1 DEF Chunks, Stored
    <3>2. Chunks(ver[s]) # {} => \A c \in Region \ Chunks(ver[s]) : cache'[c] = Absent
      BY <1>1, <3>1 DEF Known, Completion, CompletionOf
    <3>. QED
      BY <2>1, <3>1, <3>2 DEF CompletionOf
  <2>2. CASE q # s
    BY <1>1, <1>2, <1>6, <1>7, <2>2, KeepsCompletion DEF Known, TypeOK
  <2>. QED
    BY <2>1, <2>2
<1>. QED
  BY <1>4, <1>5, <1>7 DEF Known, Completion

\* Known is kept by what run() does.
LEMMA MainKnown ==
    ASSUME TypeOK, Writeback, Guard, RecordSound, Known, Stored,
           NEW s \in Session, MainStep(s)
    PROVE  Known'
<1>. USE ConstantsAssumption
<1>1. Main \in Task
  BY DEF Task
<1>2. ASSUME NEW w \in Stream, Accept(s, w)
      PROVE  Known'
  <2>1. w \in Task /\ w # Main
    BY DEF Task
  <2>2. /\ Goto(s, w, "reading")
        /\ UNCHANGED <<chunk, snap, ver, bitmap>>
    BY <1>2 DEF Accept, stateVars
  <2>3. \A q \in Session : pc'[q][Main] = pc[q][Main]
    BY <1>1, <2>1, <2>2, GotoMoves
  <2>4. BitmapSound' /\ Progress'
    BY <2>1, <2>2, KeepsBitmap, MoveKeepsProgress DEF Known
  <2>5. \A q \in Session \ overwritten' : CompletionOf(q)'
    BY <2>2, <2>3, KeepsCompletion DEF Known
  <2>. QED
    BY <2>4, <2>5 DEF Known, Completion
<1>3. ASSUME NEW l, Goto(s, Main, l), l \notin {"wrote", "tmp", "rename"},
             UNCHANGED <<chunk, snap, ver, bitmap>>,
             pc'[s][Main] = l /\ s \notin overwritten' => CompletionOf(s)'
      PROVE  Known'
  <2>1. \A q \in Session, y \in Task :
          pc'[q][y] = IF q = s /\ y = Main THEN l ELSE pc[q][y]
    BY <1>1, <1>3, GotoMoves
  <2>2. BitmapSound' /\ Progress'
    BY <1>1, <1>3, KeepsBitmap, MoveKeepsProgress DEF Known
  <2>3. \A q \in Session \ overwritten' : q # s => CompletionOf(q)'
    BY <1>1, <1>3, <2>1, KeepsCompletion DEF Known
  <2>. QED
    BY <1>1, <1>3, <2>1, <2>2, <2>3 DEF Known, Completion
<1>4. CASE AcceptFails(s) \/ Cancel(s) \/ Discard(s)
  <2>1. PICK l \in {"failed", "cancelled", "done"} : Goto(s, Main, l)
    BY <1>4 DEF AcceptFails, Cancel, Discard
  <2>2. UNCHANGED <<chunk, snap, ver, bitmap>>
    BY <1>4 DEF AcceptFails, Cancel, Discard, stateVars
  <2>3. pc'[s][Main] = l => CompletionOf(s)'
    BY DEF CompletionOf, Opening
  <2>. QED
    BY <1>3, <2>1, <2>2, <2>3
<1>5. CASE Join(s)
  <2>1. PICK l \in {"snapshot", "finish"} :
          Goto(s, Main, l) /\ (l = "finish" => bitmap[s] = Chunks(ver[s]))
    BY <1>5 DEF Join
  <2>2. UNCHANGED <<chunk, snap, ver, bitmap, cache, overwritten>> /\ pc[s][Main] = "accepting"
    BY <1>5 DEF Join, stateVars, fileVars, historyVars
  <2>3. Chunks(ver[s])' = Chunks(ver[s])
    BY <2>2 DEF Chunks
  <2>4. pc'[s][Main] = l /\ s \notin overwritten' => CompletionOf(s)'
    BY <2>1, <2>2, <2>3 DEF CompletionOf, Known, Completion
  <2>. QED
    BY <1>3, <2>1, <2>2, <2>4
<1>6. CASE Finish(s)
  <2>1. UNCHANGED <<chunk, snap, ver, bitmap, cache, overwritten>> /\ pc[s][Main] = "finish"
    BY <1>6 DEF Finish, stateVars, historyVars
  <2>2. Chunks(ver[s])' = Chunks(ver[s])
    BY <2>1 DEF Chunks
  <2>3. CASE Goto(s, Main, "failed")
    <3>1. pc'[s][Main] = "failed" => CompletionOf(s)'
      BY DEF CompletionOf, Opening
    <3>. QED
      BY <1>3, <2>1, <2>3, <3>1
  <2>4. CASE Goto(s, Main, "discard") /\ onDevice' = [c \in Region |-> {cache[c]}]
    <3>1. ASSUME s \notin overwritten, Chunks(ver[s]) # {}, NEW c \in Region
          PROVE  cache[c] = Data[ver[s]][c]
      <4>1. CASE c \in Chunks(ver[s])
        BY <2>1, <3>1, <4>1 DEF Known, Completion, CompletionOf, BitmapSound
      <4>2. CASE c \notin Chunks(ver[s])
        BY <2>1, <3>1, <4>2 DEF Known, Completion, CompletionOf, Chunks
      <4>. QED
        BY <4>1, <4>2
    <3>2. pc'[s][Main] = "discard" /\ s \notin overwritten' => CompletionOf(s)'
      BY <2>1, <2>2, <2>4, <3>1 DEF Known, Completion, CompletionOf
    <3>. QED
      BY <1>3, <2>1, <2>4, <3>2
  <2>. QED
    BY <1>6, <2>3, <2>4 DEF Finish
<1>. QED
  BY <1>2, <1>4, <1>5, <1>6, CreateKnown, LoadKnown DEF MainStep

\* Known is kept by a worker: the bit it sets is of a chunk it has written.
LEMMA WorkerKnown ==
    ASSUME TypeOK, Writeback, Guard, Known, Stored,
           NEW s \in Session, NEW w \in Stream, WorkerStep(s, w)
    PROVE  Known'
<1>. USE ConstantsAssumption
<1>1. w \in Task /\ Main \in Task /\ w # Main
  BY DEF Task
<1>2. ASSUME NEW l, Goto(s, w, l), UNCHANGED ver,
             \A q \in Session : bitmap'[q] = bitmap[q] \/ pc[q][Main] \notin {"finish", "discard"}
      PROVE  Completion'
  <2>1. \A q \in Session : pc'[q][Main] = pc[q][Main]
    BY <1>1, <1>2, GotoMoves
  <2>. QED
    BY <1>2, <2>1, KeepsCompletion DEF Known, Completion
<1>3. ASSUME NEW l, Goto(s, w, l), l \notin {"wrote", "tmp", "rename"},
             UNCHANGED <<ver, bitmap, snap>>,
             \A q \in Session, y \in Task : ~(q = s /\ y = w) => chunk'[q][y] = chunk[q][y]
      PROVE  Known'
  <2>1. BitmapSound' /\ Completion'
    BY <1>2, <1>3, KeepsBitmap DEF Known
  <2>2. Progress'
    BY <1>1, <1>3, MoveKeepsProgress DEF Known
  <2>. QED
    BY <2>1, <2>2 DEF Known
<1>4. CASE BeginWrite(s, w)
  <2>1. PICK c \in queued[s] : BeginWrite(s, w)!(c)
    BY <1>4 DEF BeginWrite
  <2>2. \A q \in Session, y \in Task : ~(q = s /\ y = w) => chunk'[q][y] = chunk[q][y]
    BY <2>1 DEF TypeOK
  <2>. QED
    BY <1>3, <2>1, <2>2
<1>5. CASE EndWrite(s, w)
  <2>1. /\ Goto(s, w, "wrote")
        /\ cache' = [cache EXCEPT ![chunk[s][w]] = Data[ver[s]][chunk[s][w]]]
        /\ UNCHANGED <<chunk, snap, ver, bitmap>>
    BY <1>5 DEF EndWrite, stateVars
  <2>2. chunk[s][w] \in Region
    BY <1>1 DEF TypeOK
  <2>3. cache'[chunk'[s][w]] = Data[ver[s]][chunk'[s][w]]
    BY <2>1, <2>2 DEF TypeOK
  <2>4. Progress'
    BY <1>1, <2>1, <2>3, MoveKeepsProgress DEF Known
  <2>. QED
    BY <1>2, <2>1, <2>4, KeepsBitmap DEF Known
<1>6. CASE SetBit(s, w)
  <2>1. /\ Goto(s, w, "count") /\ pc[s][w] = "wrote"
        /\ bitmap' = [bitmap EXCEPT ![s] = @ \cup {chunk[s][w]}]
        /\ UNCHANGED <<chunk, snap, ver, cache, overwritten>>
    BY <1>6 DEF SetBit, fileVars, historyVars
  <2>2. pc[s][Main] \notin {"finish", "discard"}
    BY <2>1 DEF Guard, Stopped
  <2>3. \A q \in Session : bitmap'[q] = IF q = s THEN bitmap[s] \cup {chunk[s][w]} ELSE bitmap[q]
    BY <2>1 DEF TypeOK
  <2>4. Completion'
    BY <1>2, <2>1, <2>2, <2>3
  <2>5. Progress'
    BY <1>1, <2>1, MoveKeepsProgress DEF Known
  <2>6. s \notin overwritten => cache[chunk[s][w]] = Data[ver[s]][chunk[s][w]]
    BY <1>1, <2>1 DEF Known, Progress
  <2>7. BitmapSound'
    BY <2>1, <2>3, <2>6 DEF Known, BitmapSound
  <2>. QED
    BY <2>4, <2>5, <2>7 DEF Known
<1>7. CASE CountSince(s, w) \/ TryLock(s, w) \/ StreamEnds(s, w) \/ StreamFails(s, w)
  <2>1. \E l \in {"reading", "trylock", "snapshot", "ended", "failed"} : Goto(s, w, l)
    BY <1>7 DEF CountSince, TryLock, StreamEnds, StreamFails
  <2>2. UNCHANGED <<ver, bitmap, snap, chunk>>
    BY <1>7 DEF CountSince, TryLock, StreamEnds, StreamFails, stateVars
  <2>. QED
    BY <1>3, <2>1, <2>2
<1>. QED
  BY <1>4, <1>5, <1>6, <1>7 DEF WorkerStep

\* Known is kept by a checkpoint: after the fsync the snapshot is durable,
\* because the snapshot is no larger than the bitmap.
LEMMA CheckpointKnown ==
    ASSUME TypeOK, Writeback, Guard, Snapshots, Known, Stored,
           NEW s \in Session, NEW w \in Task, CheckpointStep(s, w)
    PROVE  Known'
<1>. USE ConstantsAssumption
<1>1. UNCHANGED <<ver, bitmap, chunk>>
  BY DEF CheckpointStep, Snapshot, SyncData, WriteTmp, Rename, SaveFails, stateVars
<1>2. BitmapSound'
  BY <1>1, KeepsBitmap DEF Known
<1>3. PICK l \in {"reading", "failed", "sync", "tmp", "rename"} : Goto(s, w, l)
  BY DEF CheckpointStep, Snapshot, SyncData, WriteTmp, Rename, SaveFails, Leave
<1>4. \A q \in Session, y \in Task :
        pc'[q][y] = IF q = s /\ y = w THEN l ELSE pc[q][y]
  BY <1>3, GotoMoves
<1>5. Completion'
  <2>1. ASSUME NEW q \in Session \ overwritten'
        PROVE  CompletionOf(q)'
    <3>1. CASE q = s /\ w = Main
      BY <1>3, <1>4, <3>1 DEF CompletionOf, Task, Opening
    <3>2. CASE ~(q = s /\ w = Main)
      <4>1. pc'[q][Main] = pc[q][Main]
        BY <1>4, <3>2 DEF Task
      <4>. QED
        BY <1>1, <2>1, <4>1, KeepsCompletion DEF Known
    <3>. QED
      BY <3>1, <3>2
  <2>. QED
    BY <2>1 DEF Completion
<1>6. Progress'
  <2>1. \A q \in Session, y \in Task : ~(q = s /\ y = w) =>
          chunk'[q][y] = chunk[q][y] /\ snap'[q][y] = snap[q][y]
    <3>1. CASE Snapshot(s, w)
      BY <1>1, <3>1 DEF Snapshot, TypeOK
    <3>2. CASE UNCHANGED snap
      BY <1>1, <3>2
    <3>. QED
      BY <3>1, <3>2 DEF CheckpointStep, SyncData, WriteTmp, Rename, SaveFails
  <2>2. CASE Snapshot(s, w) \/ Rename(s, w) \/ SaveFails(s, w)
    <3>1. \E k \in {"reading", "failed", "sync"} : Goto(s, w, k)
      BY <2>2 DEF Snapshot, Rename, SaveFails, Leave
    <3>. QED
      BY <1>1, <2>1, <3>1, MoveKeepsProgress DEF Known
  <2>3. CASE SyncData(s, w)
    <3>1. /\ onDevice' = [c \in Region |-> {cache[c]}]
          /\ Goto(s, w, "tmp") /\ pc[s][w] = "sync" /\ snap' = snap
          /\ overwritten' = overwritten
      BY <2>3 DEF SyncData, historyVars
    <3>2. snap[s][w] \subseteq bitmap[s] /\ bitmap[s] \subseteq Region
      BY <3>1 DEF Snapshots, TypeOK
    <3>3. s \notin overwritten' => \A c \in snap'[s][w] : onDevice'[c] = {Data[ver[s]][c]}
      BY <3>1, <3>2 DEF Known, BitmapSound
    <3>. QED
      BY <1>1, <2>1, <3>1, <3>3, MoveKeepsProgress DEF Known
  <2>4. CASE WriteTmp(s, w)
    <3>1. /\ Goto(s, w, "rename") /\ pc[s][w] = "tmp"
          /\ UNCHANGED <<onDevice, snap, overwritten>>
      BY <2>4 DEF WriteTmp, fileVars
    <3>2. s \notin overwritten' => \A c \in snap'[s][w] : onDevice'[c] = {Data[ver[s]][c]}
      BY <3>1 DEF Known, Progress
    <3>. QED
      BY <1>1, <2>1, <3>1, <3>2, MoveKeepsProgress DEF Known
  <2>. QED
    BY <2>2, <2>3, <2>4 DEF CheckpointStep
<1>. QED
  BY <1>2, <1>5, <1>6 DEF Known

-----------------------------------------------------------------------------
(* The results. *)

\* IInv is inductive.
LEMMA Inductive ==
    ASSUME IInv, [Next]_vars
    PROVE  IInv'
<1>1. CASE UNCHANGED vars
  <2>. USE <1>1 DEF vars, fileVars, recordVars, taskVars, stateVars, historyVars
  <2>1. TypeOK' /\ Writeback' /\ Guard' /\ Fresh'
    BY DEF IInv, TypeOK, Writeback, Guard, Fresh
  <2>2. Snapshots' /\ Progress'
    BY DEF IInv, Snapshots, Progress, Alive
  <2>3. BitmapSound' /\ RecordSound'
    BY DEF IInv, BitmapSound, RecordSound, Claims
  <2>4. Completion'
    BY DEF IInv, Completion, CompletionOf, Chunks
  <2>. QED
    BY <2>1, <2>2, <2>3, <2>4 DEF IInv
<1>2. CASE Next
  <2>1. TypeOK'
    BY <1>2, MainType, WorkerType, CheckpointType, EnvironmentType DEF IInv, Next
  <2>2. Guard' /\ Fresh' /\ Snapshots'
    BY <1>2, GuardKept, FreshKept, SnapshotsKept DEF IInv
  <2>3. ASSUME NEW s \in Session, MainStep(s)
        PROVE  Stored /\ Known'
    BY <2>3, MainStored, MainKnown DEF IInv, Known
  <2>4. ASSUME NEW s \in Session, NEW w \in Stream, WorkerStep(s, w)
        PROVE  Stored /\ Known'
    BY <2>4, WorkerStored, WorkerKnown DEF IInv, Known
  <2>5. ASSUME NEW s \in Session, NEW w \in Task, CheckpointStep(s, w)
        PROVE  Stored /\ Known'
    BY <2>5, CheckpointStored, CheckpointKnown DEF IInv, Known
  <2>6. ASSUME NEW how \in Tampering, Tamper(how)
        PROVE  Stored /\ Known'
    <3>1. Stored
      BY <2>6, TamperStored DEF IInv
    <3>2. UNCHANGED <<pc, chunk, snap, ver, bitmap>> /\ Quiet
      BY <2>6 DEF Tamper, taskVars, stateVars
    <3>3. BitmapSound'
      BY <3>1, <3>2, KeepsBitmap DEF IInv
    <3>4. Progress'
      BY <3>2 DEF Progress, Quiet, Alive, Stopped
    <3>5. Completion'
      BY <3>1, <3>2, KeepsCompletion DEF IInv, Completion
    <3>. QED
      BY <3>1, <3>3, <3>4, <3>5 DEF Known
  <2>7. CASE Kill \/ PowerLoss
    <3>1. Writeback' /\ RecordSound'
      BY <2>7, CrashStored DEF IInv
    <3>2. /\ \A q \in Session, x \in Task : pc'[q][x] \in Stopped \cup {"idle"}
          /\ \A q \in Session : bitmap'[q] = {}
      BY <2>7, ForgetStops DEF IInv, Kill, PowerLoss
    <3>3. BitmapSound' /\ Progress' /\ Completion'
      BY <3>2 DEF BitmapSound, Progress, Completion, CompletionOf, Stopped, Task, Opening
    <3>. QED
      BY <2>1, <2>2, <3>1, <3>3 DEF IInv
  <2>. QED
    BY <1>2, <2>1, <2>2, <2>3, <2>4, <2>5, <2>6, <2>7 DEF Next, IInv, Stored, Known
<1>. QED
  BY <1>1, <1>2

\* IInv holds in every reachable state.
LEMMA Invariance == Spec => []IInv
<1>1. Init /\ TypeOK => IInv
  BY DEF Init, IInv, Writeback, Guard, Fresh, Snapshots, BitmapSound, RecordSound, Claims,
     Progress, Completion, CompletionOf, Saving, Opening, Task, Alive
<1>2. IInv /\ [Next]_vars => IInv'
  BY Inductive
<1>. QED
  BY <1>1, <1>2, TypeCorrect, PTL DEF Spec

\* A resume record never claims a chunk that a power loss could take back,
\* unless another party changed the chunk after the record was written.
THEOREM RecordsAreSound == Spec => []RecordSound
<1>1. IInv => RecordSound
  BY DEF IInv
<1>. QED
  BY <1>1, Invariance, PTL

\* A set bit of a session means the offered bytes are in the file.
THEOREM BitmapsAreSound == Spec => []BitmapSound
<1>1. IInv => BitmapSound
  BY DEF IInv
<1>. QED
  BY <1>1, Invariance, PTL

\* A non-empty file reported complete is exactly, and durably, the offered
\* one.
THEOREM CompletionIsExact == Spec => CompleteExact
<1>. DEFINE Exact ==
       \A s \in Session \ overwritten :
         pc[s][Main] # "done" /\ pc'[s][Main] = "done" /\ Chunks(ver[s]) # {}
             => \A c \in Region : onDevice'[c] = {Data[ver[s]][c]}
<1>1. IInv /\ [Next]_vars => [Exact]_vars
  <2>. SUFFICES ASSUME IInv, Next,
                       NEW s \in Session \ overwritten,
                       pc[s][Main] # "done", pc'[s][Main] = "done", Chunks(ver[s]) # {}
                PROVE  \A c \in Region : onDevice'[c] = {Data[ver[s]][c]}
    OBVIOUS
  <2>. USE ConstantsAssumption
  <2>1. TypeOK /\ Completion /\ Main \in Task
    BY DEF IInv, Task
  <2>2. ASSUME NEW q \in Session, NEW w \in Task, NEW l, Goto(q, w, l)
        PROVE  l = "done" /\ q = s /\ w = Main
    <3>1. pc'[s][Main] = IF s = q /\ Main = w THEN l ELSE pc[s][Main]
      BY <2>1, <2>2, GotoMoves
    <3>. QED
      BY <3>1
  <2>3. ASSUME NEW q \in Session, MainStep(q)
        PROVE  Discard(q) /\ q = s
    <3>1. ~ Create(q) /\ \A resume \in ResumeFlag : ~ Load(q, resume)
      BY <2>1, <2>2 DEF Create, Load
    <3>2. \A w \in Stream : ~ Accept(q, w)
      BY <2>2 DEF Accept, Task
    <3>3. ~ AcceptFails(q) /\ ~ Cancel(q)
      BY <2>1, <2>2 DEF AcceptFails, Cancel
    <3>4. ~ Join(q)
      BY <2>1, <2>2 DEF Join
    <3>5. ~ Finish(q)
      BY <2>1, <2>2 DEF Finish
    <3>. QED
      BY <2>1, <2>2, <2>3, <3>1, <3>2, <3>3, <3>4, <3>5 DEF MainStep, Discard
  <2>4. ASSUME NEW q \in Session, NEW w \in Stream
        PROVE  ~ WorkerStep(q, w)
    <3>1. w \in Task /\ w # Main
      BY DEF Task
    <3>2. \A l : ~ Goto(q, w, l)
      BY <2>2, <3>1
    <3>. QED
      BY <3>2 DEF WorkerStep, BeginWrite, EndWrite, SetBit, CountSince, TryLock,
                  StreamEnds, StreamFails
  <2>5. ASSUME NEW q \in Session, NEW w \in Task
        PROVE  ~ CheckpointStep(q, w)
    <3>1. CheckpointStep(q, w) =>
            \E l \in {"reading", "failed", "sync", "tmp", "rename"} : Goto(q, w, l)
      BY DEF CheckpointStep, Snapshot, SyncData, WriteTmp, Rename, SaveFails, Leave
    <3>. QED
      BY <2>2, <3>1
  <2>6. ~ Forget
    BY <2>1 DEF Forget, Stopped
  <2>7. \A how \in Tampering : ~ Tamper(how)
    BY DEF Tamper, taskVars
  <2>8. Discard(s)
    BY <2>3, <2>4, <2>5, <2>6, <2>7 DEF Next, Kill, PowerLoss
  <2>9. CompletionOf(s) /\ pc[s][Main] = "discard" /\ onDevice' = onDevice
    BY <2>1, <2>8 DEF Discard, Completion, fileVars
  <2>. QED
    BY <2>9 DEF CompletionOf
<1>. QED
  BY <1>1, Invariance, PTL DEF Spec, CompleteExact

=============================================================================
