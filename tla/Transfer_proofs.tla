-------------------------- MODULE Transfer_proofs --------------------------
(***************************************************************************)
(* Proofs about Transfer: type correctness, that the protocol implements   *)
(* Delivery, that a resume finds what was received, that accepted offers   *)
(* keep their files apart and inside the output directory, and that the    *)
(* two sides never deadlock, for every number of files, chunks, streams,   *)
(* attempts and failures.                                                  *)
(***************************************************************************)
EXTENDS Transfer, ChunkLayout_proofs, TLAPS
LOCAL INSTANCE SequencesExt

\* What a worker has in hand is a chunk, and what it is about to set a bit
\* for is in the file.
InHand ==
    \A i \in Stream :
        /\ wp[i] = "write" => wchunk[i] \in Chunk
        /\ rw[i] = "wrote" => rchunk[i] \in disk

\* Bits and records claim only what is in the files.
Claims == bits \subseteq disk /\ record \subseteq disk

\* A file past the completeness loop is whole.
CheckedWhole == \A c \in Chunk : c[1] \in checked => c \in disk

\* Completion is true, and announced only by a receiver that completed.
Announced ==
    /\ rp = "ok" => disk = Chunk
    /\ toS # None /\ toS.type = "Complete" => rp = "ok"

IInv == TypeOK /\ InHand /\ Claims /\ CheckedWhole /\ Announced

\* A chunk belongs to a file.
LEMMA ChunkFile == \A c \in Chunk : c[1] \in File
  BY DEF Chunk

LEMMA NoneNoMsg ==
    /\ None # AbortMsg
    /\ \A S \in SUBSET Chunk : None # AcceptMsg(S)
  BY TransferAssumption DEF AbortMsg, AcceptMsg, Msg

-----------------------------------------------------------------------------
LEMMA IInvInit == Init => IInv
<1> SUFFICES ASSUME Init PROVE IInv
  OBVIOUS
<1>1. TypeOK
  BY DEF Init, TypeOK, Ended, Stopped
<1>2. InHand /\ Claims /\ CheckedWhole /\ Announced
  BY DEF Init, InHand, Claims, CheckedWhole, Announced
<1> QED
  BY <1>1, <1>2 DEF IInv

LEMMA RetryKeeps == IInv /\ Retry => IInv'
<1> SUFFICES ASSUME IInv, Retry PROVE IInv'
  OBVIOUS
<1>1. TypeOK'
  BY DEF Retry, Begin, IInv, TypeOK, Ended, Stopped, storeVars
<1>2. InHand' /\ Claims' /\ CheckedWhole' /\ Announced'
  BY DEF Retry, Begin, IInv, InHand, Claims, CheckedWhole, Announced, storeVars
<1> QED
  BY <1>1, <1>2 DEF IInv

LEMMA SenderKeeps == IInv /\ Sender => IInv'
<1> SUFFICES ASSUME IInv, Sender PROVE IInv'
  OBVIOUS
<1> USE DEF IInv, TypeOK, InHand, Claims, CheckedWhole, Announced, Ended, Stopped,
            sessionVars, linkVars, storeVars, receiverVars, historyVars
<1>1. CASE SendHello
  BY <1>1 DEF SendHello
<1>2. CASE SendOffer
  BY <1>2 DEF SendOffer
<1>3. CASE ReadAnswer
  BY <1>3 DEF ReadAnswer, Missing
<1>4. CASE ReadComplete
  BY <1>4 DEF ReadComplete
<1>5. CASE ReadRefusal
  BY <1>5 DEF ReadRefusal
<1>6. CASE DialRefused
  BY <1>6 DEF DialRefused
<1>7. CASE JoinSenders
  BY <1>7 DEF JoinSenders
<1> QED
  BY <1>1, <1>2, <1>3, <1>4, <1>5, <1>6, <1>7 DEF Sender

LEMMA StreamsKeep ==
    ASSUME NEW i \in Stream, IInv, Connect(i) \/ SendWorker(i)
    PROVE  IInv'
<1> USE DEF IInv, TypeOK, InHand, Claims, CheckedWhole, Announced, Ended, Stopped,
            sessionVars, linkVars, storeVars, receiverVars, historyVars
<1>1. CASE Connect(i)
  BY <1>1 DEF Connect
<1>2. CASE Pop(i)
  BY <1>2 DEF Pop
<1>3. CASE Write(i)
  <2>1. wire' \in [Stream -> Seq(Chunk)]
    <3>1. wire[i] \in Seq(Chunk) /\ wchunk[i] \in Chunk
      BY <1>3 DEF Write
    <3>2. Append(wire[i], wchunk[i]) \in Seq(Chunk)
      BY <3>1
    <3> QED
      BY <1>3, <3>2 DEF Write
  <2>2. wp' \in [Stream -> {"pop", "write", "drain"} \cup Stopped]
    BY <1>3 DEF Write
  <2>3. \A j \in Stream : wp'[j] = "write" => wchunk'[j] \in Chunk
    BY <1>3 DEF Write
  <2> QED
    BY <1>3, <2>1, <2>2, <2>3 DEF Write
<1>4. CASE Shutdown(i)
  <2>1. /\ wp' \in [Stream -> {"pop", "write", "drain"} \cup Stopped]
        /\ close' \in [Stream -> {"open", "eof", "broken"}]
        /\ \A j \in Stream : wp'[j] = "write" => wp[j] = "write"
    BY <1>4 DEF Shutdown, ShutDown
  <2> QED
    BY <1>4, <2>1 DEF Shutdown
<1>5. CASE Drained(i)
  BY <1>5 DEF Drained
<1> QED
  BY <1>1, <1>2, <1>3, <1>4, <1>5 DEF SendWorker

\* What the next attempt starts from is in the files.
LEMMA StartBitsOnDisk == IInv => StartBits \subseteq disk
  BY DEF IInv, Claims, StartBits, Loaded

\* A checkpoint records only bits and what was recorded before.
LEMMA CheckpointedFrom == \A S, b : Checkpointed(S, b) \subseteq record \cup b
  BY DEF Checkpointed

LEMMA ReceiverKeeps == IInv /\ Receiver => IInv'
<1> SUFFICES ASSUME IInv, Receiver PROVE IInv'
  OBVIOUS
<1> USE DEF IInv, TypeOK, InHand, Claims, CheckedWhole, Announced, Ended, Stopped,
            sessionVars, senderVars, linkVars, storeVars, historyVars
<1>1. CASE ReadHello
  BY <1>1 DEF ReadHello, AbortMsg
<1>2. CASE Accept
  BY <1>2, StartBitsOnDisk DEF Accept, AcceptMsg
<1>3. CASE Refuse
  BY <1>3 DEF Refuse, AbortMsg
<1>4. CASE PeerLeft
  BY <1>4 DEF PeerLeft
<1>5. CASE JoinWorkers
  <2>1. record' \subseteq record \cup bits /\ unsaved' \subseteq File
    BY <1>5, CheckpointedFrom DEF JoinWorkers, SaveAll
  <2>2. rp' \in {"check", "failed"}
    BY <1>5 DEF JoinWorkers
  <2> QED
    BY <1>5, <2>1, <2>2 DEF JoinWorkers
<1>6. CASE Confirm
  <2>1. disk \subseteq Chunk /\ \A c \in Chunk : c \in disk
    BY <1>6, ChunkFile DEF Confirm
  <2>2. toS' # None /\ toS'.type = "Complete" => rp' = "ok"
    BY <1>6 DEF Confirm, Arriving
  <2>3. rp' \in Ended
    BY <1>6 DEF Confirm
  <2> QED
    BY <1>6, <2>1, <2>2, <2>3 DEF Confirm
<1>7. ASSUME NEW i \in Stream, ReadStreamHello(i) PROVE IInv'
  BY <1>7 DEF ReadStreamHello
<1>8. ASSUME NEW f \in File, CheckFile(f) PROVE IInv'
  <2>1. record' \subseteq record \cup bits /\ unsaved' \subseteq File
    BY <1>8, CheckpointedFrom DEF CheckFile
  <2>2. \A c \in Chunk : c[1] \in checked' => c \in disk
    BY <1>8 DEF CheckFile, Whole, ChunksOf
  <2>3. rp' \in {"check", "failed"} /\ checked' \subseteq File
    BY <1>8 DEF CheckFile
  <2>4. ~(toS' # None /\ toS'.type = "Complete")
    BY <1>8 DEF CheckFile, AbortMsg, Arriving
  <2> QED
    BY <1>8, <2>1, <2>2, <2>3, <2>4 DEF CheckFile
<1> QED
  BY <1>1, <1>2, <1>3, <1>4, <1>5, <1>6, <1>7, <1>8 DEF Receiver

LEMMA RecvWorkerKeeps ==
    ASSUME NEW i \in Stream, IInv, RecvWorker(i)
    PROVE  IInv'
<1> USE DEF IInv, TypeOK, InHand, Claims, CheckedWhole, Announced, Ended, Stopped,
            sessionVars, senderVars, linkVars, storeVars, historyVars
<1>1. CASE Land(i)
  BY <1>1 DEF Land
<1>2. CASE SetBit(i)
  BY <1>2, CheckpointedFrom DEF SetBit
<1>3. CASE StreamEnds(i)
  BY <1>3 DEF StreamEnds
<1> QED
  BY <1>1, <1>2, <1>3 DEF RecvWorker

LEMMA FailureKeeps == IInv /\ Failure => IInv'
<1> SUFFICES ASSUME IInv, Failure PROVE IInv'
  OBVIOUS
<1> USE DEF IInv, TypeOK, InHand, Claims, CheckedWhole, Announced, Ended, Stopped, Fault,
            Killed, sessionVars, senderVars, linkVars, storeVars, receiverVars, historyVars
<1>1. CASE SenderKilled
  BY <1>1 DEF SenderKilled
<1>2. CASE ReceiverKilled
  BY <1>2 DEF ReceiverKilled
<1>3. CASE SenderGivesUp
  BY <1>3 DEF SenderGivesUp
<1>4. CASE ReceiverGivesUp
  BY <1>4 DEF ReceiverGivesUp
<1>5. ASSUME NEW i \in Stream, StreamBreaks(i) PROVE IInv'
  <2>1. wire' \in [Stream -> Seq(Chunk)]
    <3>1. PICK s \in {<<>>, wire[i]} : wire' = [wire EXCEPT ![i] = s]
      BY <1>5 DEF StreamBreaks
    <3>2. wire \in [Stream -> Seq(Chunk)]
      OBVIOUS
    <3>3. <<>> \in Seq(Chunk)
      OBVIOUS
    <3> HIDE DEF IInv
    <3> QED
      BY <3>1, <3>2, <3>3
  <2> QED
    BY <1>5, <2>1 DEF StreamBreaks
<1>6. ASSUME NEW i \in Stream, WorkerFails(i) PROVE IInv'
  BY <1>6 DEF WorkerFails
<1>7. CASE Silence
  <2>1. <<>> \in Seq(Chunk)
    OBVIOUS
  <2> QED
    BY <1>7, <2>1 DEF Silence
<1> QED
  BY <1>1, <1>2, <1>3, <1>4, <1>5, <1>6, <1>7 DEF Failure

LEMMA IInvStep == IInv /\ [Next]_vars => IInv'
<1> SUFFICES ASSUME IInv, [Next]_vars PROVE IInv'
  OBVIOUS
<1>1. CASE UNCHANGED vars
  BY <1>1 DEF IInv, TypeOK, InHand, Claims, CheckedWhole, Announced, vars,
              sessionVars, senderVars, linkVars, storeVars, receiverVars, historyVars
<1> QED
  BY <1>1, RetryKeeps, SenderKeeps, StreamsKeep, ReceiverKeeps, RecvWorkerKeeps,
     FailureKeeps DEF Next

LEMMA Invariance == Spec => []IInv
  BY IInvInit, IInvStep, PTL DEF Spec

\* Every action keeps the state well typed, for any files and streams.
THEOREM TypeCorrect == Spec => []TypeOK
<1>1. IInv => TypeOK
  BY DEF IInv
<1> QED
  BY <1>1, Invariance, PTL

-----------------------------------------------------------------------------
(* The refinement: every step is a step of Delivery or changes nothing of  *)
(* what Delivery sees.                                                     *)

LEMMA RefinesInit == Init => D!Init
  BY DEF Init, D!Init, Status, Ended

LEMMA RefinesStep == IInv /\ [Next]_vars => [D!Next]_(D!vars)
<1> SUFFICES ASSUME IInv, [Next]_vars PROVE [D!Next]_(D!vars)
  OBVIOUS
<1> USE DEF D!Next, D!vars, Status, Ended, IInv, TypeOK
<1>1. CASE UNCHANGED vars
  BY <1>1 DEF vars, senderVars, storeVars, receiverVars
<1>2. CASE Retry
  BY <1>2 DEF Retry, Begin, storeVars, D!Retry
<1>3. CASE Sender
  <2> USE DEF storeVars, receiverVars, D!SenderFails, D!SenderOk
  <2>1. CASE SendHello \/ SendOffer
    BY <2>1 DEF SendHello, SendOffer
  <2>2. CASE ReadAnswer
    BY <2>2 DEF ReadAnswer
  <2>3. CASE ReadComplete
    BY <2>3 DEF ReadComplete, Announced
  <2>4. CASE ReadRefusal \/ DialRefused \/ JoinSenders
    BY <2>4 DEF ReadRefusal, DialRefused, JoinSenders
  <2> QED
    BY <1>3, <2>1, <2>2, <2>3, <2>4 DEF Sender
<1>4. ASSUME NEW i \in Stream, Connect(i) \/ SendWorker(i) PROVE [D!Next]_(D!vars)
  BY <1>4 DEF Connect, SendWorker, Pop, Write, Shutdown, Drained, storeVars, receiverVars
<1>5. CASE Receiver
  <2> USE DEF senderVars, storeVars, D!ReceiverFails, D!ReceiverOk
  <2>1. CASE ReadHello \/ Accept \/ Refuse \/ PeerLeft \/ JoinWorkers
    BY <2>1 DEF ReadHello, Accept, Refuse, PeerLeft, JoinWorkers
  <2>2. CASE Confirm
    BY <2>2, ChunkFile DEF Confirm, CheckedWhole
  <2>3. ASSUME NEW i \in Stream, ReadStreamHello(i) PROVE [D!Next]_(D!vars)
    BY <2>3 DEF ReadStreamHello
  <2>4. ASSUME NEW f \in File, CheckFile(f) PROVE [D!Next]_(D!vars)
    BY <2>4 DEF CheckFile, Whole
  <2> QED
    BY <1>5, <2>1, <2>2, <2>3, <2>4 DEF Receiver
<1>6. ASSUME NEW i \in Stream, RecvWorker(i) PROVE [D!Next]_(D!vars)
  <2> USE DEF senderVars, storeVars
  <2>1. CASE Land(i)
    <3>1. Head(wire[i]) \in Chunk
      BY <2>1 DEF Land
    <3>2. disk' = disk \cup {Head(wire[i])} /\ rp' = rp /\ sp' = sp
      BY <2>1 DEF Land
    <3>3. D!Deliver
      BY <3>1, <3>2 DEF D!Deliver
    <3> QED
      BY <3>3
  <2>2. CASE SetBit(i) \/ StreamEnds(i)
    BY <2>2 DEF SetBit, StreamEnds
  <2> QED
    BY <1>6, <2>1, <2>2 DEF RecvWorker
<1>7. CASE Failure
  <2> USE DEF Fault, Killed, senderVars, storeVars, receiverVars, D!SenderFails, D!ReceiverFails
  <2>1. CASE SenderKilled \/ SenderGivesUp
    BY <2>1 DEF SenderKilled, SenderGivesUp
  <2>2. CASE ReceiverKilled \/ ReceiverGivesUp
    BY <2>2 DEF ReceiverKilled, ReceiverGivesUp
  <2>3. ASSUME NEW i \in Stream, StreamBreaks(i) \/ WorkerFails(i)
        PROVE  [D!Next]_(D!vars)
    BY <2>3 DEF StreamBreaks, WorkerFails
  <2>4. CASE Silence
    BY <2>4 DEF Silence
  <2> QED
    BY <1>7, <2>1, <2>2, <2>3, <2>4 DEF Failure
<1> QED
  BY <1>1, <1>2, <1>3, <1>4, <1>5, <1>6, <1>7 DEF Next

\* The protocol implements Delivery: what is delivered stays, recv::run
\* succeeds only with every chunk, and send::run only after recv::run.
THEOREM TransferRefinesDelivery == Spec => Refines
  BY Invariance, RefinesInit, RefinesStep, PTL DEF Spec, Refines, D!Spec

-----------------------------------------------------------------------------
(* What an attempt leaves for the next one. *)

\* From the join on no worker runs.
Joined ==
    checked # {} \/ rp = "check" \/ cause # "none" =>
        /\ rp \in {"check", "ok", "failed"}
        /\ \A i \in Stream : rw[i] \in {"ended", "err"}

\* A cause is noted by the step that fails.
CauseFails == cause # "none" => rp = "failed"

\* A file past the completeness loop has no record.
Cleared == \A c \in record : c[1] \notin checked

\* What the attempt started with is in the bitmaps, and in a file's record
\* if it has one.
Kept ==
    /\ started \subseteq bits
    /\ \A f \in File :
          record \cap ChunksOf(f) # {} => started \cap ChunksOf(f) \subseteq record

\* After a failure at the end a resume finds every bit of a file that is saved.
Found ==
    cause # "none" =>
        \A f \in File :
            \/ bits \cap ChunksOf(f) \subseteq Loaded(f)
            \/ f \in unsaved /\ record \cap ChunksOf(f) # {}

KInv == Joined /\ CauseFails /\ Cleared /\ Kept /\ Found

LEMMA KInvInit == Init => KInv
  BY DEF Init, KInv, Joined, CauseFails, Cleared, Kept, Found

\* Steps that leave the receiver's records, bits and progress alone.
LEMMA KInvAside ==
    ASSUME IInv, KInv,
           UNCHANGED <<rp, rw, checked, cause, unsaved, started, record, bits, disk>>
    PROVE  KInv'
  BY DEF KInv, Joined, CauseFails, Cleared, Kept, Found, Loaded

\* Before the join no cause is noted and nothing is checked.
LEMMA KInvEarly ==
    ASSUME IInv, KInv, rp \in {"hello", "offer", "streams", "join"} \/
                       \E i \in Stream : rw[i] \notin {"ended", "err"}
    PROVE  cause = "none" /\ checked = {}
  BY DEF KInv, Joined

LEMMA KInvSender == IInv /\ KInv /\ Sender => KInv'
  BY KInvAside DEF Sender, SendHello, SendOffer, ReadAnswer, ReadComplete, ReadRefusal,
     DialRefused, JoinSenders, storeVars, receiverVars, historyVars

LEMMA KInvStreams ==
    ASSUME NEW i \in Stream, IInv, KInv, Connect(i) \/ SendWorker(i)
    PROVE  KInv'
<1>1. CASE Connect(i)
  <2>1. cause = "none" /\ checked = {} /\ rp = "streams"
    BY <1>1, KInvEarly DEF Connect
  <2>2. /\ cause' = "none" /\ checked' = {} /\ rp' = "streams"
        /\ UNCHANGED <<record, bits, disk, started>>
    BY <1>1, <2>1 DEF Connect, storeVars, historyVars
  <2> QED
    BY <2>2 DEF KInv, Joined, CauseFails, Cleared, Kept, Found
<1>2. CASE SendWorker(i)
  BY <1>2, KInvAside DEF SendWorker, Pop, Write, Shutdown, Drained, storeVars, receiverVars,
     historyVars
<1> QED
  BY <1>1, <1>2

\* A checkpoint of a file with bits makes its record those bits, and leaves
\* the records of the other files alone.
LEMMA CheckpointedIs ==
    ASSUME NEW S \in SUBSET File, NEW b \in SUBSET Chunk, record \subseteq Chunk, NEW f \in File
    PROVE  Checkpointed(S, b) \cap ChunksOf(f) =
             IF f \in S /\ b \cap ChunksOf(f) # {} THEN b \cap ChunksOf(f)
             ELSE record \cap ChunksOf(f)
<1>1. CASE f \in S /\ b \cap ChunksOf(f) # {}
  BY <1>1 DEF Checkpointed, ChunksOf
<1>2. CASE ~(f \in S /\ b \cap ChunksOf(f) # {})
  BY <1>2 DEF Checkpointed, ChunksOf
<1> QED
  BY <1>1, <1>2

\* No checkpoint loses what the attempt started with.
LEMMA CheckpointKeeps ==
    ASSUME IInv, Kept, NEW S \in SUBSET File, NEW b \in SUBSET Chunk, bits \subseteq b,
           record' = Checkpointed(S, b), bits' = b, started' = started
    PROVE  Kept'
<1>1. record \subseteq Chunk
  BY DEF IInv, TypeOK
<1>2. ASSUME NEW f \in File, record' \cap ChunksOf(f) # {}
      PROVE  started \cap ChunksOf(f) \subseteq record'
  <2>1. CASE f \in S /\ b \cap ChunksOf(f) # {}
    <3>1. record' \cap ChunksOf(f) = b \cap ChunksOf(f)
      BY <1>1, <2>1, CheckpointedIs
    <3> QED
      BY <3>1 DEF Kept
  <2>2. CASE ~(f \in S /\ b \cap ChunksOf(f) # {})
    <3>1. record' \cap ChunksOf(f) = record \cap ChunksOf(f)
      BY <1>1, <2>2, CheckpointedIs
    <3> QED
      BY <1>2, <3>1 DEF Kept
  <2> QED
    BY <2>1, <2>2
<1> QED
  BY <1>2 DEF Kept, ChunksOf

LEMMA KInvRecvWorker ==
    ASSUME NEW i \in Stream, IInv, KInv, RecvWorker(i)
    PROVE  KInv'
<1>1. rw[i] \notin {"ended", "err"}
  BY DEF RecvWorker, Land, SetBit, StreamEnds
<1>2. cause = "none" /\ checked = {} /\ rp # "check"
  BY <1>1, KInvEarly DEF KInv, Joined
<1>3. cause' = "none" /\ checked' = {} /\ rp' = rp /\ started' = started
  BY <1>2 DEF RecvWorker, Land, SetBit, StreamEnds, historyVars
<1>4. Kept'
  <2>1. CASE Land(i) \/ StreamEnds(i)
    BY <1>3, <2>1 DEF Land, StreamEnds, storeVars, KInv, Kept, ChunksOf
  <2>2. CASE SetBit(i)
    <3> DEFINE c == rchunk[i]
               b == bits \cup {c}
    <3>1. c \in Chunk /\ c[1] \in File
      BY <2>2, ChunkFile DEF SetBit, IInv, InHand, TypeOK
    <3>2. b \in SUBSET Chunk /\ bits \subseteq b
      BY <3>1 DEF IInv, TypeOK
    <3>3. bits' = b /\ record' \in {record, Checkpointed({c[1]}, b)}
      BY <2>2 DEF SetBit
    <3> HIDE DEF b, c
    <3>4. CASE record' = record
      BY <1>3, <3>2, <3>3, <3>4 DEF KInv, Kept, ChunksOf
    <3>5. CASE record' = Checkpointed({c[1]}, b)
      <4>1. {c[1]} \in SUBSET File
        BY <3>1
      <4> QED
        BY <1>3, <3>2, <3>3, <3>5, <4>1, CheckpointKeeps DEF KInv
    <3> QED
      BY <3>3, <3>4, <3>5
  <2> QED
    BY <2>1, <2>2 DEF RecvWorker
<1> QED
  BY <1>2, <1>3, <1>4 DEF KInv, Joined, CauseFails, Cleared, Found

\* A file is found if it has no record, or was just saved, or is unsaved.
LEMMA FoundWhere ==
    ASSUME IInv, NEW S \in SUBSET File, record' = Checkpointed(S, bits),
           bits' = bits, disk' = disk,
           \A f \in File : f \in S \/ record \cap ChunksOf(f) = {} \/ f \in unsaved'
    PROVE  Found'
<1>1. record \subseteq Chunk /\ bits \in SUBSET Chunk /\ bits \subseteq disk
  BY DEF IInv, TypeOK, Claims
<1>2. ASSUME NEW f \in File
      PROVE  (\/ bits \cap ChunksOf(f) \subseteq Loaded(f)
              \/ f \in unsaved /\ record \cap ChunksOf(f) # {})'
  <2>1. CASE bits \cap ChunksOf(f) = {}
    BY <2>1 DEF ChunksOf
  <2>2. CASE f \in S /\ bits \cap ChunksOf(f) # {}
    <3>1. record' \cap ChunksOf(f) = bits \cap ChunksOf(f)
      BY <1>1, <2>2, CheckpointedIs
    <3> QED
      BY <3>1, <2>2 DEF Loaded, ChunksOf
  <2>3. CASE f \notin S
    <3>1. record' \cap ChunksOf(f) = record \cap ChunksOf(f)
      BY <1>1, <2>3, CheckpointedIs
    <3>2. CASE record \cap ChunksOf(f) = {}
      BY <1>1, <3>1, <3>2 DEF Loaded, ChunksOf
    <3>3. CASE record \cap ChunksOf(f) # {}
      BY <2>3, <3>1, <3>3 DEF ChunksOf
    <3> QED
      BY <3>2, <3>3
  <2> QED
    BY <2>1, <2>2, <2>3
<1> QED
  BY <1>2 DEF Found

LEMMA KInvReceiver == IInv /\ KInv /\ Receiver => KInv'
<1> SUFFICES ASSUME IInv, KInv, Receiver PROVE KInv'
  OBVIOUS
<1>1. CASE ReadHello \/ Accept \/ Refuse \/ PeerLeft \/ \E i \in Stream : ReadStreamHello(i)
  <2>1. rp \in {"hello", "offer", "streams"}
    BY <1>1 DEF ReadHello, Accept, Refuse, PeerLeft, ReadStreamHello
  <2>2. cause = "none" /\ checked = {}
    BY <2>1, KInvEarly
  <2>3. cause' = "none" /\ checked' = {} /\ rp' # "check"
    BY <1>1, <2>2 DEF ReadHello, Accept, Refuse, PeerLeft, ReadStreamHello, historyVars
  <2>4. Kept'
    <3>1. CASE UNCHANGED <<bits, started, record>>
      BY <3>1 DEF KInv, Kept, ChunksOf
    <3>2. CASE bits' = StartBits /\ started' = StartBits /\ record' = record
      <4>1. ASSUME NEW f \in File, record \cap ChunksOf(f) # {}
            PROVE  StartBits \cap ChunksOf(f) \subseteq record
        BY <4>1 DEF StartBits, Loaded, ChunksOf
      <4> QED
        BY <3>2, <4>1 DEF Kept, ChunksOf
    <3> QED
      BY <1>1, <3>1, <3>2 DEF ReadHello, Accept, Refuse, PeerLeft, ReadStreamHello,
         historyVars, storeVars
  <2> QED
    BY <2>3, <2>4 DEF KInv, Joined, CauseFails, Cleared, Found
<1>2. CASE JoinWorkers
  <2>1. cause = "none" /\ checked = {}
    BY <1>2, KInvEarly DEF JoinWorkers
  <2>2. checked' = {} /\ bits' = bits /\ rw' = rw /\ disk' = disk /\ started' = started
    BY <1>2, <2>1 DEF JoinWorkers, SaveAll
  <2>3. Joined'
    BY <1>2, <2>2 DEF JoinWorkers, Joined
  <2>4. CauseFails'
    BY <1>2, <2>1 DEF JoinWorkers, CauseFails
  <2>5. Kept' /\ Found'
    <3>1. CASE \E i \in Stream : rw[i] = "err"
      <4>1. PICK saved \in SUBSET File :
               record' = Checkpointed(saved, bits) /\ unsaved' = File \ saved
        BY <1>2, <3>1 DEF JoinWorkers, SaveAll
      <4>2. bits \in SUBSET Chunk
        BY DEF IInv, TypeOK
      <4> QED
        BY <2>2, <4>1, <4>2, CheckpointKeeps, FoundWhere DEF KInv
    <3>2. CASE ~\E i \in Stream : rw[i] = "err"
      <4>1. record' = record /\ cause' = "none"
        BY <1>2, <3>2, <2>1 DEF JoinWorkers
      <4> QED
        BY <2>2, <4>1 DEF Found, KInv, Kept, ChunksOf
    <3> QED
      BY <3>1, <3>2
  <2> QED
    BY <2>2, <2>3, <2>4, <2>5 DEF KInv, Cleared
<1>3. ASSUME NEW g \in File, CheckFile(g) PROVE KInv'
  <2>1. rp = "check" /\ g \notin checked /\ cause = "none"
        /\ bits' = bits /\ disk' = disk /\ rw' = rw /\ started' = started
    BY <1>3 DEF CheckFile, Whole, KInv, CauseFails
  <2>2. CASE ChunksOf(g) \subseteq bits
    <3>1. checked' = checked \cup {g} /\ record' = record \ ChunksOf(g) /\ cause' = "none"
          /\ rp' = "check"
      BY <1>3, <2>1, <2>2 DEF CheckFile, Whole
    <3>2. Cleared'
      BY <3>1 DEF KInv, Cleared, ChunksOf, IInv, TypeOK
    <3>3. Kept'
      BY <2>1, <3>1 DEF KInv, Kept, ChunksOf
    <3> QED
      BY <2>1, <3>1, <3>2, <3>3 DEF KInv, Joined, CauseFails, Found
  <2>3. CASE ~(ChunksOf(g) \subseteq bits)
    <3>1. checked' = checked /\ cause' = "incomplete" /\ rp' = "failed"
      BY <1>3, <2>1, <2>3 DEF CheckFile, Whole
    <3>2. PICK saved \in SUBSET {g} :
             /\ record' = Checkpointed(saved, bits)
             /\ unsaved' = File \ (checked \cup saved)
      BY <1>3, <2>3 DEF CheckFile, Whole
    <3>3. Cleared'
      BY <2>1, <3>1, <3>2 DEF KInv, Cleared, Checkpointed
    <3>4. Joined' /\ CauseFails'
      BY <2>1, <3>1 DEF KInv, Joined, CauseFails
    <3>5. saved \in SUBSET File /\ bits \in SUBSET Chunk
      BY DEF IInv, TypeOK
    <3>6. Kept'
      BY <2>1, <3>2, <3>5, CheckpointKeeps DEF KInv
    <3>7. \A f \in File : f \in checked => record \cap ChunksOf(f) = {}
      BY DEF KInv, Cleared, ChunksOf
    <3>8. Found'
      BY <2>1, <3>2, <3>5, <3>7, FoundWhere
    <3> QED
      BY <3>3, <3>4, <3>6, <3>8 DEF KInv
  <2> QED
    BY <2>2, <2>3
<1>4. CASE Confirm
  <2>1. cause = "none" /\ cause' = "none" /\ UNCHANGED <<rw, record, checked, bits, started>>
        /\ rp = "check" /\ rp' \in {"ok", "failed"}
    BY <1>4 DEF Confirm, KInv, CauseFails, storeVars, historyVars
  <2> QED
    BY <2>1 DEF KInv, Joined, CauseFails, Cleared, Kept, Found, ChunksOf
<1> QED
  BY <1>1, <1>2, <1>3, <1>4 DEF Receiver

LEMMA KInvFailure == IInv /\ KInv /\ Failure => KInv'
<1> SUFFICES ASSUME IInv, KInv, Failure PROVE KInv'
  OBVIOUS
<1>1. UNCHANGED <<record, bits, disk, checked, cause, unsaved, started>>
  BY DEF Failure, SenderKilled, ReceiverKilled, SenderGivesUp, ReceiverGivesUp, Silence,
     StreamBreaks, WorkerFails, Fault, Killed, storeVars, receiverVars, historyVars
<1>2. \/ rp' = rp
      \/ rp \notin Ended /\ rp' = "failed"
  BY DEF Failure, SenderKilled, ReceiverKilled, SenderGivesUp, ReceiverGivesUp, Silence,
     StreamBreaks, WorkerFails, receiverVars
<1>3. \A i \in Stream : rw[i] \in {"ended", "err"} => rw'[i] = rw[i]
  <2>1. CASE SenderKilled \/ SenderGivesUp \/ Silence \/ \E i \in Stream : StreamBreaks(i)
    BY <2>1 DEF SenderKilled, SenderGivesUp, Silence, StreamBreaks, receiverVars
  <2>2. CASE ReceiverKilled \/ ReceiverGivesUp
    BY <2>2 DEF ReceiverKilled, ReceiverGivesUp, Stopped
  <2>3. ASSUME NEW j \in Stream, WorkerFails(j)
        PROVE  \A i \in Stream : rw[i] \in {"ended", "err"} => rw'[i] = rw[i]
    BY <2>3 DEF WorkerFails, IInv, TypeOK
  <2> QED
    BY <2>1, <2>2, <2>3 DEF Failure
<1>4. Joined'
  BY <1>1, <1>2, <1>3 DEF KInv, Joined, Ended
<1>5. CauseFails' /\ Cleared' /\ Kept' /\ Found'
  BY <1>1, <1>2 DEF KInv, CauseFails, Cleared, Kept, Found, Loaded, Ended
<1> QED
  BY <1>4, <1>5 DEF KInv

LEMMA KInvStep == IInv /\ KInv /\ [Next]_vars => KInv'
<1> SUFFICES ASSUME IInv, KInv, [Next]_vars PROVE KInv'
  OBVIOUS
<1>1. CASE UNCHANGED vars
  BY <1>1, KInvAside DEF vars, storeVars, receiverVars, historyVars
<1>2. CASE Retry
  <2>1. checked' = {} /\ cause' = "none" /\ rp' = "hello" /\ started' = {}
    BY <1>2 DEF Retry, Begin
  <2> QED
    BY <2>1 DEF KInv, Joined, CauseFails, Cleared, Kept, Found
<1> QED
  BY <1>1, <1>2, KInvSender, KInvStreams, KInvReceiver, KInvRecvWorker, KInvFailure DEF Next

LEMMA KInvLosesNothing == IInv /\ KInv => NothingLost
<1> SUFFICES ASSUME IInv, KInv, NEW f \in File
             PROVE  started \cap ChunksOf(f) \subseteq Loaded(f)
  BY DEF NothingLost, KInv, Found
<1> QED
  BY DEF KInv, Kept, Loaded, IInv, Claims

\* No attempt, however it ends and whichever of its checkpoints fail, loses
\* what it started with: a resume finds it in the record or in the file.  After
\* an attempt that failed at its end a resume finds every bit of the attempt in
\* every file but those whose own last checkpoint failed or was not reached and
\* that have an older record.
THEOREM ResumeKeepsProgress == Spec => []NothingLost
<1>1. Init => IInv /\ KInv
  BY IInvInit, KInvInit
<1>2. IInv /\ KInv /\ [Next]_vars => IInv' /\ KInv'
  BY IInvStep, KInvStep
<1> QED
  BY <1>1, <1>2, KInvLosesNothing, PTL DEF Spec
-----------------------------------------------------------------------------
(* Where the files of an accepted offer go.  sanitize_relative_path pushes *)
(* components one at a time and the file system walks them one at a time:  *)
(* by induction over the parts the two stay equal as long as every part    *)
(* passes, so different clean paths are different places.                  *)

\* Pushed obeys its recursion.
LEMMA PushedDef ==
    ASSUME NEW s, Len(s) \in Nat
    PROVE  Pushed(s) = [k \in 0..Len(s) |->
                          IF k = 0 THEN <<>>
                          ELSE IF s[k] \in Redundant THEN Pushed(s)[k - 1]
                          ELSE Append(Pushed(s)[k - 1], s[k])]
<1> DEFINE E(g, k) == IF k = 0 THEN <<>>
                      ELSE IF s[k] \in Redundant THEN g[k - 1]
                      ELSE Append(g[k - 1], s[k])
           G == {n \in Nat : \E g : g = [k \in 0..n |-> E(g, k)]}
<1>0. \A g, h, k : (k = 0 \/ g[k - 1] = h[k - 1]) => E(g, k) = E(h, k)
  OBVIOUS
<1>a. \A g : E(g, 0) = <<>>
  OBVIOUS
<1>1. 0 \in G
  <2> DEFINE g == [k \in 0..0 |-> <<>>]
  <2>1. g = [k \in 0..0 |-> E(g, k)]
    OBVIOUS
  <2> QED
    BY <2>1
<1>2. ASSUME NEW n \in Nat, n \in G PROVE n + 1 \in G
  <2>1. PICK g : g = [k \in 0..n |-> E(g, k)]
    BY <1>2
  <2> HIDE DEF E
  <2> DEFINE h == [k \in 0..n + 1 |-> IF k \in 0..n THEN g[k] ELSE E(g, k)]
  <2>2. ASSUME NEW k \in 0..n + 1 PROVE h[k] = E(h, k)
    <3>1. k # 0 => k - 1 \in 0..n /\ k - 1 \in 0..n + 1
      OBVIOUS
    <3>2. k = 0 \/ g[k - 1] = h[k - 1]
      BY <3>1
    <3>3. E(g, k) = E(h, k)
      BY <3>2, <1>0
    <3>4. h[k] = E(g, k)
      BY <2>1
    <3> QED
      BY <3>3, <3>4
  <2>3. h = [k \in 0..n + 1 |-> E(h, k)]
    <3>1. h = [k \in 0..n + 1 |-> h[k]]
      OBVIOUS
    <3> HIDE DEF h
    <3> QED
      BY <3>1, <2>2
  <2>4. \E g1 : g1 = [k \in 0..n + 1 |-> E(g1, k)]
    <3> HIDE DEF h
    <3> QED
      BY <2>3
  <2> QED
    BY <2>4
<1>3. Len(s) \in G
  <2> HIDE DEF G
  <2> QED
    BY <1>1, <1>2, SetInduction
<1>4. \E g : g = [k \in 0..Len(s) |-> E(g, k)]
  BY <1>3
<1>5. Pushed(s) = CHOOSE g : g = [k \in 0..Len(s) |-> E(g, k)]
  BY DEF Pushed
<1> QED
  <2> HIDE DEF E
  <2>1. Pushed(s) = [k \in 0..Len(s) |-> E(Pushed(s), k)]
    BY <1>4, <1>5
  <2> QED
    BY <2>1 DEF E

\* Walk obeys its recursion.
LEMMA WalkDef ==
    ASSUME NEW s, Len(s) \in Nat
    PROVE  Walk(s) = [k \in 0..Len(s) |->
                          IF k = 0 THEN <<>>
                          ELSE IF s[k] \in Redundant THEN Walk(s)[k - 1]
                          ELSE IF s[k] = ".." THEN Front(Walk(s)[k - 1])
                          ELSE Append(Walk(s)[k - 1], OnDisk[s[k]])]
<1> DEFINE E(g, k) == IF k = 0 THEN <<>>
                      ELSE IF s[k] \in Redundant THEN g[k - 1]
                      ELSE IF s[k] = ".." THEN Front(g[k - 1])
                      ELSE Append(g[k - 1], OnDisk[s[k]])
           G == {n \in Nat : \E g : g = [k \in 0..n |-> E(g, k)]}
<1>0. \A g, h, k : (k = 0 \/ g[k - 1] = h[k - 1]) => E(g, k) = E(h, k)
  OBVIOUS
<1>a. \A g : E(g, 0) = <<>>
  OBVIOUS
<1>1. 0 \in G
  <2> DEFINE g == [k \in 0..0 |-> <<>>]
  <2>1. g = [k \in 0..0 |-> E(g, k)]
    OBVIOUS
  <2> QED
    BY <2>1
<1>2. ASSUME NEW n \in Nat, n \in G PROVE n + 1 \in G
  <2>1. PICK g : g = [k \in 0..n |-> E(g, k)]
    BY <1>2
  <2> HIDE DEF E
  <2> DEFINE h == [k \in 0..n + 1 |-> IF k \in 0..n THEN g[k] ELSE E(g, k)]
  <2>2. ASSUME NEW k \in 0..n + 1 PROVE h[k] = E(h, k)
    <3>1. k # 0 => k - 1 \in 0..n /\ k - 1 \in 0..n + 1
      OBVIOUS
    <3>2. k = 0 \/ g[k - 1] = h[k - 1]
      BY <3>1
    <3>3. E(g, k) = E(h, k)
      BY <3>2, <1>0
    <3>4. h[k] = E(g, k)
      BY <2>1
    <3> QED
      BY <3>3, <3>4
  <2>3. h = [k \in 0..n + 1 |-> E(h, k)]
    <3>1. h = [k \in 0..n + 1 |-> h[k]]
      OBVIOUS
    <3> HIDE DEF h
    <3> QED
      BY <3>1, <2>2
  <2>4. \E g1 : g1 = [k \in 0..n + 1 |-> E(g1, k)]
    <3> HIDE DEF h
    <3> QED
      BY <2>3
  <2> QED
    BY <2>4
<1>3. Len(s) \in G
  <2> HIDE DEF G
  <2> QED
    BY <1>1, <1>2, SetInduction
<1>4. \E g : g = [k \in 0..Len(s) |-> E(g, k)]
  BY <1>3
<1>5. Walk(s) = CHOOSE g : g = [k \in 0..Len(s) |-> E(g, k)]
  BY DEF Walk
<1> QED
  <2> HIDE DEF E
  <2>1. Walk(s) = [k \in 0..Len(s) |-> E(Walk(s), k)]
    BY <1>4, <1>5
  <2> QED
    BY <2>1 DEF E

\* Both, at one part.
LEMMA OneRound ==
    ASSUME NEW s, Len(s) \in Nat, NEW j \in 1..Len(s), NEW k, k = j - 1
    PROVE  /\ Pushed(s)[j] = IF s[j] \in Redundant THEN Pushed(s)[k] ELSE Append(Pushed(s)[k], s[j])
           /\ Walk(s)[j] = IF s[j] \in Redundant THEN Walk(s)[k]
                            ELSE IF s[j] = ".." THEN Front(Walk(s)[k])
                            ELSE Append(Walk(s)[k], OnDisk[s[j]])
<1>1. j \in 0..Len(s) /\ j # 0
  OBVIOUS
<1>2. Pushed(s)[j] = IF s[j] \in Redundant THEN Pushed(s)[k] ELSE Append(Pushed(s)[k], s[j])
  <2> DEFINE F(i) == IF i = 0 THEN <<>>
                     ELSE IF s[i] \in Redundant THEN Pushed(s)[i - 1]
                     ELSE Append(Pushed(s)[i - 1], s[i])
  <2>1. Pushed(s) = [i \in 0..Len(s) |-> F(i)]
    BY PushedDef
  <2>2. F(j) = IF s[j] \in Redundant THEN Pushed(s)[k] ELSE Append(Pushed(s)[k], s[j])
    BY <1>1
  <2> HIDE DEF F
  <2>3. Pushed(s)[j] = F(j)
    BY <1>1, <2>1
  <2> QED
    BY <2>2, <2>3
<1>3. Walk(s)[j] = IF s[j] \in Redundant THEN Walk(s)[k]
                   ELSE IF s[j] = ".." THEN Front(Walk(s)[k])
                   ELSE Append(Walk(s)[k], OnDisk[s[j]])
  <2> DEFINE F(i) == IF i = 0 THEN <<>>
                     ELSE IF s[i] \in Redundant THEN Walk(s)[i - 1]
                     ELSE IF s[i] = ".." THEN Front(Walk(s)[i - 1])
                     ELSE Append(Walk(s)[i - 1], OnDisk[s[i]])
  <2>1. Walk(s) = [i \in 0..Len(s) |-> F(i)]
    BY WalkDef
  <2>2. F(j) = IF s[j] \in Redundant THEN Walk(s)[k]
               ELSE IF s[j] = ".." THEN Front(Walk(s)[k])
               ELSE Append(Walk(s)[k], OnDisk[s[j]])
    BY <1>1
  <2> HIDE DEF F
  <2>3. Walk(s)[j] = F(j)
    BY <1>1, <2>1
  <2> QED
    BY <2>2, <2>3
<1> QED
  BY <1>2, <1>3

\* As long as every part passes, what is pushed is where the walk is.
LEMMA WalkFollowsPushed ==
    ASSUME NEW N, NEW s \in Seq(N),
           \A k \in 1..Len(s) : s[k] # ".." /\ (s[k] \notin Redundant => OnDisk[s[k]] = s[k])
    PROVE  Pushed(s)[Len(s)] = Walk(s)[Len(s)]
<1> DEFINE G == {k \in Nat : k <= Len(s) => Pushed(s)[k] = Walk(s)[k]}
<1>1. Len(s) \in Nat
  OBVIOUS
<1>2. Pushed(s)[0] = <<>> /\ Walk(s)[0] = <<>>
  <2>1. 0 \in 0..Len(s)
    BY <1>1
  <2> QED
    BY <1>1, <2>1, PushedDef, WalkDef
<1>3. 0 \in G
  BY <1>2
<1>4. ASSUME NEW k \in Nat, k \in G PROVE k + 1 \in G
  <2> SUFFICES ASSUME k + 1 <= Len(s) PROVE Pushed(s)[k + 1] = Walk(s)[k + 1]
    BY DEF G
  <2>1. k + 1 \in 1..Len(s) /\ k = (k + 1) - 1
    BY <1>1
  <2>2. Pushed(s)[k] = Walk(s)[k]
    BY <1>1, <1>4
  <2> DEFINE x == s[k + 1]
  <2>3. Pushed(s)[k + 1] = IF x \in Redundant THEN Pushed(s)[k] ELSE Append(Pushed(s)[k], x)
    BY <1>1, <2>1, OneRound
  <2>4. Walk(s)[k + 1] = IF x \in Redundant THEN Walk(s)[k]
                         ELSE IF x = ".." THEN Front(Walk(s)[k])
                         ELSE Append(Walk(s)[k], OnDisk[x])
    BY <1>1, <2>1, OneRound
  <2>5. x # ".." /\ (x \notin Redundant => OnDisk[x] = x)
    BY <2>1
  <2> HIDE DEF x
  <2> QED
    BY <2>2, <2>3, <2>4, <2>5
<1>5. Len(s) \in G
  <2> HIDE DEF G
  <2> QED
    BY <1>1, <1>3, <1>4, SetInduction
<1> QED
  BY <1>1, <1>5

LEMMA SeqFacts ==
    ASSUME NEW N, NEW s \in Seq(N)
    PROVE  Len(s) \in Nat /\ DOMAIN s = 1..Len(s) /\ \A k \in 1..Len(s) : s[k] \in N
  OBVIOUS

\* A path that passes leads, part by part, to where it says.
LEMMA CleanPathLands ==
    ASSUME NEW p, p.parts \in Seq(DOMAIN OnDisk \cup {"", ".", ".."}), Sanitize(p) # Err
    PROVE  Lands(p) = Sanitize(p) /\ Sanitize(p) # <<>>
<1> DEFINE N == DOMAIN OnDisk \cup {"", ".", ".."}
<1>1. PICK s \in Seq(N) : s = p.parts
  OBVIOUS
<1>2. DOMAIN s = 1..Len(s) /\ \A k \in 1..Len(s) : s[k] \in N
  <2> HIDE DEF N
  <2> QED
    BY SeqFacts
<1>3. /\ ~Absolute(p)
      /\ Pushed(s)[Len(s)] # <<>>
      /\ \A k \in 1..Len(s) : s[k] \in Redundant \/ Component(s[k])
      /\ Sanitize(p) = Pushed(s)[Len(s)]
  BY <1>1, <1>2 DEF Sanitize
<1>4. ASSUME NEW k \in 1..Len(s)
      PROVE  s[k] # ".." /\ (s[k] \notin Redundant => OnDisk[s[k]] = s[k])
  BY <1>2, <1>3, OnDiskAssumption DEF Component, Redundant
<1>5. Pushed(s)[Len(s)] = Walk(s)[Len(s)]
  <2> HIDE DEF N
  <2> QED
    BY <1>4, WalkFollowsPushed
<1>6. Lands(p) = Walk(s)[Len(s)]
  BY <1>1, <1>2, <1>3, <1>4 DEF Lands
<1> QED
  BY <1>3, <1>5, <1>6

\* The verdict is "ok" only if every entry's is.
LEMMA NothingRefused ==
    ASSUME NEW o, Len(o.files) \in Nat, DOMAIN o.files = 1..Len(o.files), OfferVerdict(o) = "ok"
    PROVE  \A k \in DOMAIN o.files : EntryVerdict(o, k) = "ok"
<1> DEFINE refused == {k \in DOMAIN o.files : EntryVerdict(o, k) # "ok"}
<1> SUFFICES ASSUME refused # {} PROVE FALSE
  OBVIOUS
<1>1. \E k \in refused : \A j \in refused : k <= j
  <2>1. refused \subseteq Nat
    OBVIOUS
  <2> HIDE DEF refused
  <2> QED
    BY <2>1, LeastNatural
<1>2. Min(refused) \in refused
  <2> HIDE DEF refused
  <2> QED
    BY <1>1 DEF Min
<1> QED
  BY <1>2 DEF OfferVerdict

\* An offer the receiver takes keeps its files apart.
LEMMA AcceptedApart == \A o \in Offers : OfferVerdict(o) = "ok" => Apart(o)
<1> SUFFICES ASSUME NEW o \in Offers, OfferVerdict(o) = "ok" PROVE Apart(o)
  OBVIOUS
<1> DEFINE clean(k) == Sanitize(o.files[k].path)
<1>1. Len(o.files) \in Nat /\ DOMAIN o.files = 1..Len(o.files)
  <2> DEFINE S == {o.files[k] : k \in DOMAIN o.files}
  <2>1. PICK f \in Seq(S) : f = o.files
    BY OffersAssumption
  <2> HIDE DEF S
  <2>2. Len(f) \in Nat /\ DOMAIN f = 1..Len(f)
    BY SeqFacts
  <2> QED
    BY <2>1, <2>2
<1>2. ASSUME NEW k \in DOMAIN o.files
      PROVE  clean(k) # Err /\ \A j \in 1..k - 1 : clean(j) # clean(k)
  <2>1. EntryVerdict(o, k) = "ok"
    BY <1>1, NothingRefused
  <2> QED
    BY <2>1 DEF EntryVerdict
<1>3. ASSUME NEW k \in DOMAIN o.files
      PROVE  Lands(o.files[k].path) = clean(k) /\ clean(k) # <<>>
  BY <1>2, OffersAssumption, CleanPathLands
<1>4. ASSUME NEW j \in DOMAIN o.files, NEW k \in DOMAIN o.files, j # k
      PROVE  clean(j) # clean(k)
  <2> HIDE DEF clean
  <2>1. j \in Nat \ {0} /\ k \in Nat \ {0}
    BY <1>1
  <2>2. j \in 1..k - 1 \/ k \in 1..j - 1
    BY <1>4, <2>1
  <2> QED
    BY <2>2, <1>2
<1> QED
  <2> HIDE DEF clean
  <2>1. \A k \in DOMAIN o.files : Lands(o.files[k].path) \notin {Err, <<>>}
    BY <1>2, <1>3
  <2>2. \A j, k \in DOMAIN o.files :
            j # k => Lands(o.files[j].path) # Lands(o.files[k].path)
    BY <1>3, <1>4
  <2> QED
    BY <2>1, <2>2 DEF Apart

\* A receiver past the offer has found nothing to refuse in it.
PInv == rp \notin {"hello", "offer", "failed"} => OfferVerdict(offer) = "ok"

LEMMA PInvKeeps ==
    ASSUME PInv, offer' = offer,
           rp' \notin {"hello", "offer", "failed"} => rp \notin {"hello", "offer", "failed"}
    PROVE  PInv'
  BY DEF PInv

LEMMA PInvInit == Init => PInv
  BY DEF Init, PInv

LEMMA PInvStep == PInv /\ [Next]_vars => PInv'
<1> SUFFICES ASSUME PInv, [Next]_vars PROVE PInv'
  OBVIOUS
<1> USE DEF sessionVars, senderVars, linkVars, storeVars, receiverVars, historyVars
<1>1. CASE UNCHANGED vars
  BY <1>1, PInvKeeps DEF vars
<1>2. CASE Retry
  BY <1>2 DEF Retry, Begin, PInv
<1>3. CASE Sender
  BY <1>3, PInvKeeps DEF Sender, SendHello, SendOffer, ReadAnswer, ReadComplete, ReadRefusal,
     DialRefused, JoinSenders
<1>4. CASE Receiver
  <2>1. CASE Accept
    BY <2>1 DEF Accept, PInv
  <2>2. CASE ReadHello \/ Refuse \/ PeerLeft
    BY <2>2 DEF ReadHello, Refuse, PeerLeft, PInv
  <2>3. CASE JoinWorkers \/ Confirm
    BY <2>3, PInvKeeps DEF JoinWorkers, Confirm
  <2>4. ASSUME NEW i \in Stream, ReadStreamHello(i) PROVE PInv'
    BY <2>4, PInvKeeps DEF ReadStreamHello
  <2>5. ASSUME NEW f \in File, CheckFile(f) PROVE PInv'
    BY <2>5, PInvKeeps DEF CheckFile
  <2> QED
    BY <1>4, <2>1, <2>2, <2>3, <2>4, <2>5 DEF Receiver
<1>5. ASSUME NEW i \in Stream, Connect(i) \/ SendWorker(i) \/ RecvWorker(i) PROVE PInv'
  BY <1>5, PInvKeeps DEF Connect, SendWorker, Pop, Write, Shutdown, Drained, RecvWorker, Land,
     SetBit, StreamEnds
<1>6. CASE Failure
  BY <1>6, PInvKeeps DEF Failure, SenderKilled, ReceiverKilled, SenderGivesUp, ReceiverGivesUp,
     Silence, StreamBreaks, WorkerFails, Fault, Killed, Ended
<1> QED
  BY <1>1, <1>2, <1>3, <1>4, <1>5, <1>6 DEF Next

\* The receiver never gets past an offer that puts two files on one place or a
\* file outside the output directory, whatever is offered: any number of
\* files, any paths, any names.
THEOREM OffersApart == Spec => []PathsApart
<1>1. IInv /\ PInv => PathsApart
  BY AcceptedApart DEF IInv, TypeOK, PInv, PathsApart
<1> QED
  BY <1>1, Invariance, PInvInit, PInvStep, PTL DEF Spec

-----------------------------------------------------------------------------
(* Nobody waits on everybody: whatever has failed, some task can take a    *)
(* step until both run()s and all workers have stopped, are parked in      *)
(* accept() or read from a silent network.                                 *)

\* Which streams there are where the two run()s are.
Streamed ==
    /\ sp = "streams" => wp[Streams] = "none"
    /\ sp \in {"join", "confirm"} => \A i \in Stream : wp[i] # "none"
    /\ sp = "confirm" => \A i \in Stream : wp[i] = "ended"
    /\ rp \in {"hello", "offer"} => \A i \in Stream : rw[i] = "none"
    /\ rp = "streams" => rw[Streams] \in {"none", "hello"}
    /\ rp \in {"join", "check", "ok"} => \A i \in Stream : rw[i] # "none"

\* Streams come in order, with both ends, and one at a time has its Hello
\* unread.
Paired ==
    \A i \in Stream :
        /\ wp[i] = "none" <=> rw[i] = "none"
        /\ wp[i] # "none" => sp \notin {"hello", "offer", "answer"}
        /\ wp[i] # "none" => \A j \in 1..i - 1 : wp[j] # "none" /\ rw[j] # "hello"
        /\ rw[i] = "hello" => rp = "streams"

\* Only a sender that is through with a stream has closed it; and it has, or
\* its reader is gone, unless the network is.
Closed ==
    \A i \in Stream :
        /\ wp[i] \in {"none", "pop", "write"} => close[i] # "eof"
        /\ wp[i] \in {"drain", "ended", "err"} =>
              silent \/ close[i] # "open" \/ rw[i] \in Stopped

\* What one side waits for has been written, or its writer has ended, if there
\* is a network between the two.
Mailed == ~silent =>
    /\ sp \in {"hello", "offer"} => rp \in {"hello", "offer", "failed"} /\ "Offer" \notin toR
    /\ sp \in {"streams", "join", "confirm"} => rp \notin {"hello", "offer"}
    /\ rp = "hello" /\ sp \notin {"hello"} \cup Ended => "Hello" \in toR
    /\ rp \in {"hello", "offer"} /\ sp \notin {"hello", "offer"} \cup Ended => "Offer" \in toR
    /\ toS # None => toS.type \in {"Accept", "Abort", "Complete"}
    /\ toS # None /\ toS.type = "Accept" =>
          rp \notin {"hello", "offer"} /\ sp \notin {"streams", "join", "confirm"}
    /\ sp = "answer" /\ rp \in {"streams", "join", "check"} => toS # None /\ toS.type = "Accept"

DInv == Streamed /\ Paired /\ Closed /\ Mailed

LEMMA LastStream == Streams \in Stream /\ \A i \in Stream : i = Streams \/ i \in 1..Streams - 1
  BY TransferAssumption DEF Stream

LEMMA DInvInit == Init => DInv
  BY LastStream DEF Init, DInv, Streamed, Paired, Closed, Mailed, Ended

LEMMA DInvRetry == Retry => DInv'
  BY LastStream DEF Retry, Begin, DInv, Streamed, Paired, Closed, Mailed, Ended

\* Streams stay paired when one stream that exists moves on.
LEMMA PairedStep ==
    ASSUME Paired, NEW i \in Stream,
           \A j \in Stream : j # i => wp'[j] = wp[j] /\ rw'[j] = rw[j],
           wp[i] # "none", wp'[i] # "none", rw'[i] # "none",
           rw'[i] = "hello" => rw[i] = "hello",
           sp' = sp \/ sp' = "failed",
           rp' = rp \/ \A j \in Stream : rw'[j] # "hello"
    PROVE  Paired'
<1>1. \A k \in Stream : \A j \in 1..k - 1 : j \in Stream
  BY TransferAssumption DEF Stream
<1>2. \A k \in Stream : (wp'[k] = "none" <=> wp[k] = "none") /\ (rw'[k] = "hello" => rw[k] = "hello")
  OBVIOUS
<1>3. \A k \in Stream : wp'[k] = "none" <=> rw'[k] = "none"
  BY DEF Paired
<1>4. \A k \in Stream : wp'[k] # "none" => sp' \notin {"hello", "offer", "answer"}
  BY <1>2 DEF Paired
<1>5. \A k \in Stream : wp'[k] # "none" => \A j \in 1..k - 1 : wp'[j] # "none" /\ rw'[j] # "hello"
  BY <1>1, <1>2 DEF Paired
<1>6. \A k \in Stream : rw'[k] = "hello" => rp' = "streams"
  BY <1>2 DEF Paired
<1> QED
  BY <1>3, <1>4, <1>5, <1>6 DEF Paired

LEMMA DInvSender ==
    ASSUME IInv, DInv, Sender
    PROVE  DInv'
<1> USE DEF receiverVars, linkVars, sessionVars, storeVars, historyVars
<1>1. UNCHANGED <<wp, rw, close, rp, silent>>
  BY DEF Sender, SendHello, SendOffer, ReadAnswer, ReadComplete, ReadRefusal, DialRefused, JoinSenders
<1>c. Closed'
  BY <1>1 DEF DInv, Closed
<1>2. CASE SendHello \/ SendOffer
  <2>1. \/ sp = "hello" /\ sp' = "offer" /\ (~silent => toR' = toR \cup {"Hello"})
        \/ sp = "offer" /\ sp' = "answer" /\ (~silent => toR' = toR \cup {"Offer"})
        \/ sp' = "failed" /\ toR' = toR
    BY <1>2 DEF SendHello, SendOffer
  <2>2. toS' = toS
    BY <1>2 DEF SendHello, SendOffer
  <2>3. Streamed' /\ Paired'
    BY <1>1, <2>1 DEF DInv, Streamed, Paired
  <2>4. Mailed'
    BY <1>1, <2>1, <2>2 DEF DInv, Mailed, Ended
  <2> QED
    BY <1>c, <2>3, <2>4 DEF DInv
<1>3. CASE ReadAnswer
  <2>1. sp = "answer" /\ sp' = "streams" /\ toS' = None /\ toR' = toR
    BY <1>3 DEF ReadAnswer
  <2>2. ~silent => rp \notin {"hello", "offer"}
    BY <1>3 DEF ReadAnswer, DInv, Mailed
  <2>3. \A i \in Stream : wp[i] = "none"
    BY <2>1 DEF DInv, Paired
  <2>4. Streamed' /\ Paired'
    BY <1>1, <2>1, <2>3, LastStream DEF DInv, Streamed, Paired
  <2>5. Mailed'
    BY <1>1, <2>1, <2>2 DEF DInv, Mailed, Ended
  <2> QED
    BY <1>c, <2>4, <2>5 DEF DInv
<1>4. CASE ReadComplete \/ ReadRefusal \/ DialRefused
  <2>1. sp' \in Ended /\ (toS' = toS \/ toS' = None) /\ toR' = toR
    BY <1>4 DEF ReadComplete, ReadRefusal, DialRefused, Ended
  <2>2. Streamed' /\ Paired'
    BY <1>1, <2>1 DEF DInv, Streamed, Paired, Ended
  <2>3. Mailed'
    BY <1>1, <2>1 DEF DInv, Mailed, Ended
  <2> QED
    BY <1>c, <2>2, <2>3 DEF DInv
<1>5. CASE JoinSenders
  <2>1. /\ sp = "join" /\ UNCHANGED <<toS, toR>>
        /\ sp' = "failed" \/ (sp' = "confirm" /\ \A i \in Stream : wp[i] = "ended")
    BY <1>5 DEF JoinSenders
  <2>2. Streamed' /\ Paired'
    BY <1>1, <2>1 DEF DInv, Streamed, Paired
  <2>3. Mailed'
    BY <1>1, <2>1 DEF DInv, Mailed, Ended
  <2> QED
    BY <1>c, <2>2, <2>3 DEF DInv
<1> QED
  BY <1>2, <1>3, <1>4, <1>5 DEF Sender

LEMMA DInvReceiver ==
    ASSUME IInv, DInv, Receiver
    PROVE  DInv'
<1> USE DEF senderVars, linkVars, sessionVars, storeVars, historyVars
<1>1. UNCHANGED <<sp, wp, close, silent>>
  BY DEF Receiver, ReadHello, Accept, Refuse, PeerLeft, JoinWorkers, Confirm, ReadStreamHello, CheckFile
<1>c. ASSUME rw' = rw \/ \A i \in Stream : rw[i] \in Stopped => rw'[i] = rw[i] PROVE Closed'
  BY <1>1, <1>c DEF DInv, Closed
<1>2. CASE ReadHello
  <2>1. /\ rp = "hello" /\ toR' = toR \ {"Hello"} /\ rw' = rw
        /\ \/ rp' = "offer" /\ toS' = toS
           \/ rp' = "failed" /\ (toS' = None \/ toS' = AbortMsg)
    BY <1>2 DEF ReadHello
  <2>2. Streamed' /\ Paired'
    BY <1>1, <2>1 DEF DInv, Streamed, Paired
  <2>3. Mailed'
    BY <1>1, <2>1 DEF DInv, Mailed, Ended, AbortMsg
  <2> QED
    BY <1>c, <2>1, <2>2, <2>3 DEF DInv
<1>3. CASE Accept
  <2>1. /\ rp = "offer" /\ "Offer" \in toR /\ rw' = rw
        /\ \/ rp' = "streams" /\ toS' = AcceptMsg(StartBits)
           \/ rp' = "failed" /\ toS' = toS
    BY <1>3 DEF Accept
  <2>2. ~silent => sp \notin {"hello", "offer", "streams", "join", "confirm"}
    BY <2>1 DEF DInv, Mailed
  <2>3. \A i \in Stream : rw[i] = "none"
    BY <2>1 DEF DInv, Streamed
  <2>4. AcceptMsg(StartBits) # None /\ AcceptMsg(StartBits).type = "Accept"
    BY StartBitsOnDisk, NoneNoMsg DEF AcceptMsg, IInv, TypeOK
  <2>5. Streamed'
    BY <1>1, <2>1, <2>3, LastStream DEF DInv, Streamed
  <2>6. Paired'
    BY <1>1, <2>1 DEF DInv, Paired
  <2>7. Mailed'
    BY <1>1, <2>1, <2>2, <2>4 DEF DInv, Mailed, Ended
  <2> QED
    BY <1>c, <2>1, <2>5, <2>6, <2>7 DEF DInv
<1>4. CASE Refuse \/ PeerLeft
  <2>1. /\ rp' = "failed" /\ rw' = rw /\ (toS' = toS \/ toS' = None \/ toS' = AbortMsg)
        /\ \A i \in Stream : rw[i] # "hello"
        /\ toR' \subseteq toR
    BY <1>4 DEF Refuse, PeerLeft, DInv, Paired
  <2>2. Streamed' /\ Paired'
    BY <1>1, <2>1 DEF DInv, Streamed, Paired
  <2>3. Mailed'
    BY <1>1, <2>1 DEF DInv, Mailed, Ended, AbortMsg
  <2> QED
    BY <1>c, <2>1, <2>2, <2>3 DEF DInv
<1>5. CASE JoinWorkers \/ Confirm
  <2>1. /\ rp \in {"join", "check"} /\ rp' \in {"check", "ok", "failed"} /\ rw' = rw /\ toR' = toR
        /\ silent \/ toS' = toS \/ (rp' = "ok" /\ toS' = CompleteMsg(counter))
    BY <1>5 DEF JoinWorkers, Confirm, Arriving
  <2>2. Streamed' /\ Paired'
    BY <1>1, <2>1 DEF DInv, Streamed, Paired
  <2>3. Mailed'
    BY <1>1, <2>1 DEF DInv, Mailed, Ended, CompleteMsg
  <2> QED
    BY <1>c, <2>1, <2>2, <2>3 DEF DInv
<1>6. ASSUME NEW i \in Stream, ReadStreamHello(i) PROVE DInv'
  <2>1. /\ rp = "streams" /\ rw[i] = "hello" /\ UNCHANGED <<toS, toR>>
        /\ \/ rw' = [rw EXCEPT ![i] = "reading"] /\ rp' = IF i = Streams THEN "join" ELSE rp
           \/ rw' = [rw EXCEPT ![i] = "err"] /\ rp' = "failed"
    BY <1>6 DEF ReadStreamHello
  <2>2. rw \in [Stream -> {"hello", "reading", "wrote"} \cup Stopped]
    BY DEF IInv, TypeOK
  <2>3. \A j \in Stream : rw[j] = "hello" => j = i
    <3>1. ASSUME NEW j \in Stream, rw[j] = "hello", j # i PROVE FALSE
      <4>1. wp[i] # "none" /\ wp[j] # "none"
        BY <2>1, <3>1 DEF DInv, Paired
      <4>2. i \in 1..j - 1 \/ j \in 1..i - 1
        BY <3>1, TransferAssumption DEF Stream
      <4> QED
        BY <2>1, <3>1, <4>1, <4>2 DEF DInv, Paired
    <3> QED
      BY <3>1
  <2>4. i = Streams => \A j \in Stream : rw[j] # "none"
    BY <2>1, LastStream DEF DInv, Paired
  <2>5. Streamed'
    BY <1>1, <2>1, <2>2, <2>4, LastStream DEF DInv, Streamed
  <2>6. Paired'
    <3>1. CASE rw' = [rw EXCEPT ![i] = "reading"]
      <4>1. rw'[i] = "reading" /\ \A j \in Stream : j # i => rw'[j] = rw[j] /\ rw[j] # "hello"
        BY <2>2, <2>3, <3>1
      <4>2. wp[i] # "none"
        BY <2>1 DEF DInv, Paired
      <4>3. rp' = rp \/ \A j \in Stream : rw'[j] # "hello"
        BY <4>1
      <4> QED
        BY <1>1, <4>1, <4>2, <4>3, PairedStep DEF DInv
    <3>2. CASE rw' = [rw EXCEPT ![i] = "err"]
      <4>1. rw'[i] = "err" /\ \A j \in Stream : j # i => rw'[j] = rw[j] /\ rw[j] # "hello"
        BY <2>2, <2>3, <3>2
      <4>2. wp[i] # "none"
        BY <2>1 DEF DInv, Paired
      <4>3. rp' = rp \/ \A j \in Stream : rw'[j] # "hello"
        BY <4>1
      <4> QED
        BY <1>1, <4>1, <4>2, <4>3, PairedStep DEF DInv
    <3> QED
      BY <2>1, <3>1, <3>2
  <2>7. Mailed'
    BY <1>1, <2>1 DEF DInv, Mailed, Ended
  <2>8. Closed'
    BY <1>c, <2>1, <2>2 DEF Stopped
  <2> QED
    BY <2>5, <2>6, <2>7, <2>8 DEF DInv
<1>7. ASSUME NEW f \in File, CheckFile(f) PROVE DInv'
  <2>1. /\ rp = "check" /\ UNCHANGED <<rw, toR>>
        /\ \/ rp' = rp /\ toS' = toS
           \/ rp' = "failed" /\ (silent \/ toS' = AbortMsg)
    BY <1>7 DEF CheckFile, Arriving
  <2>2. Streamed' /\ Paired'
    BY <1>1, <2>1 DEF DInv, Streamed, Paired
  <2>3. Mailed'
    BY <1>1, <2>1 DEF DInv, Mailed, Ended, AbortMsg
  <2> QED
    BY <1>c, <2>1, <2>2, <2>3 DEF DInv
<1> QED
  BY <1>2, <1>3, <1>4, <1>5, <1>6, <1>7 DEF Receiver

\* Where a worker of a stream that exists is does not matter to the run()s,
\* except that the sender confirms only when all have ended.
LEMMA StreamedStep ==
    ASSUME Streamed, NEW i \in Stream,
           \A j \in Stream : j # i => wp'[j] = wp[j] /\ rw'[j] = rw[j],
           wp[i] # "none", rw[i] # "none", wp'[i] # "none", rw'[i] # "none",
           wp'[i] = wp[i] \/ wp[i] # "ended",
           rw'[i] = rw[i] \/ rw[i] # "hello",
           UNCHANGED <<sp, rp>>
    PROVE  Streamed'
<1>1. sp = "streams" => wp'[Streams] = "none"
  BY LastStream DEF Streamed
<1>2. sp \in {"join", "confirm"} => \A k \in Stream : wp'[k] # "none"
  BY DEF Streamed
<1>3. sp = "confirm" => \A k \in Stream : wp'[k] = "ended"
  BY DEF Streamed
<1>4. rp \in {"hello", "offer"} => \A k \in Stream : rw'[k] = "none"
  BY DEF Streamed
<1>5. rp = "streams" => rw'[Streams] \in {"none", "hello"}
  BY LastStream DEF Streamed
<1>6. rp \in {"join", "check", "ok"} => \A k \in Stream : rw'[k] # "none"
  BY DEF Streamed
<1> QED
  BY <1>1, <1>2, <1>3, <1>4, <1>5, <1>6 DEF Streamed

LEMMA DInvConnect ==
    ASSUME NEW i \in Stream, IInv, DInv, Connect(i)
    PROVE  DInv'
<1>1. /\ sp = "streams" /\ rp = "streams" /\ wp[i] = "none" /\ rw[i] = "none"
      /\ \A j \in 1..i - 1 : wp[j] # "none" /\ rw[j] # "hello"
      /\ UNCHANGED <<rp, close, toR, toS, silent>>
      /\ sp' = IF i = Streams THEN "join" ELSE "streams"
  BY DEF Connect, DInv, Paired, linkVars, sessionVars
<1>2. wp'[i] = "pop" /\ rw'[i] = "hello" /\ \A j \in Stream : j # i => wp'[j] = wp[j] /\ rw'[j] = rw[j]
  BY DEF Connect, IInv, TypeOK
<1>3. \A k \in Stream : \A j \in 1..k - 1 : j \in Stream /\ j # k
  BY TransferAssumption DEF Stream
<1>4. \A k \in Stream : k # i => k \in 1..i - 1 \/ i \in 1..k - 1
  BY TransferAssumption DEF Stream
<1>5. \A k \in Stream : k # i /\ wp[k] # "none" => k \in 1..i - 1 /\ i \notin 1..k - 1
  BY <1>1, <1>4 DEF DInv, Paired
<1>6. Streamed'
  <2>1. i = Streams => \A k \in Stream : wp'[k] # "none" /\ rw'[k] # "none"
    BY <1>1, <1>2, <1>3, LastStream DEF DInv, Paired
  <2>2. i # Streams => wp'[Streams] = "none"
    BY <1>1, <1>2, LastStream DEF DInv, Streamed
  <2>3. rw'[Streams] \in {"none", "hello"}
    BY <1>1, <1>2, LastStream DEF DInv, Streamed
  <2> QED
    BY <1>1, <2>1, <2>2, <2>3 DEF Streamed
<1>7. Paired'
  <2>1. ASSUME NEW k \in Stream, wp'[k] # "none", NEW j \in 1..k - 1
        PROVE  wp'[j] # "none" /\ rw'[j] # "hello"
    <3>1. CASE k = i
      BY <1>1, <1>2, <1>3, <2>1, <3>1
    <3>2. CASE k # i
      BY <1>2, <1>3, <1>5, <2>1, <3>2 DEF DInv, Paired
    <3> QED
      BY <3>1, <3>2
  <2>2. \A k \in Stream : wp'[k] = "none" <=> rw'[k] = "none"
    BY <1>2 DEF DInv, Paired
  <2> QED
    BY <1>1, <2>1, <2>2 DEF Paired
<1>8. Mailed'
  BY <1>1 DEF DInv, Mailed, Ended
<1>9. Closed'
  BY <1>1, <1>2 DEF DInv, Closed
<1> QED
  BY <1>6, <1>7, <1>8, <1>9 DEF DInv

LEMMA DInvSendWorker ==
    ASSUME NEW i \in Stream, IInv, DInv, SendWorker(i)
    PROVE  DInv'
<1>1. UNCHANGED <<sp, rp, rw, toR, toS, silent>>
  BY DEF SendWorker, Pop, Write, Shutdown, Drained, linkVars, receiverVars, sessionVars
<1>2. wp[i] \in {"pop", "write", "drain"} /\ wp'[i] # "none" /\ \A j \in Stream : j # i => wp'[j] = wp[j]
  BY DEF SendWorker, Pop, Write, Shutdown, Drained, IInv, TypeOK
<1>3. \A j \in Stream : j # i => close'[j] = close[j]
  BY DEF SendWorker, Pop, Write, Shutdown, Drained, linkVars, IInv, TypeOK
<1>4. /\ wp'[i] \in {"pop", "write"} => wp[i] \in {"pop", "write"} /\ close'[i] = close[i]
      /\ wp'[i] \in {"drain", "ended", "err"} => silent \/ close'[i] # "open" \/ rw[i] \in Stopped
  <2>1. CASE Pop(i)
    BY <2>1 DEF Pop, linkVars, IInv, TypeOK
  <2>2. CASE Write(i)
    BY <2>2 DEF Write, Gone, IInv, TypeOK
  <2>3. CASE Shutdown(i)
    BY <2>3 DEF Shutdown, ShutDown, Gone, IInv, TypeOK
  <2>4. CASE Drained(i)
    BY <2>4 DEF Drained, Gone, linkVars, IInv, TypeOK
  <2> QED
    BY <2>1, <2>2, <2>3, <2>4 DEF SendWorker
<1>5. rw[i] # "none"
  BY <1>2 DEF DInv, Paired
<1>6. Streamed'
  BY <1>1, <1>2, <1>5, StreamedStep DEF DInv
<1>7. Paired'
  BY <1>1, <1>2, <1>5, PairedStep DEF DInv
<1>8. Mailed'
  BY <1>1 DEF DInv, Mailed
<1>9. Closed'
  BY <1>1, <1>2, <1>3, <1>4 DEF DInv, Closed
<1> QED
  BY <1>6, <1>7, <1>8, <1>9 DEF DInv

LEMMA DInvRecvWorker ==
    ASSUME NEW i \in Stream, IInv, DInv, RecvWorker(i) \/ WorkerFails(i)
    PROVE  DInv'
<1>1. UNCHANGED <<sp, rp, wp, close, toR, toS, silent>>
  BY DEF RecvWorker, Land, SetBit, StreamEnds, WorkerFails, linkVars, senderVars, sessionVars
<1>2. /\ rw[i] \in {"reading", "wrote"} /\ rw'[i] \notin {"none", "hello"}
      /\ \A j \in Stream : j # i => rw'[j] = rw[j]
  BY DEF RecvWorker, Land, SetBit, StreamEnds, WorkerFails, IInv, TypeOK
<1>3. wp[i] # "none"
  BY <1>2 DEF DInv, Paired
<1>4. Closed'
  BY <1>1, <1>2 DEF DInv, Closed, Stopped
<1>5. Streamed'
  BY <1>1, <1>2, <1>3, StreamedStep DEF DInv
<1>6. Paired'
  BY <1>1, <1>2, <1>3, PairedStep DEF DInv
<1>7. Mailed'
  BY <1>1 DEF DInv, Mailed
<1> QED
  BY <1>4, <1>5, <1>6, <1>7 DEF DInv

LEMMA DInvSenderStops ==
    ASSUME IInv, DInv, SenderKilled \/ SenderGivesUp
    PROVE  DInv'
<1>1. sp' \in Ended /\ UNCHANGED <<rp, rw, toR, toS, silent>>
  BY DEF SenderKilled, SenderGivesUp, Killed, Ended, linkVars, receiverVars, sessionVars
<1>2. \A k \in Stream :
        /\ wp'[k] = "none" <=> wp[k] = "none"
        /\ wp'[k] \in {"none", "pop", "write"} => wp'[k] = wp[k] /\ close'[k] = close[k]
        /\ wp'[k] \in {"drain", "ended", "err"} =>
              \/ silent \/ close'[k] # "open"
              \/ wp[k] \in {"drain", "ended", "err"} /\ close'[k] = close[k]
  BY DEF SenderKilled, SenderGivesUp, Stopped, linkVars, IInv, TypeOK
<1>3. \A k \in Stream : \A j \in 1..k - 1 : j \in Stream
  BY TransferAssumption DEF Stream
<1>4. Streamed'
  BY <1>1, <1>2 DEF DInv, Streamed, Ended
<1>5. Paired'
  <2>1. \A k \in Stream : wp'[k] # "none" => \A j \in 1..k - 1 : wp'[j] # "none" /\ rw'[j] # "hello"
    BY <1>1, <1>2, <1>3 DEF DInv, Paired
  <2> QED
    BY <1>1, <1>2, <2>1 DEF DInv, Paired, Ended
<1>6. Mailed'
  BY <1>1 DEF DInv, Mailed, Ended
<1>7. Closed'
  BY <1>1, <1>2 DEF DInv, Closed
<1> QED
  BY <1>4, <1>5, <1>6, <1>7 DEF DInv

LEMMA DInvReceiverStops ==
    ASSUME IInv, DInv, ReceiverKilled \/ ReceiverGivesUp
    PROVE  DInv'
<1>1. (rp' = "failed" \/ (rp' = rp /\ rp \in Ended)) /\ UNCHANGED <<sp, wp, close, toR, toS, silent>>
  BY DEF ReceiverKilled, ReceiverGivesUp, Killed, linkVars, senderVars, sessionVars
<1>2. \A k \in Stream :
        /\ rw'[k] = "none" <=> rw[k] = "none"
        /\ rw'[k] # "hello"
        /\ rw[k] \in Stopped => rw'[k] = rw[k]
  BY DEF ReceiverKilled, ReceiverGivesUp, Stopped, IInv, TypeOK
<1>3. \A k \in Stream : \A j \in 1..k - 1 : j \in Stream
  BY TransferAssumption DEF Stream
<1>4. Streamed'
  BY <1>1, <1>2 DEF DInv, Streamed, Ended
<1>5. Paired'
  <2>1. \A k \in Stream : wp'[k] # "none" => \A j \in 1..k - 1 : wp'[j] # "none" /\ rw'[j] # "hello"
    BY <1>1, <1>2, <1>3 DEF DInv, Paired
  <2> QED
    BY <1>1, <1>2, <2>1 DEF DInv, Paired
<1>6. Mailed'
  BY <1>1 DEF DInv, Mailed, Ended
<1>7. Closed'
  BY <1>1, <1>2 DEF DInv, Closed
<1> QED
  BY <1>4, <1>5, <1>6, <1>7 DEF DInv

LEMMA DInvStreamBreaks ==
    ASSUME NEW i \in Stream, IInv, DInv, StreamBreaks(i)
    PROVE  DInv'
<1>1. wp[i] # "none" /\ rw[i] # "none" /\ UNCHANGED <<sp, wp, rp, rw, toR, toS, silent>>
  BY DEF StreamBreaks, Stopped, senderVars, receiverVars
<1>2. close'[i] = "broken" /\ \A j \in Stream : j # i => close'[j] = close[j]
  BY DEF StreamBreaks, IInv, TypeOK
<1>3. Streamed'
  BY <1>1 DEF DInv, Streamed
<1>4. Paired'
  BY <1>1 DEF DInv, Paired
<1>5. Mailed'
  BY <1>1 DEF DInv, Mailed
<1>6. Closed'
  BY <1>1, <1>2 DEF DInv, Closed
<1> QED
  BY <1>3, <1>4, <1>5, <1>6 DEF DInv

\* When the network falls silent nobody moves.
LEMMA DInvSilence ==
    ASSUME IInv, DInv, Silence
    PROVE  DInv'
<1>1. UNCHANGED <<sp, wp, rp, rw>> /\ silent'
  BY DEF Silence, senderVars, receiverVars
<1>2. \A i \in Stream : close'[i] = "eof" => close[i] = "eof"
  BY DEF Silence
<1>3. Streamed' /\ Paired'
  BY <1>1 DEF DInv, Streamed, Paired
<1>4. Closed' /\ Mailed'
  BY <1>1, <1>2 DEF DInv, Closed, Mailed
<1> QED
  BY <1>3, <1>4 DEF DInv

LEMMA DInvStep == IInv /\ DInv /\ [Next]_vars => DInv'
<1> SUFFICES ASSUME IInv, DInv, [Next]_vars PROVE DInv'
  OBVIOUS
<1>1. CASE Failure
  <2>1. ASSUME NEW i \in Stream, StreamBreaks(i) \/ WorkerFails(i) PROVE DInv'
    BY <2>1, DInvStreamBreaks, DInvRecvWorker
  <2> QED
    BY <1>1, <2>1, DInvSenderStops, DInvReceiverStops, DInvSilence DEF Failure
<1>2. ASSUME NEW i \in Stream, Connect(i) \/ SendWorker(i) \/ RecvWorker(i) PROVE DInv'
  BY <1>2, DInvConnect, DInvSendWorker, DInvRecvWorker
<1>3. CASE UNCHANGED vars
  BY <1>3 DEF vars, sessionVars, senderVars, linkVars, receiverVars, DInv, Streamed, Paired,
     Closed, Mailed
<1> QED
  BY <1>1, <1>2, <1>3, DInvSender, DInvReceiver, DInvRetry DEF Next

-----------------------------------------------------------------------------
(* The queue has a first chunk, which is the one a worker pops. *)

LEMMA QueueHasFirst ==
    ASSUME NEW Q \in SUBSET Chunk, Q # {}
    PROVE  \E c \in Q : \A d \in Q : Before(c, d)
<1>1. \A c \in Chunk : c[1] \in Nat /\ c[2] \in Nat
  <2>1. File \subseteq Nat
    BY TransferAssumption DEF File
  <2> QED
    BY <2>1, Z3 DEF Chunk
<1> DEFINE Files == {f \in Nat : \E c \in Q : c[1] = f}
<1>2. PICK f \in Files : \A g \in Files : f <= g
  <2>1. Files # {} /\ Files \subseteq Nat
    BY <1>1
  <2> HIDE DEF Files
  <2> QED
    BY <2>1, LeastNatural
<1> DEFINE Indices == {n \in Nat : \E c \in Q : c[1] = f /\ c[2] = n}
<1>3. PICK n \in Indices : \A m \in Indices : n <= m
  <2>1. Indices # {} /\ Indices \subseteq Nat
    BY <1>1
  <2> HIDE DEF Indices
  <2> QED
    BY <2>1, LeastNatural
<1>4. PICK c \in Q : c[1] = f /\ c[2] = n
  OBVIOUS
<1>5. ASSUME NEW d \in Q PROVE Before(c, d)
  <2>1. d[1] \in Files /\ f <= d[1] /\ d[1] \in Nat /\ d[2] \in Nat /\ f \in Nat /\ n \in Nat
    BY <1>1, <1>2, <1>3
  <2>2. d[1] = f => n <= d[2]
    BY <1>1, <1>3
  <2> HIDE DEF Files, Indices
  <2> QED
    BY <1>4, <2>1, <2>2 DEF Before
<1> QED
  BY <1>5

-----------------------------------------------------------------------------
(* Who cannot take a step is over. *)

\* A stream stands still only when both its workers have stopped: a writer
\* with a full stream and a drainer wait for the reader, a reader waits for
\* the writer, and only one of them at a time.
LEMMA StreamsStill ==
    ASSUME IInv, DInv, ~SomebodyCan, ~silent
    PROVE  Quiet
<1> SUFFICES ASSUME NEW i \in Stream PROVE wp[i] \in Stopped /\ rw[i] \in Stopped
  BY DEF Quiet
<1>1. ~StreamCan(i) /\ ~ReceiverCan
  BY DEF SomebodyCan
<1>2. wp[i] \in {"pop", "write", "drain"} \cup Stopped /\ rw[i] \in {"hello", "reading", "wrote"} \cup Stopped
  BY DEF IInv, TypeOK
<1>3. rw[i] \in {"reading"} \cup Stopped
  BY <1>1, <1>2 DEF StreamCan, ReceiverCan, DInv, Paired
<1>4. wp[i] # "pop"
  <2>1. queue \subseteq Chunk
    BY DEF IInv, TypeOK
  <2> QED
    BY <1>1, <2>1, QueueHasFirst DEF StreamCan
<1>5. wp[i] # "write"
  <2> SUFFICES ASSUME wp[i] = "write" PROVE FALSE
    OBVIOUS
  <2>1. ~Gone(i) /\ ~(Len(wire[i]) < MaxBuffer)
    BY <1>1 DEF StreamCan
  <2>2. wire[i] # <<>>
    BY <2>1, TransferAssumption
  <2> QED
    BY <1>1, <1>3, <2>1, <2>2 DEF StreamCan, Gone
<1>6. wp[i] # "drain"
  BY <1>1, <1>3 DEF StreamCan, Gone, DInv, Closed
<1>7. rw[i] # "reading"
  BY <1>1, <1>2, <1>4, <1>5, <1>6 DEF StreamCan, Stopped, DInv, Paired, Closed
<1> QED
  BY <1>2, <1>3, <1>4, <1>5, <1>6, <1>7

\* The first stream of a kind, in the order run() looks at them.
LEMMA FirstStream ==
    ASSUME NEW S \in SUBSET Stream, S # {}
    PROVE  \E i \in S : \A j \in 1..i - 1 : j \in Stream /\ j \notin S
<1>1. S \subseteq Nat
  BY DEF Stream
<1>2. PICK i \in S : \A j \in S : i <= j
  BY <1>1, LeastNatural
<1>3. \A j \in 1..i - 1 : j \in Stream /\ ~(i <= j)
  BY TransferAssumption DEF Stream
<1> QED
  BY <1>2, <1>3

\* A sender whose workers have stopped is not left in its join.
LEMMA SenderJoins ==
    ASSUME IInv, DInv, ~SenderCan, \A i \in Stream : wp[i] \in Stopped
    PROVE  sp # "join"
<1> SUFFICES ASSUME sp = "join" PROVE FALSE
  OBVIOUS
<1>1. \A i \in Stream : wp[i] \in {"ended", "err"}
  BY DEF Stopped, DInv, Streamed
<1> DEFINE Failed == {i \in Stream : wp[i] = "err"}
<1>2. Failed # {}
  BY <1>1 DEF SenderCan
<1>3. PICK i \in Failed : \A j \in 1..i - 1 : j \in Stream /\ j \notin Failed
  BY <1>2, FirstStream
<1>4. wp[i] = "err" /\ \A j \in 1..i - 1 : wp[j] = "ended"
  BY <1>1, <1>3
<1> QED
  BY <1>3, <1>4 DEF SenderCan

LEMMA SenderStill ==
    ASSUME IInv, DInv, ~SomebodyCan, ~silent
    PROVE  sp \in Ended \/ SenderParked
<1>1. Quiet
  BY StreamsStill
<1>2. ~SenderCan /\ ~ReceiverCan /\ \A i \in Stream : ~StreamCan(i)
  BY DEF SomebodyCan
<1>3. sp \in {"hello", "offer", "answer", "streams", "join", "confirm"} \cup Ended
  BY DEF IInv, TypeOK
<1>4. rp \in {"hello", "offer", "streams", "join", "check"} \cup Ended
  BY DEF IInv, TypeOK
<1>5. host \in {"sender", "receiver"}
  BY TransferAssumption DEF IInv, TypeOK
<1>6. sp \notin {"hello", "offer"}
  BY <1>2 DEF SenderCan
<1>7. sp # "answer"
  <2> SUFFICES ASSUME sp = "answer" PROVE FALSE
    OBVIOUS
  <2>1. rp \notin {"hello", "offer"}
    BY <1>2 DEF ReceiverCan, DInv, Mailed, Ended
  <2>2. rp \notin {"streams", "join", "check"}
    BY <1>2 DEF SenderCan, DInv, Mailed
  <2>3. rp \in Ended
    BY <1>4, <2>1, <2>2
  <2>4. rp # "ok"
    BY LastStream DEF DInv, Streamed, Paired
  <2>5. toS # None /\ toS.type \notin {"Accept", "Abort"}
    BY <1>2, <2>3 DEF SenderCan
  <2> QED
    BY <2>4, <2>5 DEF DInv, Mailed, IInv, Announced
<1>8. sp = "streams" => SenderParked
  <2> SUFFICES ASSUME sp = "streams" PROVE SenderParked
    OBVIOUS
  <2>1. CASE rp \in Ended
    BY <1>2, <1>5, <2>1 DEF SenderCan, SenderParked, Unreachable
  <2>2. rp \notin {"hello", "offer", "join", "check"}
    BY <1>2, LastStream DEF ReceiverCan, DInv, Mailed, Streamed, Paired
  <2>3. rp # "streams"
    <3> SUFFICES ASSUME rp = "streams" PROVE FALSE
      OBVIOUS
    <3> DEFINE Absent == {i \in Stream : wp[i] = "none"}
    <3>1. Streams \in Absent
      BY LastStream DEF DInv, Streamed
    <3>2. PICK i \in Absent : \A j \in 1..i - 1 : j \in Stream /\ j \notin Absent
      BY <3>1, FirstStream
    <3>3. \A j \in Stream : rw[j] # "hello"
      BY <1>1 DEF Quiet, Stopped
    <3>4. StreamCan(i)
      BY <3>2, <3>3 DEF StreamCan
    <3> QED
      BY <1>2, <3>2, <3>4
  <2> QED
    BY <1>4, <2>1, <2>2, <2>3
<1>9. sp # "join"
  BY <1>1, <1>2, SenderJoins DEF Quiet
<1>10. sp # "confirm"
  <2> SUFFICES ASSUME sp = "confirm" PROVE FALSE
    OBVIOUS
  <2>1. toS = None /\ rp \notin Ended
    BY <1>2 DEF SenderCan, DInv, Mailed
  <2>2. \A i \in Stream : rw[i] \in {"ended", "err"}
    BY <1>1 DEF Quiet, Stopped, DInv, Streamed, Paired
  <2>3. rp \notin {"hello", "offer", "streams"}
    BY <2>2, LastStream DEF DInv, Mailed, Streamed
  <2> QED
    BY <1>2, <1>4, <2>1, <2>2, <2>3 DEF ReceiverCan
<1> QED
  BY <1>3, <1>6, <1>7, <1>8, <1>9, <1>10

LEMMA ReceiverStill ==
    ASSUME IInv, DInv, ~SomebodyCan, ~silent
    PROVE  rp \in Ended \/ ReceiverParked
<1>1. Quiet /\ (sp \in Ended \/ SenderParked)
  BY StreamsStill, SenderStill
<1>2. ~ReceiverCan
  BY DEF SomebodyCan
<1>3. rp \in {"hello", "offer", "streams", "join", "check"} \cup Ended
  BY DEF IInv, TypeOK
<1>4. host \in {"sender", "receiver"}
  BY TransferAssumption DEF IInv, TypeOK
<1>5. CASE SenderParked
  BY <1>5 DEF SenderParked
<1>6. CASE sp \in Ended
  <2>1. rp \notin {"hello", "offer", "check"}
    BY <1>2, <1>6 DEF ReceiverCan
  <2>2. rp # "join"
    BY <1>1, <1>2 DEF ReceiverCan, Quiet, Stopped, DInv, Streamed
  <2>3. rp = "streams" => ReceiverParked
    BY <1>1, <1>2, <1>4, <1>6 DEF ReceiverCan, ReceiverParked, Quiet, Stopped, Unreachable
  <2> QED
    BY <1>3, <2>1, <2>2, <2>3
<1> QED
  BY <1>1, <1>5, <1>6

\* On a silent network every task goes on by itself until it waits or has
\* stopped.
LEMMA WorkersDeaf ==
    ASSUME IInv, DInv, ~SomebodyCan, silent
    PROVE  WorkersOver
<1> SUFFICES ASSUME NEW i \in Stream
             PROVE  /\ wp[i] \in Stopped \/ SendWorkerDeaf(i)
                    /\ rw[i] \in Stopped \/ RecvWorkerDeaf(i)
  BY DEF WorkersOver
<1>1. ~StreamCan(i)
  BY DEF SomebodyCan
<1>2. wp[i] \in {"pop", "write", "drain"} \cup Stopped /\ rw[i] \in {"hello", "reading", "wrote"} \cup Stopped
  BY DEF IInv, TypeOK
<1>3. wp[i] # "pop"
  <2>1. queue \subseteq Chunk
    BY DEF IInv, TypeOK
  <2> QED
    BY <1>1, <2>1, QueueHasFirst DEF StreamCan
<1>4. wp[i] # "write"
  BY <1>1 DEF StreamCan, Gone, DInv, Closed
<1>5. rw[i] # "wrote"
  BY <1>1 DEF StreamCan
<1> QED
  BY <1>2, <1>3, <1>4, <1>5 DEF SendWorkerDeaf, RecvWorkerDeaf

LEMMA BothDeaf ==
    ASSUME IInv, DInv, ~SomebodyCan, silent
    PROVE  SenderOver /\ ReceiverOver
<1>1. WorkersOver
  BY WorkersDeaf
<1>2. ~SenderCan /\ ~ReceiverCan
  BY DEF SomebodyCan
<1>3. host \in {"sender", "receiver"}
  BY TransferAssumption DEF IInv, TypeOK
<1>4. sp \in {"hello", "offer", "answer", "streams", "join", "confirm"} \cup Ended
  BY DEF IInv, TypeOK
<1>5. rp \in {"hello", "offer", "streams", "join", "check"} \cup Ended
  BY DEF IInv, TypeOK
<1>6. SenderOver
  <2>1. sp \notin {"hello", "offer"} /\ (sp = "streams" => host = "sender")
    BY <1>2, <1>3 DEF SenderCan, Unreachable
  <2>2. sp = "join" => \E i \in Stream : SendWorkerDeaf(i)
    BY <1>1, <1>2, SenderJoins DEF WorkersOver
  <2> QED
    BY <1>4, <2>1, <2>2 DEF SenderOver, SenderDeaf
<1>7. ReceiverOver
  <2>1. rp # "check"
    BY <1>2 DEF ReceiverCan
  <2>2. rp = "streams" /\ host # "receiver" => \E i \in Stream : RecvWorkerDeaf(i)
    BY <1>2, <1>3 DEF ReceiverCan, Unreachable, RecvWorkerDeaf
  <2>3. rp = "join" => \E i \in Stream : RecvWorkerDeaf(i)
    BY <1>1, <1>2 DEF WorkersOver, ReceiverCan, Stopped, DInv, Streamed
  <2> QED
    BY <1>5, <2>1, <2>2, <2>3 DEF ReceiverOver, ReceiverDeaf
<1> QED
  BY <1>6, <1>7

\* Deadlock freedom: in every reachable state, whatever broke, whoever was
\* killed or cancelled and however full the streams are, a task of one of the
\* two sides has a next step, until both run()s have returned and every worker
\* has stopped, but for hosts that wait in accept() for a peer that has left
\* and for readers of a network that has fallen silent.
THEOREM DeadlockFree == Spec => []NeverStuck
<1>1. IInv /\ DInv => NeverStuck
  <2> SUFFICES ASSUME IInv, DInv, ~SomebodyCan PROVE SenderOver /\ ReceiverOver /\ WorkersOver
    BY DEF NeverStuck
  <2>1. CASE silent
    BY <2>1, WorkersDeaf, BothDeaf
  <2>2. CASE ~silent
    BY <2>2, StreamsStill, SenderStill, ReceiverStill
       DEF Quiet, SenderOver, ReceiverOver, WorkersOver
  <2> QED
    BY <2>1, <2>2
<1> QED
  BY <1>1, IInvInit, IInvStep, DInvInit, DInvStep, PTL DEF Spec
=============================================================================
