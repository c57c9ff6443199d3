------------------------- MODULE TransferOnce_proofs ------------------------
(***************************************************************************)
(* Proofs about Transfer: every chunk of an attempt is in one place, so    *)
(* its bit is set once, its bytes are counted once and a file is reported  *)
(* complete once, for every number of files, chunks, streams, attempts and *)
(* failures.                                                               *)
(*                                                                         *)
(* A stream is a pipe: the chunk its receiver has written at position 0,   *)
(* the ones in flight behind it, the one its sender has popped at the end. *)
(* Chunks enter at the end from the queue, move to the front, and leave    *)
(* there into the bitmap or are lost on the way.  When nothing fails none  *)
(* is lost, and an attempt with an acceptable offer does not fail.         *)
(***************************************************************************)
EXTENDS Transfer_proofs, ChunkLayout_proofs, FiniteSetTheorems

\* Chunk c is at position k of stream i.
Holds(i, k, c) ==
    \/ k = 0 /\ rw[i] = "wrote" /\ rchunk[i] = c
    \/ k \in 1..Len(wire[i]) /\ wire[i][k] = c
    \/ k = Len(wire[i]) + 1 /\ wp[i] = "write" /\ wchunk[i] = c

\* No chunk is in two places.
OnePlace ==
    /\ queue \cap bits = {}
    /\ \A i \in Stream, k \in Nat, c \in Chunk : Holds(i, k, c) => c \notin queue \cup bits
    /\ \A i, j \in Stream, k, m \in Nat, c \in Chunk :
          Holds(i, k, c) /\ Holds(j, m, c) => i = j /\ k = m

\* Nothing is on its way.
NoneSent ==
    /\ queue = {}
    /\ \A i \in Stream, k \in Nat, c \in Chunk : ~Holds(i, k, c)

\* Nothing is sent before the Accept is read, which tells the bits as they
\* are.
Answered ==
    /\ rp \in {"hello", "offer"} => NoneSent /\ bits = started
    /\ toS # None /\ toS.type = "Accept" =>
          /\ rp \notin {"hello", "offer"}
          /\ NoneSent
          /\ toS.have = bits
          /\ bits = started

\* A file past the completeness loop has all its bits.
CheckedBits ==
    /\ \A f \in checked : ChunksOf(f) \subseteq bits
    /\ rp = "ok" => checked = File

\* A file has been reported iff it got its last bit in this attempt.
Notices ==
    /\ started \subseteq bits
    /\ notified = [f \in File |-> IF ChunksOf(f) \subseteq bits /\ ~(ChunksOf(f) \subseteq started)
                                  THEN 1 ELSE 0]

OInv == OnePlace /\ Answered /\ CheckedBits /\ Notices

\* The counts of both sides, while the attempt runs and at its end.
Counts ==
    /\ counter = ResumedBytes(started) + SumBytes(bits \ started)
    /\ sp \in {"streams", "join", "confirm", "ok"} =>
          rp \notin {"hello", "offer"} /\ toSend = SumBytes(Chunk \ started)
    /\ toS # None /\ toS.type = "Complete" => toS.bytes = counter
    /\ sp = "ok" => rp = "ok" /\ sentStat = counter

-----------------------------------------------------------------------------
(* The places of the chunks. *)

\* Steps that keep every chunk in its stream or lose it, set no bit, answer
\* nothing and check only whole files.
LEMMA MovingStep ==
    ASSUME OInv, UNCHANGED <<bits, started, notified>>, queue' \subseteq queue,
           \A i \in Stream, k \in Nat, c \in Chunk :
              Holds(i, k, c)' => \E m \in Nat : Holds(i, m, c),
           \A i \in Stream, k, m \in Nat, c \in Chunk :
              Holds(i, k, c)' /\ Holds(i, m, c)' => k = m,
           toS' = toS \/ toS' = None \/ toS'.type # "Accept",
           rp' \in {"hello", "offer"} => rp \in {"hello", "offer"},
           \A f \in checked' : f \in checked \/ ChunksOf(f) \subseteq bits,
           rp' = "ok" => checked' = File
    PROVE  OInv'
<1> USE DEF OInv
<1>1. OnePlace'
  <2>1. (queue \cap bits)' = {}
    BY DEF OnePlace
  <2>2. \A i \in Stream, k \in Nat, c \in Chunk :
            Holds(i, k, c)' => c \notin queue' \cup bits'
    BY DEF OnePlace
  <2>3. \A i, j \in Stream, k, m \in Nat, c \in Chunk :
            Holds(i, k, c)' /\ Holds(j, m, c)' => i = j /\ k = m
    BY DEF OnePlace
  <2> QED
    BY <2>1, <2>2, <2>3 DEF OnePlace
<1>2. NoneSent => NoneSent'
  <2>1. NoneSent => \A i \in Stream, k \in Nat, c \in Chunk : ~Holds(i, k, c)'
    BY DEF NoneSent
  <2> QED
    BY <2>1 DEF NoneSent
<1>3. Answered'
  BY <1>2 DEF Answered
<1>4. CheckedBits' /\ Notices'
  BY DEF CheckedBits, Notices, ChunksOf
<1> QED
  BY <1>1, <1>3, <1>4

\* Steps that move no chunk.
LEMMA QuietStep ==
    ASSUME OInv, UNCHANGED <<bits, started, notified>>, queue' \subseteq queue,
           \A i \in Stream, k \in Nat, c \in Chunk : Holds(i, k, c)' => Holds(i, k, c),
           toS' = toS \/ toS' = None \/ toS'.type # "Accept",
           rp' \in {"hello", "offer"} => rp \in {"hello", "offer"},
           \A f \in checked' : f \in checked \/ ChunksOf(f) \subseteq bits,
           rp' = "ok" => checked' = File
    PROVE  OInv'
<1>1. \A i \in Stream, k, m \in Nat, c \in Chunk :
          Holds(i, k, c)' /\ Holds(i, m, c)' => k = m
  BY DEF OInv, OnePlace
<1> QED
  BY <1>1, MovingStep

\* An attempt begins with nothing sent and nothing set.
LEMMA OInvInit == Init => OInv
<1> SUFFICES ASSUME Init PROVE OInv
  OBVIOUS
<1>1. \A i \in Stream, k \in Nat, c \in Chunk : ~Holds(i, k, c)
  BY DEF Init, Holds
<1>2. NoneSent /\ OnePlace
  BY <1>1 DEF Init, NoneSent, OnePlace
<1>3. Answered /\ CheckedBits /\ Notices
  BY <1>2 DEF Init, Answered, CheckedBits, Notices
<1> QED
  BY <1>2, <1>3 DEF OInv

LEMMA OInvRetry == Retry => OInv'
<1> SUFFICES ASSUME Retry PROVE OInv'
  OBVIOUS
<1>1. \A i \in Stream, k \in Nat, c \in Chunk : ~Holds(i, k, c)'
  BY DEF Retry, Begin, Holds
<1>2. queue' = {} /\ bits' = {} /\ started' = {} /\ toS' = None /\ rp' = "hello"
      /\ checked' = {} /\ notified' = [f \in File |-> 0]
  BY DEF Retry, Begin
<1>3. NoneSent' /\ OnePlace'
  BY <1>1, <1>2 DEF NoneSent, OnePlace
<1>4. Answered' /\ CheckedBits' /\ Notices'
  BY <1>2, <1>3 DEF Answered, CheckedBits, Notices
<1> QED
  BY <1>3, <1>4 DEF OInv

\* The streams are untouched.
LEMMA SameHolds ==
    ASSUME UNCHANGED <<wp, wchunk, wire, rchunk>>,
           \A i \in Stream : rw'[i] = "wrote" => rw[i] = "wrote"
    PROVE  \A i \in Stream, k \in Nat, c \in Chunk : Holds(i, k, c)' => Holds(i, k, c)
  BY DEF Holds

LEMMA OInvSender == IInv /\ OInv /\ Sender => OInv'
<1> SUFFICES ASSUME IInv, OInv, Sender PROVE OInv'
  OBVIOUS
<1> USE DEF linkVars, receiverVars, historyVars
<1>1. \A i \in Stream, k \in Nat, c \in Chunk : Holds(i, k, c)' => Holds(i, k, c)
  <2>1. UNCHANGED <<wp, wchunk, wire, rchunk, rw>>
    BY DEF Sender, SendHello, SendOffer, ReadAnswer, ReadComplete, ReadRefusal, DialRefused,
           JoinSenders
  <2> QED
    BY <2>1, SameHolds
<1>2. UNCHANGED <<bits, started, notified, rp, checked>>
  BY DEF Sender, SendHello, SendOffer, ReadAnswer, ReadComplete, ReadRefusal, DialRefused,
         JoinSenders
<1>3. rp = "ok" => checked = File
  BY DEF OInv, CheckedBits
<1>4. CASE ReadAnswer
  <2>1. NoneSent /\ toS.have = bits /\ rp \notin {"hello", "offer"} /\ bits = started
    BY <1>4 DEF ReadAnswer, OInv, Answered
  <2>2. queue' = Chunk \ bits /\ toS' = None
        /\ rp \notin {"hello", "offer"}
    BY <1>4, <2>1 DEF ReadAnswer, Missing
  <2>3. \A i \in Stream, k \in Nat, c \in Chunk : ~Holds(i, k, c)'
    BY <1>1, <2>1 DEF NoneSent
  <2>4. OnePlace'
    BY <1>2, <2>2, <2>3 DEF OnePlace
  <2>5. Answered'
    BY <1>2, <2>1, <2>2 DEF Answered
  <2>6. CheckedBits' /\ Notices'
    BY <1>2 DEF OInv, CheckedBits, Notices, ChunksOf
  <2> QED
    BY <2>4, <2>5, <2>6 DEF OInv
<1>5. CASE ~ ReadAnswer
  <2>1. queue' = queue /\ (toS' = toS \/ toS' = None)
    BY <1>5 DEF Sender, SendHello, SendOffer, ReadComplete, ReadRefusal, DialRefused,
                JoinSenders
  <2> QED
    BY <1>1, <1>2, <1>3, <2>1, QuietStep
<1> QED
  BY <1>4, <1>5

LEMMA OInvStreams ==
    ASSUME NEW i \in Stream, IInv, OInv, Connect(i) \/ SendWorker(i)
    PROVE  OInv'
<1> USE DEF linkVars, receiverVars, historyVars
<1>1. UNCHANGED <<bits, started, notified, rp, checked, toS, rchunk>>
  BY DEF Connect, SendWorker, Pop, Write, Shutdown, Drained
<1>2. rp = "ok" => checked = File
  BY DEF OInv, CheckedBits
<1>3. /\ wp \in [Stream -> {"pop", "write", "drain"} \cup Stopped]
      /\ wchunk \in [Stream -> Chunk \cup {None}]
      /\ wire \in [Stream -> Seq(Chunk)]
      /\ rw \in [Stream -> {"hello", "reading", "wrote"} \cup Stopped]
  BY DEF IInv, TypeOK
<1>4. \A j \in Stream : wire[j] \in Seq(Chunk) /\ Len(wire[j]) \in Nat
  BY <1>3
<1>5. CASE Pop(i)
  <2>1. PICK d \in queue : wchunk' = [wchunk EXCEPT ![i] = d] /\ queue' = queue \ {d}
    BY <1>5 DEF Pop
  <2>2. wp[i] = "pop" /\ wp' = [wp EXCEPT ![i] = "write"] /\ UNCHANGED <<wire, rw>>
    BY <1>5 DEF Pop
  <2>3. ASSUME NEW j \in Stream, NEW k \in Nat, NEW c \in Chunk, Holds(j, k, c)'
        PROVE  Holds(j, k, c) \/ (j = i /\ k = Len(wire[i]) + 1 /\ c = d)
    BY <1>1, <1>3, <2>1, <2>2, <2>3 DEF Holds
  <2>4. d \in Chunk
    BY DEF IInv, TypeOK
  <2>5. \A j \in Stream, k \in Nat : ~Holds(j, k, d)
    BY <2>4 DEF OInv, OnePlace
  <2>6. OnePlace'
    <3>1. (queue \cap bits)' = {}
      BY <1>1, <2>1 DEF OInv, OnePlace
    <3>2. ASSUME NEW j \in Stream, NEW k \in Nat, NEW c \in Chunk, Holds(j, k, c)'
          PROVE  c \notin queue' \cup bits'
      BY <1>1, <2>1, <2>3, <3>2 DEF OInv, OnePlace
    <3>3. ASSUME NEW j \in Stream, NEW h \in Stream, NEW k \in Nat, NEW m \in Nat,
                 NEW c \in Chunk, Holds(j, k, c)', Holds(h, m, c)'
          PROVE  j = h /\ k = m
      BY <2>3, <2>5, <3>3 DEF OInv, OnePlace
    <3> QED
      BY <3>1, <3>2, <3>3 DEF OnePlace
  <2>7. Answered'
    <3>1. ~ NoneSent
      BY DEF NoneSent
    <3> QED
      BY <1>1, <3>1 DEF OInv, Answered
  <2>8. CheckedBits' /\ Notices'
    BY <1>1 DEF OInv, CheckedBits, Notices, ChunksOf
  <2> QED
    BY <2>6, <2>7, <2>8 DEF OInv
<1>6. CASE Write(i)
  <2>1. /\ wp[i] = "write" /\ queue' = queue /\ UNCHANGED rw
        /\ wchunk' = [wchunk EXCEPT ![i] = None]
        /\ wp' \in {[wp EXCEPT ![i] = "pop"], [wp EXCEPT ![i] = "err"]}
        /\ wire' \in {wire, [wire EXCEPT ![i] = Append(@, wchunk[i])]}
    BY <1>6 DEF Write
  <2>2. wchunk[i] \in Chunk
    BY <2>1 DEF IInv, InHand
  <2>3. \A j \in Stream : wp'[j] = "write" => j # i /\ wp[j] = "write" /\ wchunk'[j] = wchunk[j]
    BY <1>3, <2>1
  <2>4. ASSUME NEW j \in Stream, NEW k \in Nat, NEW c \in Chunk, Holds(j, k, c)'
        PROVE  Holds(j, k, c)
    <3>1. CASE wire'[j] = wire[j]
      BY <1>1, <2>1, <2>3, <2>4, <3>1 DEF Holds
    <3>2. CASE wire'[j] # wire[j]
      <4>1. j = i /\ wire'[j] = Append(wire[j], wchunk[j])
        BY <1>3, <2>1, <3>2
      <4>2. Len(wire'[j]) = Len(wire[j]) + 1
        BY <1>4, <2>2, <4>1
      <4>3. \A n \in 1..Len(wire[j]) : wire'[j][n] = wire[j][n]
        BY <1>4, <2>2, <4>1
      <4>4. wire'[j][Len(wire[j]) + 1] = wchunk[j]
        BY <1>4, <2>2, <4>1
      <4>5. CASE k \in 1..Len(wire'[j]) /\ wire'[j][k] = c
        <5>1. k \in 1..Len(wire[j]) \/ k = Len(wire[j]) + 1
          BY <1>4, <4>2, <4>5
        <5> QED
          BY <2>1, <4>1, <4>3, <4>4, <4>5, <5>1 DEF Holds
      <4>6. CASE k = 0 /\ rw'[j] = "wrote" /\ rchunk'[j] = c
        BY <1>1, <2>1, <4>6 DEF Holds
      <4> QED
        BY <2>3, <2>4, <4>1, <4>5, <4>6 DEF Holds
    <3> QED
      BY <3>1, <3>2
  <2> QED
    BY <1>1, <1>2, <2>1, <2>4, QuietStep
<1>7. CASE Connect(i) \/ Shutdown(i) \/ Drained(i)
  <2>1. UNCHANGED <<queue, wchunk, wire>>
    BY <1>7 DEF Connect, Shutdown, Drained
  <2>2. \A j \in Stream : (wp'[j] = "write" => wp[j] = "write")
                         /\ (rw'[j] = "wrote" => rw[j] = "wrote")
    BY <1>3, <1>7 DEF Connect, Shutdown, Drained
  <2>3. \A j \in Stream, k \in Nat, c \in Chunk : Holds(j, k, c)' => Holds(j, k, c)
    BY <1>1, <2>1, <2>2 DEF Holds
  <2> QED
    BY <1>1, <1>2, <2>1, <2>3, QuietStep
<1> QED
  BY <1>5, <1>6, <1>7 DEF SendWorker

LEMMA OInvReceiver == IInv /\ KInv /\ OInv /\ Receiver => OInv'
<1> SUFFICES ASSUME IInv, KInv, OInv, Receiver PROVE OInv'
  OBVIOUS
<1> USE DEF senderVars, linkVars, historyVars
<1>1. UNCHANGED <<wp, wchunk, queue, wire, rchunk, notified>>
  BY DEF Receiver, ReadHello, Accept, Refuse, PeerLeft, JoinWorkers, Confirm,
         ReadStreamHello, CheckFile
<1>2. \A i \in Stream : rw'[i] = "wrote" => rw[i] = "wrote"
  <2>1. CASE \E i \in Stream : ReadStreamHello(i)
    BY <2>1 DEF ReadStreamHello, IInv, TypeOK
  <2>2. CASE ~ \E i \in Stream : ReadStreamHello(i)
    BY <2>2 DEF Receiver, ReadHello, Accept, Refuse, PeerLeft, JoinWorkers, Confirm, CheckFile
  <2> QED
    BY <2>1, <2>2
<1>3. \A i \in Stream, k \in Nat, c \in Chunk : Holds(i, k, c)' => Holds(i, k, c)
  BY <1>1, <1>2, SameHolds
<1>4. CASE Accept
  <2>1. NoneSent /\ bits = started /\ checked = {} /\ rp = "offer"
        /\ ~(toS # None /\ toS.type = "Accept")
    BY <1>4, KInvEarly DEF Accept, OInv, Answered
  <2>2. \A i \in Stream, k \in Nat, c \in Chunk : ~Holds(i, k, c)'
    BY <1>3, <2>1 DEF NoneSent
  <2>3. queue' = {} /\ checked' = {} /\ rp' \in {"streams", "failed"} /\ bits' = started'
    BY <1>1, <1>4, <2>1 DEF Accept, NoneSent
  <2>4. NoneSent' /\ OnePlace'
    BY <2>2, <2>3 DEF NoneSent, OnePlace
  <2>5. Answered'
    BY <1>4, <2>1, <2>3, <2>4 DEF Accept, AcceptMsg, Answered
  <2>6. notified = [f \in File |-> 0]
    BY <2>1 DEF OInv, Notices
  <2>7. CheckedBits' /\ Notices'
    BY <1>1, <2>3, <2>6 DEF CheckedBits, Notices
  <2> QED
    BY <2>4, <2>5, <2>7 DEF OInv
<1>5. CASE ~ Accept
  <2>1. UNCHANGED <<bits, started>>
    BY <1>5 DEF Receiver, ReadHello, Refuse, PeerLeft, JoinWorkers, Confirm, ReadStreamHello,
                CheckFile
  <2>2. toS' = toS \/ toS' = None \/ toS'.type # "Accept"
    <3>1. \/ toS' \in {toS, None, AbortMsg}
          \/ toS' = CompleteMsg(counter)
      BY <1>5 DEF Receiver, ReadHello, Refuse, PeerLeft, JoinWorkers, Confirm,
                  ReadStreamHello, CheckFile, Arriving
    <3>2. AbortMsg.type = "Abort" /\ CompleteMsg(counter).type = "Complete"
      BY DEF AbortMsg, CompleteMsg
    <3> QED
      BY <3>1, <3>2
  <2>3. rp' \in {"hello", "offer"} => rp \in {"hello", "offer"}
    BY <1>5 DEF Receiver, ReadHello, Refuse, PeerLeft, JoinWorkers, Confirm, ReadStreamHello,
                CheckFile
  <2>4. \A f \in checked' : f \in checked \/ ChunksOf(f) \subseteq bits
    BY <1>5 DEF Receiver, ReadHello, Refuse, PeerLeft, JoinWorkers, Confirm, ReadStreamHello,
                CheckFile, Whole
  <2>5. rp' = "ok" => checked' = File
    BY <1>5 DEF Receiver, ReadHello, Refuse, PeerLeft, JoinWorkers, Confirm, ReadStreamHello,
                CheckFile
  <2> QED
    BY <1>1, <1>3, <2>1, <2>2, <2>3, <2>4, <2>5, QuietStep
<1> QED
  BY <1>4, <1>5

LEMMA OInvFailure == IInv /\ OInv /\ Failure => OInv'
<1> SUFFICES ASSUME IInv, OInv, Failure PROVE OInv'
  OBVIOUS
<1> USE DEF Fault, Killed, senderVars, linkVars, receiverVars, historyVars
<1>1. /\ UNCHANGED <<bits, started, notified, queue, checked, wchunk, rchunk>>
      /\ toS' = toS \/ toS' = None
  BY DEF Failure, SenderKilled, ReceiverKilled, SenderGivesUp, ReceiverGivesUp,
         Silence, StreamBreaks, WorkerFails
<1>2. rp' = rp \/ rp' = "failed"
  BY DEF Failure, SenderKilled, ReceiverKilled, SenderGivesUp, ReceiverGivesUp,
         Silence, StreamBreaks, WorkerFails
<1>3. /\ wire \in [Stream -> Seq(Chunk)]
      /\ rw \in [Stream -> {"hello", "reading", "wrote"} \cup Stopped]
      /\ wp \in [Stream -> {"pop", "write", "drain"} \cup Stopped]
  BY DEF IInv, TypeOK
<1>4. CASE Silence \/ \E i \in Stream : StreamBreaks(i)
  <2>1. \A j \in Stream : wire'[j] = <<>> \/ wire'[j] = wire[j]
    <3>1. CASE Silence
      BY <3>1 DEF Silence
    <3>2. ASSUME NEW i \in Stream, StreamBreaks(i)
          PROVE  \A j \in Stream : wire'[j] = <<>> \/ wire'[j] = wire[j]
      <4>1. PICK s \in {<<>>, wire[i]} : wire' = [wire EXCEPT ![i] = s]
        BY <3>2 DEF StreamBreaks
      <4> QED
        BY <1>3, <4>1
    <3> QED
      BY <1>4, <3>1, <3>2
  <2>2. UNCHANGED <<rw, wp>>
    BY <1>4 DEF Silence, StreamBreaks
  <2>3. \A j \in Stream : Len(wire[j]) + 1 \in Nat /\ Len(wire[j]) + 1 # 0
    BY <1>3
  <2>4. ASSUME NEW j \in Stream, NEW k \in Nat, NEW c \in Chunk, Holds(j, k, c)'
        PROVE  \/ Holds(j, k, c)
               \/ wire'[j] = <<>> /\ k = 1 /\ Holds(j, Len(wire[j]) + 1, c)
    <3>1. CASE wire'[j] = wire[j]
      BY <1>1, <2>2, <2>4, <3>1 DEF Holds
    <3>2. CASE wire'[j] = <<>>
      BY <1>1, <2>2, <2>4, <3>2 DEF Holds
    <3> QED
      BY <2>1, <3>1, <3>2
  <2>5. ASSUME NEW j \in Stream, NEW k \in Nat, NEW m \in Nat, NEW c \in Chunk,
               Holds(j, k, c)', Holds(j, m, c)'
        PROVE  k = m
    <3>1. CASE wire'[j] = wire[j]
      <4>1. Holds(j, k, c) /\ Holds(j, m, c)
        BY <1>1, <2>2, <2>5, <3>1 DEF Holds
      <4> QED
        BY <4>1 DEF OInv, OnePlace
    <3>2. CASE wire'[j] = <<>>
      <4>1. k \in {0, 1} /\ m \in {0, 1}
        BY <2>5, <3>2 DEF Holds
      <4>2. ASSUME Holds(j, 0, c)', Holds(j, 1, c)' PROVE FALSE
        <5>1. rw[j] = "wrote" /\ rchunk[j] = c /\ wp[j] = "write" /\ wchunk[j] = c
          BY <1>1, <2>2, <3>2, <4>2 DEF Holds
        <5>2. Holds(j, 0, c) /\ Holds(j, Len(wire[j]) + 1, c)
          BY <5>1 DEF Holds
        <5> QED
          BY <2>3, <5>2 DEF OInv, OnePlace
      <4> QED
        BY <2>5, <4>1, <4>2
    <3> QED
      BY <2>1, <3>1, <3>2
  <2>6. \A j \in Stream, k \in Nat, c \in Chunk :
            Holds(j, k, c)' => \E m \in Nat : Holds(j, m, c)
    BY <2>3, <2>4
  <2> QED
    BY <1>1, <1>2, <2>5, <2>6, MovingStep DEF OInv, CheckedBits
<1>5. CASE ~ (Silence \/ \E i \in Stream : StreamBreaks(i))
  <2>1. wire' = wire
    BY <1>5 DEF Failure, SenderKilled, ReceiverKilled, SenderGivesUp, ReceiverGivesUp,
                WorkerFails
  <2>2. \A j \in Stream : (wp'[j] = "write" => wp[j] = "write")
                         /\ (rw'[j] = "wrote" => rw[j] = "wrote")
    BY <1>3, <1>5 DEF Failure, SenderKilled, ReceiverKilled, SenderGivesUp, ReceiverGivesUp,
                WorkerFails
  <2>3. \A j \in Stream, k \in Nat, c \in Chunk : Holds(j, k, c)' => Holds(j, k, c)
    BY <1>1, <2>1, <2>2 DEF Holds
  <2> QED
    BY <1>1, <1>2, <2>3, QuietStep DEF OInv, CheckedBits
<1> QED
  BY <1>4, <1>5

LEMMA OInvRecvWorker ==
    ASSUME NEW i \in Stream, IInv, OInv, RecvWorker(i)
    PROVE  OInv'
<1> USE DEF senderVars, linkVars, historyVars
<1>1. UNCHANGED <<queue, wp, wchunk, rp, checked, started, toS>>
  BY DEF RecvWorker, Land, SetBit, StreamEnds
<1>2. /\ wire \in [Stream -> Seq(Chunk)]
      /\ rw \in [Stream -> {"hello", "reading", "wrote"} \cup Stopped]
      /\ rchunk \in [Stream -> Chunk \cup {None}]
  BY DEF IInv, TypeOK
<1>3. \A j \in Stream : wire[j] \in Seq(Chunk) /\ Len(wire[j]) \in Nat
  BY <1>2
<1>4. CASE Land(i)
  <2>1. /\ rw[i] = "reading" /\ wire[i] # <<>>
        /\ rchunk' = [rchunk EXCEPT ![i] = Head(wire[i])]
        /\ wire' = [wire EXCEPT ![i] = Tail(@)]
        /\ rw' = [rw EXCEPT ![i] = "wrote"]
        /\ UNCHANGED <<bits, notified>>
    BY <1>4 DEF Land
  <2>2. /\ Len(wire[i]) >= 1
        /\ Head(wire[i]) = wire[i][1]
        /\ Len(Tail(wire[i])) = Len(wire[i]) - 1
        /\ \A k \in 1..Len(wire[i]) - 1 : Tail(wire[i])[k] = wire[i][k + 1]
    BY <1>3, <2>1
  <2>3. wire'[i] = Tail(wire[i]) /\ rchunk'[i] = wire[i][1] /\ rw'[i] = "wrote"
    BY <1>2, <2>1, <2>2
  <2>4. ASSUME NEW k \in Nat, NEW c \in Chunk, Holds(i, k, c)'
        PROVE  Holds(i, k + 1, c)
    <3>1. CASE k = 0 /\ rchunk'[i] = c
      BY <1>3, <2>2, <2>3, <3>1 DEF Holds
    <3>2. CASE k \in 1..Len(wire'[i]) /\ wire'[i][k] = c
      <4>1. k + 1 \in 1..Len(wire[i]) /\ wire[i][k + 1] = c
        BY <1>3, <2>2, <2>3, <3>2
      <4> QED
        BY <4>1 DEF Holds
    <3>3. CASE k = Len(wire'[i]) + 1 /\ wp[i] = "write" /\ wchunk[i] = c
      <4>1. k + 1 = Len(wire[i]) + 1
        BY <1>3, <2>2, <2>3, <3>3
      <4> QED
        BY <3>3, <4>1 DEF Holds
    <3> QED
      BY <1>1, <2>4, <3>1, <3>2, <3>3 DEF Holds
  <2>5. ASSUME NEW j \in Stream, j # i, NEW k \in Nat, NEW c \in Chunk, Holds(j, k, c)'
        PROVE  Holds(j, k, c)
    BY <1>1, <1>2, <2>1, <2>5 DEF Holds
  <2>6. \A j \in Stream, k \in Nat, c \in Chunk :
            Holds(j, k, c)' => \E m \in Nat : Holds(j, m, c)
    BY <2>4, <2>5
  <2>7. ASSUME NEW j \in Stream, NEW k \in Nat, NEW m \in Nat, NEW c \in Chunk,
               Holds(j, k, c)', Holds(j, m, c)'
        PROVE  k = m
    <3>1. CASE j = i
      <4>1. Holds(i, k + 1, c) /\ Holds(i, m + 1, c)
        BY <2>4, <2>7, <3>1
      <4>2. k + 1 = m + 1
        BY <4>1 DEF OInv, OnePlace
      <4> QED
        BY <4>2
    <3>2. CASE j # i
      BY <2>5, <2>7, <3>2 DEF OInv, OnePlace
    <3> QED
      BY <3>1, <3>2
  <2> QED
    BY <1>1, <2>1, <2>6, <2>7, MovingStep DEF OInv, CheckedBits
<1>5. CASE SetBit(i)
  <2> DEFINE d == rchunk[i]
  <2>1. /\ rw[i] = "wrote"
        /\ bits' = bits \cup {d}
        /\ notified' = IF ChunksOf(d[1]) \subseteq bits \cup {d}
                       THEN [notified EXCEPT ![d[1]] = @ + 1] ELSE notified
        /\ rw' = [rw EXCEPT ![i] = "reading"]
        /\ rchunk' = [rchunk EXCEPT ![i] = None]
        /\ wire' = wire
    BY <1>5 DEF SetBit, Completes
  <2>2. d \in Chunk
    BY <2>1 DEF IInv, InHand, TypeOK
  <2>3. Holds(i, 0, d)
    BY <2>1 DEF Holds
  <2>4. d \notin queue \cup bits
    BY <2>2, <2>3 DEF OInv, OnePlace
  <2>5. ~ NoneSent
    BY <2>2, <2>3 DEF NoneSent
  <2>6. ASSUME NEW j \in Stream, NEW k \in Nat, NEW c \in Chunk, Holds(j, k, c)'
        PROVE  Holds(j, k, c) /\ c # d
    <3>1. Holds(j, k, c) /\ ~(j = i /\ k = 0)
      BY <1>1, <1>2, <1>3, <2>1, <2>6 DEF Holds
    <3> QED
      BY <2>2, <2>3, <3>1 DEF OInv, OnePlace
  <2>7. OnePlace'
    <3>1. (queue \cap bits)' = {}
      BY <1>1, <2>1, <2>4 DEF OInv, OnePlace
    <3>2. ASSUME NEW j \in Stream, NEW k \in Nat, NEW c \in Chunk, Holds(j, k, c)'
          PROVE  c \notin queue' \cup bits'
      BY <1>1, <2>1, <2>6, <3>2 DEF OInv, OnePlace
    <3>3. ASSUME NEW j \in Stream, NEW h \in Stream, NEW k \in Nat, NEW m \in Nat,
                 NEW c \in Chunk, Holds(j, k, c)', Holds(h, m, c)'
          PROVE  j = h /\ k = m
      BY <2>6, <3>3 DEF OInv, OnePlace
    <3> QED
      BY <3>1, <3>2, <3>3 DEF OnePlace
  <2>8. Answered'
    BY <1>1, <2>5 DEF OInv, Answered
  <2>9. CheckedBits'
    BY <1>1, <2>1 DEF OInv, CheckedBits
  <2>10. Notices'
    <3>1. d[1] \in File /\ d \in ChunksOf(d[1])
      BY <2>2, ChunkFile DEF ChunksOf
    <3>2. started \subseteq bits /\ d \notin started
      BY <2>4 DEF OInv, Notices
    <3>3. notified[d[1]] = 0
      BY <2>4, <3>1 DEF OInv, Notices
    <3>4. notified \in [File -> Nat]
      BY DEF OInv, Notices
    <3>5. ASSUME NEW f \in File
          PROVE  notified'[f] = IF ChunksOf(f) \subseteq bits' /\ ~(ChunksOf(f) \subseteq started)
                                THEN 1 ELSE 0
      <4>1. CASE f = d[1]
        BY <2>1, <3>1, <3>2, <3>3, <3>4, <4>1
      <4>2. CASE f # d[1]
        <5>1. notified'[f] = notified[f]
          BY <2>1, <3>4, <4>2
        <5>2. ChunksOf(f) \subseteq bits' <=> ChunksOf(f) \subseteq bits
          BY <2>1, <4>2 DEF ChunksOf
        <5> QED
          BY <5>1, <5>2 DEF OInv, Notices
      <4> QED
        BY <4>1, <4>2
    <3>6. notified' \in [File -> Nat]
      BY <2>1, <3>1, <3>3, <3>4
    <3>7. notified' = [f \in File |-> IF ChunksOf(f) \subseteq bits' /\ ~(ChunksOf(f) \subseteq started)
                                      THEN 1 ELSE 0]
      BY <3>5, <3>6
    <3> QED
      BY <1>1, <2>1, <3>2, <3>7 DEF Notices, ChunksOf
  <2> QED
    BY <2>7, <2>8, <2>9, <2>10 DEF OInv
<1>6. CASE StreamEnds(i)
  <2>1. UNCHANGED <<bits, notified, wire, rchunk>>
        /\ \A j \in Stream : rw'[j] = "wrote" => rw[j] = "wrote"
    BY <1>2, <1>6 DEF StreamEnds
  <2>2. \A j \in Stream, k \in Nat, c \in Chunk : Holds(j, k, c)' => Holds(j, k, c)
    BY <1>1, <2>1, SameHolds
  <2> QED
    BY <1>1, <2>1, <2>2, QuietStep DEF OInv, CheckedBits
<1> QED
  BY <1>4, <1>5, <1>6 DEF RecvWorker

LEMMA OInvStep == IInv /\ KInv /\ OInv /\ [Next]_vars => OInv'
<1> SUFFICES ASSUME IInv, KInv, OInv, [Next]_vars PROVE OInv'
  OBVIOUS
<1>1. CASE UNCHANGED vars
  <2>1. UNCHANGED <<bits, started, notified, queue, toS, rp, checked, wp, wchunk, wire, rchunk, rw>>
    BY <1>1 DEF vars, senderVars, linkVars, receiverVars, historyVars
  <2>2. \A j \in Stream, k \in Nat, c \in Chunk : Holds(j, k, c)' => Holds(j, k, c)
    BY <2>1, SameHolds
  <2> QED
    BY <2>1, <2>2, QuietStep DEF OInv, CheckedBits
<1> QED
  BY <1>1, OInvRetry, OInvSender, OInvStreams, OInvReceiver, OInvRecvWorker, OInvFailure
     DEF Next

LEMMA OInvariance == Spec => [](IInv /\ KInv /\ OInv)
<1>1. Init => IInv /\ KInv /\ OInv
  BY IInvInit, KInvInit, OInvInit
<1>2. IInv /\ KInv /\ OInv /\ [Next]_vars => IInv' /\ KInv' /\ OInv'
  BY IInvStep, KInvStep, OInvStep
<1> QED
  BY <1>1, <1>2, PTL DEF Spec

\* Every chunk that arrives sets its bit once, so exactly one worker sees the
\* last bit of a file set: on_file_completed is called once for every file
\* the attempt completes and for no other.
THEOREM FilesCompleteOnce == Spec => []CompletedOnce
<1>1. OInv => CompletedOnce
  BY DEF OInv, Notices, CheckedBits, CompletedOnce
<1> QED
  BY <1>1, OInvariance, PTL

-----------------------------------------------------------------------------
(* Sums of bytes. *)

ByteSet(S) == {b \in S \X (1..ChunkSize) : b[2] <= Bytes(b[1])}

LEMMA ChunkBytesInRange ==
    /\ ChunkSize \in Nat \ {0}
    /\ \A c \in Chunk : Bytes(c) \in 1..ChunkSize
<1>1. ChunkSize \in Nat \ {0}
  BY TransferAssumption, SizesAssumption DEF ValidChunkSize
<1>2. ASSUME NEW c \in Chunk PROVE Bytes(c) \in 1..ChunkSize
  <2>1. c[1] \in File /\ c[2] \in 0..Layout(c[1]).count - 1
    BY DEF Chunk
  <2>2. FileSize[c[1]] \in Nat
    BY <2>1, TransferAssumption DEF File
  <2> QED
    BY <2>1, <2>2, TransferAssumption, ChunkLength DEF Bytes, Layout
<1> QED
  BY <1>1, <1>2

LEMMA ChunkFinite == IsFiniteSet(Chunk)
<1> DEFINE part == [f \in File |-> {f} \X (0..Layout(f).count - 1)]
<1> DEFINE parts == {{f} \X (0..Layout(f).count - 1) : f \in File}
<1>1. IsFiniteSet(File)
  <2>1. Len(FileSize) \in Nat /\ File = 1..Len(FileSize)
    BY TransferAssumption DEF File
  <2> QED
    BY <2>1, FS_Interval
<1>2. part \in [File -> parts] /\ \A t \in parts : \E f \in File : part[f] = t
  OBVIOUS
<1>3. IsFiniteSet(parts)
  <2> HIDE DEF part, parts
  <2> QED
    BY <1>1, <1>2, ImageFinite
<1>4. ASSUME NEW f \in File PROVE IsFiniteSet({f} \X (0..Layout(f).count - 1))
  <2>1. FileSize[f] \in Nat
    BY TransferAssumption DEF File
  <2>2. Layout(f).count \in Nat
    BY <2>1, TransferAssumption, Geometry DEF Layout
  <2>3. IsFiniteSet(0..Layout(f).count - 1)
    BY <2>2, FS_Interval
  <2> QED
    BY <2>3, FS_Singleton, FS_Product
<1> QED
  BY <1>3, <1>4, FS_UNION DEF Chunk

LEMMA SumFinite ==
    ASSUME NEW S \in SUBSET Chunk
    PROVE  /\ IsFiniteSet(ByteSet(S))
           /\ SumBytes(S) = Cardinality(ByteSet(S))
           /\ SumBytes(S) \in Nat
           /\ IsFiniteSet(S) /\ Cardinality(S) \in Nat
           /\ Cardinality(S) * ChunkSize \in Nat
           /\ SumBytes(S) <= Cardinality(S) * ChunkSize
<1>1. IsFiniteSet(S) /\ Cardinality(S) \in Nat
  BY ChunkFinite, FS_Subset, FS_CardinalityType
<1>2. IsFiniteSet(1..ChunkSize) /\ Cardinality(1..ChunkSize) = ChunkSize
  BY ChunkBytesInRange, FS_Interval
<1>3. IsFiniteSet(S \X (1..ChunkSize))
      /\ Cardinality(S \X (1..ChunkSize)) = Cardinality(S) * ChunkSize
  BY <1>1, <1>2, FS_Product
<1>4. ByteSet(S) \subseteq S \X (1..ChunkSize)
  BY DEF ByteSet
<1>5. IsFiniteSet(ByteSet(S)) /\ Cardinality(ByteSet(S)) <= Cardinality(S) * ChunkSize
      /\ Cardinality(ByteSet(S)) \in Nat
  BY <1>3, <1>4, FS_Subset, FS_CardinalityType
<1>6. SumBytes(S) = Cardinality(ByteSet(S))
  BY DEF SumBytes, ByteSet
<1>7. Cardinality(S) * ChunkSize \in Nat
  BY <1>1, ChunkBytesInRange
<1> QED
  BY <1>1, <1>5, <1>6, <1>7

\* The bytes of two sets of different chunks add up.
LEMMA SumAdds ==
    ASSUME NEW S \in SUBSET Chunk, NEW T \in SUBSET Chunk, S \cap T = {}
    PROVE  SumBytes(S \cup T) = SumBytes(S) + SumBytes(T)
<1>1. ByteSet(S \cup T) = ByteSet(S) \cup ByteSet(T) /\ ByteSet(S) \cap ByteSet(T) = {}
  BY DEF ByteSet
<1>2. /\ IsFiniteSet(ByteSet(S)) /\ SumBytes(S) = Cardinality(ByteSet(S)) /\ SumBytes(S) \in Nat
      /\ IsFiniteSet(ByteSet(T)) /\ SumBytes(T) = Cardinality(ByteSet(T)) /\ SumBytes(T) \in Nat
      /\ SumBytes(S \cup T) = Cardinality(ByteSet(S \cup T))
  BY SumFinite, S \cup T \in SUBSET Chunk
<1>3. Cardinality(ByteSet(S) \cup ByteSet(T))
      = Cardinality(ByteSet(S)) + Cardinality(ByteSet(T)) - Cardinality(ByteSet(S) \cap ByteSet(T))
  BY <1>2, FS_Union
<1>4. Cardinality(ByteSet(S) \cap ByteSet(T)) = 0
  BY <1>1, FS_EmptySet
<1>5. SumBytes(S \cup T) = SumBytes(S) + SumBytes(T) - 0
  BY <1>1, <1>2, <1>3, <1>4, Zenon
<1> QED
  BY <1>2, <1>5

LEMMA SumOne ==
    ASSUME NEW c \in Chunk
    PROVE  SumBytes({c}) = Bytes(c)
<1>1. Bytes(c) \in 1..ChunkSize /\ ChunkSize \in Nat
  BY ChunkBytesInRange
<1>2. ByteSet({c}) = {c} \X (1..Bytes(c))
  BY <1>1 DEF ByteSet
<1>3. IsFiniteSet(1..Bytes(c)) /\ Cardinality(1..Bytes(c)) = Bytes(c)
  BY <1>1, FS_Interval
<1>4. Cardinality({c} \X (1..Bytes(c))) = 1 * Bytes(c)
  <2>1. IsFiniteSet({c}) /\ Cardinality({c}) = 1
    BY FS_Singleton
  <2>2. Cardinality({c} \X (1..Bytes(c))) = Cardinality({c}) * Cardinality(1..Bytes(c))
    BY <1>3, <2>1, FS_Product, Zenon
  <2> QED
    BY <1>3, <2>1, <2>2, Zenon
<1> QED
  BY <1>1, <1>2, <1>4 DEF SumBytes, ByteSet

LEMMA SumNone == SumBytes({}) = 0
<1>1. ByteSet({}) = {}
  BY DEF ByteSet
<1> QED
  BY <1>1, FS_EmptySet DEF SumBytes, ByteSet

LEMMA ResumedNone == ResumedBytes({}) = 0
<1>1. Total \in Nat
  BY SumFinite DEF Total
<1>2. Cardinality({}) * ChunkSize = 0
  BY FS_EmptySet, ChunkBytesInRange
<1> QED
  BY <1>1, <1>2 DEF ResumedBytes, AtMost

LEMMA ResumedType ==
    ASSUME NEW S \in SUBSET Chunk
    PROVE  /\ ResumedBytes(S) \in Nat /\ Total \in Nat
           /\ ResumedBytes(S) <= Total
           /\ ResumedBytes(S) <= Cardinality(S) * ChunkSize
           /\ ResumedBytes(S) = Total \/ ResumedBytes(S) = Cardinality(S) * ChunkSize
<1>1. Total \in Nat /\ Cardinality(S) * ChunkSize \in Nat
  BY SumFinite DEF Total
<1> QED
  BY <1>1 DEF ResumedBytes, AtMost

-----------------------------------------------------------------------------
(* The counters. *)

Sending == {"streams", "join", "confirm", "ok"}

\* A receiver that has completed has every bit.
LEMMA OkHasAll == IInv /\ OInv /\ rp = "ok" => bits = Chunk
  BY ChunkFile DEF IInv, TypeOK, OInv, CheckedBits, ChunksOf

\* Steps that count nothing.
LEMMA CountsQuiet ==
    ASSUME Counts, UNCHANGED <<counter, started, bits, toSend, sentStat>>,
           sp' \in Sending => sp \in Sending,
           rp' \in {"hello", "offer"} => rp \in {"hello", "offer"},
           toS' = toS \/ toS' = None \/ toS'.type # "Complete" \/ toS'.bytes = counter,
           sp' = "ok" => sp = "ok",
           rp = "ok" => rp' = "ok"
    PROVE  Counts'
<1>1. (counter = ResumedBytes(started) + SumBytes(bits \ started))'
  <2>1. ResumedBytes(started)' = ResumedBytes(started)
    BY DEF ResumedBytes
  <2>2. SumBytes(bits \ started)' = SumBytes(bits \ started)
    BY DEF SumBytes
  <2> QED
    BY <2>1, <2>2 DEF Counts
<1>2. (sp \in Sending => rp \notin {"hello", "offer"} /\ toSend = SumBytes(Chunk \ started))'
  <2>1. SumBytes(Chunk \ started)' = SumBytes(Chunk \ started)
    BY DEF SumBytes
  <2> QED
    BY <2>1 DEF Counts, Sending
<1> QED
  BY <1>1, <1>2 DEF Counts, Sending

LEMMA CountsInit == Init => Counts
<1> SUFFICES ASSUME Init PROVE Counts
  OBVIOUS
<1>1. bits \ started = {} /\ started = {} /\ counter = 0
  BY DEF Init
<1>2. counter = ResumedBytes(started) + SumBytes(bits \ started)
  BY <1>1, SumNone, ResumedNone
<1> QED
  BY <1>2 DEF Init, Counts

LEMMA CountsRetry == Retry => Counts'
<1> SUFFICES ASSUME Retry PROVE Counts'
  OBVIOUS
<1>1. bits' \ started' = {} /\ started' = {} /\ counter' = 0
  BY DEF Retry, Begin
<1>2. (counter = ResumedBytes(started) + SumBytes(bits \ started))'
  BY <1>1, SumNone, ResumedNone
<1> QED
  BY <1>2 DEF Retry, Begin, Counts

LEMMA CountsSender == IInv /\ OInv /\ Counts /\ Sender => Counts'
<1> SUFFICES ASSUME IInv, OInv, Counts, Sender PROVE Counts'
  OBVIOUS
<1> USE DEF linkVars, receiverVars, historyVars
<1>1. UNCHANGED <<counter, started, bits, rp>>
  BY DEF Sender, SendHello, SendOffer, ReadAnswer, ReadComplete, ReadRefusal, DialRefused,
         JoinSenders
<1>2. CASE ReadAnswer
  <2>1. toS.have = bits /\ bits = started /\ rp \notin {"hello", "offer"}
    BY <1>2 DEF ReadAnswer, OInv, Answered
  <2>2. sp' = "streams" /\ toSend' = SumBytes(Chunk \ started) /\ toS' = None
    BY <1>2, <2>1 DEF ReadAnswer, Missing
  <2>3. (counter = ResumedBytes(started) + SumBytes(bits \ started))'
    BY <1>1 DEF Counts
  <2> QED
    BY <1>1, <2>1, <2>2, <2>3 DEF Counts
<1>3. CASE ReadComplete
  <2>1. rp = "ok" /\ toS.bytes = counter /\ toSend = SumBytes(Chunk \ started)
        /\ toS' = None /\ sp' = "ok" /\ toSend' = toSend
        /\ sentStat' = IF toS.bytes > toSend THEN toS.bytes ELSE toSend
    BY <1>3 DEF ReadComplete, IInv, Announced, Counts
  <2>2. bits = Chunk
    BY <2>1, OkHasAll
  <2>3. started \in SUBSET Chunk /\ Chunk \ started \in SUBSET Chunk
    BY DEF IInv, TypeOK
  <2>4. ResumedBytes(started) \in Nat /\ toSend \in Nat
    BY <2>1, <2>3, ResumedType, SumFinite
  <2>5. counter = ResumedBytes(started) + toSend
    BY <2>1, <2>2 DEF Counts
  <2>6. sentStat' = counter
    BY <2>1, <2>4, <2>5
  <2>7. (counter = ResumedBytes(started) + SumBytes(bits \ started))'
    BY <1>1 DEF Counts
  <2> QED
    BY <1>1, <2>1, <2>6, <2>7 DEF Counts
<1>4. CASE ~ ReadAnswer /\ ~ ReadComplete
  <2>1. UNCHANGED <<toSend, sentStat, toS>>
    BY <1>4 DEF Sender, SendHello, SendOffer, ReadRefusal, DialRefused, JoinSenders
  <2>2. (sp' \in Sending => sp \in Sending) /\ sp' # "ok"
    BY <1>4 DEF Sender, SendHello, SendOffer, ReadRefusal, DialRefused, JoinSenders, Sending
  <2> QED
    BY <1>1, <2>1, <2>2, CountsQuiet
<1> QED
  BY <1>2, <1>3, <1>4

LEMMA CountsStreams ==
    ASSUME NEW i \in Stream, Counts, Connect(i) \/ SendWorker(i)
    PROVE  Counts'
<1>1. UNCHANGED <<counter, started, bits, rp, toSend, sentStat, toS>>
  BY DEF Connect, SendWorker, Pop, Write, Shutdown, Drained, linkVars, receiverVars,
         historyVars
<1>2. (sp' \in Sending => sp \in Sending) /\ (sp' = "ok" => sp = "ok")
  BY DEF Connect, SendWorker, Pop, Write, Shutdown, Drained, Sending
<1> QED
  BY <1>1, <1>2, CountsQuiet

LEMMA CountsReceiver == IInv /\ OInv /\ Counts /\ Receiver => Counts'
<1> SUFFICES ASSUME IInv, OInv, Counts, Receiver PROVE Counts'
  OBVIOUS
<1> USE DEF senderVars, linkVars, historyVars
<1>1. UNCHANGED <<sp, toSend, sentStat>>
  BY DEF Receiver, ReadHello, Accept, Refuse, PeerLeft, JoinWorkers, Confirm,
         ReadStreamHello, CheckFile
<1>2. CASE Accept /\ rp' = "streams"
  <2>1. /\ rp = "offer" /\ bits' = StartBits /\ started' = StartBits
        /\ counter' = ResumedBytes(StartBits) /\ toS' = AcceptMsg(StartBits)
    BY <1>2 DEF Accept
  <2>2. StartBits \in SUBSET Chunk
    BY StartBitsOnDisk DEF IInv, TypeOK
  <2>3. ResumedBytes(StartBits) \in Nat
    BY <2>2, ResumedType
  <2>4. bits' \ started' = {}
    BY <2>1
  <2>5. (counter = ResumedBytes(started) + SumBytes(bits \ started))'
    <3>1. SumBytes(bits' \ started') = 0
      BY <2>4, SumNone
    <3> QED
      BY <2>1, <2>3, <3>1
  <2>6. sp \notin Sending
    BY <2>1 DEF Counts, Sending
  <2>7. toS'.type # "Complete"
    BY <2>1 DEF AcceptMsg
  <2> QED
    BY <1>1, <2>5, <2>6, <2>7 DEF Counts, Sending
<1>3. CASE ~(Accept /\ rp' = "streams")
  <2>1. UNCHANGED <<counter, started, bits>>
    BY <1>3 DEF Receiver, ReadHello, Accept, Refuse, PeerLeft, JoinWorkers, Confirm,
                ReadStreamHello, CheckFile
  <2>2. toS' = toS \/ toS' = None \/ toS'.type # "Complete" \/ toS'.bytes = counter
    <3>1. toS' \in {toS, None, AbortMsg, CompleteMsg(counter)}
      BY <1>3 DEF Receiver, ReadHello, Accept, Refuse, PeerLeft, JoinWorkers, Confirm,
                  ReadStreamHello, CheckFile, Arriving
    <3>2. AbortMsg.type = "Abort" /\ CompleteMsg(counter).bytes = counter
      BY DEF AbortMsg, CompleteMsg
    <3> QED
      BY <3>1, <3>2
  <2>3. (rp' \in {"hello", "offer"} => rp \in {"hello", "offer"}) /\ rp # "ok"
    BY <1>3 DEF Receiver, ReadHello, Accept, Refuse, PeerLeft, JoinWorkers, Confirm,
                ReadStreamHello, CheckFile, Ended
  <2> QED
    BY <1>1, <2>1, <2>2, <2>3, CountsQuiet
<1> QED
  BY <1>2, <1>3

LEMMA CountsRecvWorker ==
    ASSUME NEW i \in Stream, IInv, OInv, Counts, RecvWorker(i)
    PROVE  Counts'
<1> USE DEF senderVars, linkVars, historyVars
<1>1. UNCHANGED <<sp, rp, toSend, sentStat, started, toS>>
  BY DEF RecvWorker, Land, SetBit, StreamEnds
<1>2. CASE SetBit(i)
  <2> DEFINE d == rchunk[i]
  <2>1. rw[i] = "wrote" /\ bits' = bits \cup {d} /\ counter' = counter + Bytes(d)
    BY <1>2 DEF SetBit
  <2>2. d \in Chunk /\ bits \in SUBSET Chunk /\ started \in SUBSET Chunk
    BY <2>1 DEF IInv, InHand, TypeOK
  <2>3. d \notin bits
    <3>1. Holds(i, 0, d)
      BY <2>1 DEF Holds
    <3> QED
      BY <2>2, <3>1 DEF OInv, OnePlace
  <2>4. d \notin started
    BY <2>3 DEF OInv, Notices
  <2>5. rp # "ok"
    BY <2>2, <2>3, OkHasAll
  <2>6. SumBytes(bits' \ started) = SumBytes(bits \ started) + Bytes(d)
    <3>1. bits' \ started = (bits \ started) \cup {d} /\ (bits \ started) \cap {d} = {}
      BY <2>1, <2>3, <2>4
    <3>2. SumBytes((bits \ started) \cup {d}) = SumBytes(bits \ started) + SumBytes({d})
      BY <2>2, <3>1, SumAdds, {d} \in SUBSET Chunk, bits \ started \in SUBSET Chunk
    <3> QED
      BY <2>2, <3>1, <3>2, SumOne
  <2>7. /\ SumBytes(bits \ started) \in Nat /\ ResumedBytes(started) \in Nat
        /\ Bytes(d) \in Nat
    BY <2>2, SumFinite, ResumedType, ChunkBytesInRange, bits \ started \in SUBSET Chunk
  <2>8. counter' = ResumedBytes(started) + SumBytes(bits' \ started)
    BY <2>1, <2>6, <2>7 DEF Counts
  <2>9. ~(toS # None /\ toS.type = "Complete") /\ sp # "ok"
    BY <2>5 DEF IInv, Announced, Counts
  <2> QED
    BY <1>1, <2>8, <2>9 DEF Counts
<1>3. CASE Land(i) \/ StreamEnds(i)
  <2>1. UNCHANGED <<counter, bits>>
    BY <1>3 DEF Land, StreamEnds
  <2> QED
    BY <1>1, <2>1, CountsQuiet
<1> QED
  BY <1>2, <1>3 DEF RecvWorker

LEMMA CountsFailure == Counts /\ Failure => Counts'
<1> SUFFICES ASSUME Counts, Failure PROVE Counts'
  OBVIOUS
<1> USE DEF Fault, Killed, senderVars, linkVars, receiverVars, historyVars
<1>1. /\ UNCHANGED <<counter, started, bits, toSend, sentStat>>
      /\ toS' = toS \/ toS' = None
  BY DEF Failure, SenderKilled, ReceiverKilled, SenderGivesUp, ReceiverGivesUp,
         Silence, StreamBreaks, WorkerFails
<1>2. /\ sp' = sp \/ sp' = "failed"
      /\ rp' = rp \/ (rp \notin Ended /\ rp' = "failed")
  BY DEF Failure, SenderKilled, ReceiverKilled, SenderGivesUp, ReceiverGivesUp,
         Silence, StreamBreaks, WorkerFails
<1> QED
  BY <1>1, <1>2, CountsQuiet DEF Sending, Ended

LEMMA CountsStep == IInv /\ OInv /\ Counts /\ [Next]_vars => Counts'
<1> SUFFICES ASSUME IInv, OInv, Counts, [Next]_vars PROVE Counts'
  OBVIOUS
<1>1. CASE UNCHANGED vars
  BY <1>1, CountsQuiet DEF vars, senderVars, linkVars, receiverVars, historyVars
<1> QED
  BY <1>1, CountsRetry, CountsSender, CountsStreams, CountsReceiver, CountsRecvWorker,
     CountsFailure DEF Next

\* The bytes both sides report for a completed transfer: the whole total,
\* more only by what resumed short chunks lack of full ones and by no more
\* than was sent, and the same number on both sides.
THEOREM BytesAddUp == Spec => []BytesReported
<1>1. IInv /\ OInv /\ Counts => BytesReported
  <2> SUFFICES ASSUME IInv, OInv, Counts PROVE BytesReported
    OBVIOUS
  <2> DEFINE rest == SumBytes(Chunk \ started)
             had == SumBytes(started)
             full == Cardinality(started) * ChunkSize
             resumed == ResumedBytes(started)
  <2>1. started \in SUBSET Chunk /\ Chunk \ started \in SUBSET Chunk
    BY DEF IInv, TypeOK
  <2>2. rest \in Nat /\ had \in Nat /\ full \in Nat /\ had <= full
    BY <2>1, SumFinite
  <2>3. /\ resumed \in Nat /\ Total \in Nat /\ resumed <= Total /\ resumed <= full
        /\ resumed = Total \/ resumed = full
    BY <2>1, ResumedType
  <2>4. Total = had + rest
    <3>1. Chunk = started \cup (Chunk \ started) /\ started \cap (Chunk \ started) = {}
      BY <2>1
    <3>2. SumBytes(started \cup (Chunk \ started)) = had + rest
      BY <2>1, <3>1, SumAdds
    <3> QED
      BY <3>1, <3>2 DEF Total
  <2>5. ASSUME rp = "ok"
        PROVE  counter >= Total /\ counter <= Total + Shortfall(started) /\ counter <= Total + rest
    <3>1. counter = resumed + rest
      BY <2>5, OkHasAll DEF Counts
    <3>2. Shortfall(started) = full - had
      BY DEF Shortfall
    <3> HIDE DEF rest, had, full, resumed
    <3> QED
      BY <2>2, <2>3, <2>4, <3>1, <3>2
  <2> QED
    BY <2>5 DEF BytesReported, Counts
<1>2. Init => Counts
  BY CountsInit
<1>3. IInv /\ OInv /\ Counts /\ [Next]_vars => Counts'
  BY CountsStep
<1> QED
  BY <1>1, <1>2, <1>3, OInvariance, PTL DEF Spec

-----------------------------------------------------------------------------
(* An attempt in which nothing failed. *)

Unhurt == ~hurt /\ Acceptable(offer)

NoneFailed ==
    /\ ~silent
    /\ sp # "failed"
    /\ rp # "failed"
    /\ \A i \in Stream : wp[i] # "err" /\ rw[i] # "err" /\ close[i] # "broken"

\* Where the two run()s are relative to each other: nobody is at its end
\* while the other still needs it.
Phases ==
    /\ sp \in {"hello", "offer", "answer"} => \A i \in Stream : wp[i] = "none"
    /\ sp = "streams" => wp[Streams] = "none"
    /\ sp \in {"streams", "join", "confirm", "ok"} => rp \notin {"hello", "offer"}
    /\ sp = "ok" => rp = "ok"
    /\ rp \in {"check", "ok"} => \A i \in Stream : rw[i] = "ended"
    /\ rp = "ok" /\ sp # "ok" => toS # None /\ toS.type = "Complete"
    /\ toS # None => toS.type # "Abort"

\* The two ends of a stream: it is closed only with nothing left to send, and
\* left by its reader only closed and empty.
StreamEnded ==
    \A i \in Stream :
        /\ wp[i] = "none" => rw[i] = "none"
        /\ wp[i] \in {"pop", "write"} => rw[i] \in {"hello", "reading", "wrote"}
        /\ close[i] # "open" => wp[i] \in {"drain", "ended"} /\ queue = {}
        /\ rw[i] = "ended" => wire[i] = <<>> /\ close[i] # "open"

\* Chunk c is in stream i or in the hands of one of its workers.
Carries(i, c) ==
    \/ rw[i] = "wrote" /\ rchunk[i] = c
    \/ \E k \in 1..Len(wire[i]) : wire[i][k] = c
    \/ wp[i] = "write" /\ wchunk[i] = c

\* Once the Accept is read no chunk is lost from sight.
NoneDropped ==
    sp \in {"streams", "join", "confirm", "ok"} =>
        \A c \in Chunk \ (queue \cup bits) : \E i \in Stream : Carries(i, c)

Going == NoneFailed /\ Phases /\ StreamEnded /\ NoneDropped

HInv == Unhurt => Going

LEMMA OneStream == Streams \in Stream
  BY TransferAssumption DEF Stream

\* With all streams left by their readers every chunk has its bit.
LEMMA AllArrived ==
    ASSUME IInv, Going, rp = "check"
    PROVE  Chunk \subseteq bits
<1>1. \A i \in Stream : rw[i] = "ended" /\ wire[i] = <<>> /\ close[i] # "open"
  BY DEF Going, Phases, StreamEnded
<1>2. \A i \in Stream : wp[i] \in {"drain", "ended"} /\ queue = {}
  BY <1>1 DEF Going, StreamEnded
<1>3. queue = {} /\ wp[Streams] \in {"drain", "ended"}
  BY <1>2, OneStream
<1>4. sp \in {"streams", "join", "confirm", "ok"}
  BY <1>3, OneStream DEF Going, Phases, NoneFailed, IInv, TypeOK, Ended
<1>5. \A i \in Stream, c \in Chunk : ~Carries(i, c)
  BY <1>1, <1>2 DEF Carries
<1> QED
  BY <1>3, <1>4, <1>5 DEF Going, NoneDropped

\* Steps that leave chunks, streams and workers alone.
LEMMA StillGoing ==
    ASSUME Going, UNCHANGED <<queue, bits, wp, wchunk, rw, rchunk, wire, close>>,
           NoneFailed', Phases',
           sp' \in {"streams", "join", "confirm", "ok"} => sp \in {"streams", "join", "confirm", "ok"}
    PROVE  Going'
<1>1. StreamEnded'
  BY DEF Going, StreamEnded
<1>2. NoneDropped'
  BY DEF Going, NoneDropped, Carries
<1> QED
  BY <1>1, <1>2 DEF Going

LEMMA GoingSender ==
    ASSUME IInv, OInv, Unhurt, Going, Sender
    PROVE  Going'
<1> USE DEF receiverVars, linkVars, sessionVars, storeVars, historyVars
<1>1. rp \in Ended => rp = "ok" /\ \A i \in Stream : rw[i] = "ended"
  BY DEF Going, NoneFailed, Phases, Ended
<1>2. /\ rp \in Ended => sp \notin {"hello", "offer", "answer", "streams"}
      /\ Unreachable(rp) => rp \in Ended
      /\ ~silent
  BY <1>1, OneStream DEF Going, NoneFailed, Phases, StreamEnded, Unreachable
<1>3. OfferFits(offer)
  BY DEF Unhurt, Acceptable
<1>4. UNCHANGED <<silent, wp, wchunk, rw, rchunk, wire, close, bits, rp>>
  BY DEF Sender, SendHello, SendOffer, ReadAnswer, ReadComplete, ReadRefusal, DialRefused, JoinSenders
<1>5. CASE SendHello
  <2>1. sp = "hello" /\ sp' = "offer" /\ UNCHANGED <<toS, queue>>
    BY <1>5, <1>2 DEF SendHello
  <2> QED
    BY <1>4, <2>1, StillGoing DEF Going, NoneFailed, Phases
<1>6. CASE SendOffer
  <2>1. sp = "offer" /\ sp' = "answer" /\ UNCHANGED <<toS, queue>>
    BY <1>6, <1>2, <1>3 DEF SendOffer
  <2> QED
    BY <1>4, <2>1, StillGoing DEF Going, NoneFailed, Phases
<1>7. CASE ReadAnswer
  <2>1. /\ sp = "answer" /\ sp' = "streams" /\ queue' = Chunk \ bits /\ toS' = None
        /\ rp \notin {"hello", "offer"}
    BY <1>7 DEF ReadAnswer, Missing, OInv, Answered
  <2>2. rp # "ok" /\ \A i \in Stream : wp[i] = "none" /\ rw[i] = "none" /\ close[i] = "open"
    BY <1>2, <2>1 DEF Going, Phases, StreamEnded, Ended
  <2>3. NoneFailed' /\ Phases'
    BY <1>4, <2>1, <2>2, OneStream DEF Going, NoneFailed, Phases
  <2>4. StreamEnded'
    BY <1>4, <2>2 DEF StreamEnded
  <2>5. NoneDropped'
    BY <1>4, <2>1 DEF NoneDropped
  <2> QED
    BY <2>3, <2>4, <2>5 DEF Going
<1>8. CASE ReadComplete
  <2>1. sp = "confirm" /\ sp' = "ok" /\ toS' = None /\ rp = "ok" /\ queue' = queue
    BY <1>8 DEF ReadComplete, IInv, Announced
  <2> QED
    BY <1>4, <2>1, StillGoing DEF Going, NoneFailed, Phases
<1>9. CASE ReadRefusal
  BY <1>9, <1>1, <1>2 DEF ReadRefusal, Going, NoneFailed, Phases, Ended
<1>10. CASE DialRefused
  BY <1>10, <1>2 DEF DialRefused
<1>11. CASE JoinSenders
  <2>1. sp = "join" /\ sp' = "confirm" /\ UNCHANGED <<toS, queue>>
    BY <1>11 DEF JoinSenders, Going, NoneFailed
  <2> QED
    BY <1>4, <2>1, StillGoing DEF Going, NoneFailed, Phases
<1> QED
  BY <1>5, <1>6, <1>7, <1>8, <1>9, <1>10, <1>11 DEF Sender

LEMMA GoingReceiver ==
    ASSUME IInv, Counts, Unhurt, Going, Receiver
    PROVE  Going'
<1> USE DEF senderVars, linkVars, sessionVars, storeVars, historyVars
<1>1. /\ sp \in Ended \/ Unreachable(sp) => rp = "ok"
      /\ ~silent
  BY DEF Going, NoneFailed, Phases, Ended, Unreachable
<1>2. UNCHANGED <<silent, sp, wp, wchunk, queue, wire, close, rchunk>>
  BY DEF Receiver, ReadHello, Accept, Refuse, PeerLeft, JoinWorkers, Confirm, ReadStreamHello, CheckFile
<1>3. HelloVerdict(offer) = "ok" /\ OfferVerdict(offer) = "ok"
  BY DEF Unhurt, Acceptable
<1>4. CASE ReadHello
  <2>1. rp = "hello" /\ rp' = "offer" /\ UNCHANGED <<toS, rw, bits>>
    BY <1>3, <1>4 DEF ReadHello
  <2> QED
    BY <1>2, <2>1, StillGoing DEF Going, NoneFailed, Phases
<1>5. CASE Accept
  <2>1. rp = "offer" /\ rp' = "streams" /\ rw' = rw /\ toS' = AcceptMsg(StartBits)
    BY <1>1, <1>5 DEF Accept
  <2>2. sp \notin {"streams", "join", "confirm", "ok"}
    BY <2>1 DEF Going, NoneFailed, Phases
  <2>3. NoneFailed' /\ Phases'
    BY <1>2, <2>1, <2>2 DEF Going, NoneFailed, Phases, AcceptMsg
  <2>4. StreamEnded' /\ NoneDropped'
    BY <1>2, <2>1, <2>2 DEF Going, StreamEnded, NoneDropped
  <2> QED
    BY <2>3, <2>4 DEF Going
<1>6. CASE Refuse
  BY <1>3, <1>6 DEF Refuse
<1>7. CASE PeerLeft
  BY <1>1, <1>7 DEF PeerLeft
<1>8. CASE JoinWorkers
  <2>1. rp = "join" /\ rp' = "check" /\ UNCHANGED <<toS, rw, bits>>
    BY <1>8 DEF JoinWorkers, Going, NoneFailed
  <2>2. \A i \in Stream : rw[i] = "ended"
    BY <1>8 DEF JoinWorkers, Going, NoneFailed
  <2> QED
    BY <1>2, <2>1, <2>2, StillGoing DEF Going, NoneFailed, Phases
<1>9. CASE Confirm
  <2>1. rp = "check" /\ rp' = "ok" /\ toS' = CompleteMsg(counter) /\ UNCHANGED <<rw, bits>>
    BY <1>1, <1>9 DEF Confirm, Arriving
  <2>2. toS' # None /\ toS'.type = "Complete"
    <3>1. started \in SUBSET Chunk /\ bits \ started \in SUBSET Chunk
      BY DEF IInv, TypeOK
    <3>2. ResumedBytes(started) \in Nat /\ SumBytes(bits \ started) \in Nat
      BY <3>1, ResumedType, SumFinite
    <3>3. counter \in Nat
      BY <3>2 DEF Counts
    <3> QED
      BY <2>1, <3>3, TransferAssumption DEF CompleteMsg, Msg
  <2> QED
    BY <1>2, <2>1, <2>2, StillGoing DEF Going, NoneFailed, Phases
<1>10. ASSUME NEW i \in Stream, ReadStreamHello(i) PROVE Going'
  <2>1. /\ rw[i] = "hello" /\ rp = "streams" /\ rw' = [rw EXCEPT ![i] = "reading"]
        /\ rp' \in {"join", "streams"} /\ UNCHANGED <<toS, bits>>
    BY <1>10 DEF ReadStreamHello, Going, NoneFailed
  <2>2. rw \in [Stream -> {"hello", "reading", "wrote"} \cup Stopped]
    BY DEF IInv, TypeOK
  <2>3. NoneFailed' /\ Phases'
    BY <1>2, <2>1, <2>2 DEF Going, NoneFailed, Phases
  <2>4. StreamEnded'
    BY <1>2, <2>1, <2>2 DEF Going, StreamEnded
  <2>5. \A j \in Stream : rw[j] = "wrote" => rw'[j] = "wrote"
    BY <2>1, <2>2
  <2>6. \A j \in Stream, c \in Chunk : Carries(j, c) => Carries(j, c)'
    BY <1>2, <2>5 DEF Carries
  <2>7. NoneDropped'
    BY <1>2, <2>1, <2>6 DEF Going, NoneDropped
  <2> QED
    BY <2>3, <2>4, <2>7 DEF Going
<1>11. ASSUME NEW f \in File, CheckFile(f) PROVE Going'
  <2>1. rp = "check"
    BY <1>11 DEF CheckFile
  <2>2. Whole(f)
    BY <2>1, AllArrived DEF Whole, ChunksOf
  <2>3. UNCHANGED <<rp, toS, rw, bits>>
    BY <1>11, <2>2 DEF CheckFile
  <2> QED
    BY <1>2, <2>3, StillGoing DEF Going, NoneFailed, Phases
<1> QED
  BY <1>4, <1>5, <1>6, <1>7, <1>8, <1>9, <1>10, <1>11 DEF Receiver

LEMMA GoingStreams ==
    ASSUME NEW i \in Stream, IInv, Unhurt, Going, Connect(i) \/ SendWorker(i)
    PROVE  Going'
<1> USE DEF linkVars, receiverVars, historyVars, sessionVars
<1>1. UNCHANGED <<silent, bits, rp, toS, rchunk>>
  BY DEF Connect, SendWorker, Pop, Write, Shutdown, Drained
<1>2. /\ wp \in [Stream -> {"pop", "write", "drain"} \cup Stopped]
      /\ wchunk \in [Stream -> Chunk \cup {None}]
      /\ wire \in [Stream -> Seq(Chunk)]
      /\ rw \in [Stream -> {"hello", "reading", "wrote"} \cup Stopped]
      /\ close \in [Stream -> {"open", "eof", "broken"}]
      /\ sp \in {"hello", "offer", "answer", "streams", "join", "confirm"} \cup Ended
  BY DEF IInv, TypeOK
<1>3. \A j \in Stream : wire[j] \in Seq(Chunk) /\ Len(wire[j]) \in Nat
  BY <1>2
<1>4. CASE Connect(i)
  <2>1. /\ sp = "streams" /\ rp = "streams" /\ wp[i] = "none"
        /\ wp' = [wp EXCEPT ![i] = "pop"] /\ rw' = [rw EXCEPT ![i] = "hello"]
        /\ sp' = IF i = Streams THEN "join" ELSE sp
        /\ UNCHANGED <<queue, wchunk, wire, close>>
    BY <1>4 DEF Connect
  <2>2. rw[i] = "none" /\ close[i] = "open"
    BY <2>1 DEF Going, StreamEnded
  <2>3. NoneFailed' /\ Phases'
    BY <1>1, <1>2, <2>1, OneStream DEF Going, NoneFailed, Phases
  <2>4. StreamEnded'
    BY <1>2, <2>1, <2>2 DEF Going, StreamEnded
  <2>5. \A j \in Stream, c \in Chunk : Carries(j, c) => Carries(j, c)'
    BY <1>1, <1>2, <2>1, <2>2 DEF Carries
  <2>6. NoneDropped'
    BY <1>1, <2>1, <2>5 DEF Going, NoneDropped
  <2> QED
    BY <2>3, <2>4, <2>6 DEF Going
<1>5. CASE Pop(i)
  <2>1. PICK d \in queue : wchunk' = [wchunk EXCEPT ![i] = d] /\ queue' = queue \ {d}
    BY <1>5 DEF Pop
  <2>2. /\ wp[i] = "pop" /\ wp' = [wp EXCEPT ![i] = "write"]
        /\ UNCHANGED <<sp, wire, rw, close>>
    BY <1>5 DEF Pop
  <2>3. NoneFailed' /\ Phases'
    BY <1>1, <1>2, <2>2, OneStream DEF Going, NoneFailed, Phases
  <2>4. StreamEnded'
    BY <1>2, <2>1, <2>2 DEF Going, StreamEnded
  <2>5. \A j \in Stream, c \in Chunk : Carries(j, c) => Carries(j, c)'
    BY <1>1, <1>2, <2>1, <2>2 DEF Carries
  <2>6. Carries(i, d)'
    BY <1>2, <2>1, <2>2 DEF Carries
  <2>7. NoneDropped'
    BY <1>1, <2>1, <2>2, <2>5, <2>6 DEF Going, NoneDropped
  <2> QED
    BY <2>3, <2>4, <2>7 DEF Going
<1>6. CASE Write(i)
  <2>1. wp[i] = "write" /\ UNCHANGED <<sp, queue, rw, close>>
    BY <1>6 DEF Write
  <2>2. rw[i] \in {"hello", "reading", "wrote"} /\ close[i] # "broken" /\ ~Gone(i)
    BY <2>1 DEF Going, NoneFailed, StreamEnded, Gone, Stopped
  <2>3. /\ wire' = [wire EXCEPT ![i] = Append(@, wchunk[i])]
        /\ wp' = [wp EXCEPT ![i] = "pop"]
        /\ wchunk' = [wchunk EXCEPT ![i] = None]
    BY <1>6, <2>2 DEF Write
  <2>4. wchunk[i] \in Chunk
    BY <2>1 DEF IInv, InHand
  <2>5. NoneFailed' /\ Phases'
    BY <1>1, <1>2, <2>1, <2>3, OneStream DEF Going, NoneFailed, Phases
  <2>6. StreamEnded'
    BY <1>2, <2>1, <2>2, <2>3 DEF Going, StreamEnded
  <2>7. ASSUME NEW j \in Stream, NEW c \in Chunk, Carries(j, c) PROVE Carries(j, c)'
    <3>1. CASE j # i
      BY <1>1, <1>2, <2>1, <2>3, <2>7, <3>1 DEF Carries
    <3>2. CASE j = i
      <4>1. /\ wire'[i] = Append(wire[i], wchunk[i])
            /\ Len(wire'[i]) = Len(wire[i]) + 1
            /\ \A k \in 1..Len(wire[i]) : wire'[i][k] = wire[i][k]
            /\ wire'[i][Len(wire[i]) + 1] = wchunk[i]
        BY <1>2, <1>3, <2>3, <2>4
      <4>2. Len(wire[i]) + 1 \in 1..Len(wire'[i])
            /\ \A k \in 1..Len(wire[i]) : k \in 1..Len(wire'[i])
        BY <1>3, <4>1
      <4> QED
        BY <1>1, <2>1, <2>7, <3>2, <4>1, <4>2 DEF Carries
    <3> QED
      BY <3>1, <3>2
  <2>8. NoneDropped'
    BY <1>1, <2>1, <2>7 DEF Going, NoneDropped
  <2> QED
    BY <2>5, <2>6, <2>8 DEF Going
<1>7. CASE Shutdown(i) \/ Drained(i)
  <2>1. /\ UNCHANGED <<sp, queue, rw, wchunk, wire>>
        /\ wp[i] \in {"pop", "drain"}
        /\ wp[i] = "pop" => queue = {}
    BY <1>7 DEF Shutdown, Drained
  <2>2. wp[i] = "pop" => ~Gone(i)
    BY DEF Going, NoneFailed, StreamEnded, Gone, Stopped
  <2>3. \/ wp[i] = "pop" /\ wp' = [wp EXCEPT ![i] = "drain"]
           /\ close' = [close EXCEPT ![i] = ShutDown(@)]
        \/ wp[i] = "drain" /\ wp' = [wp EXCEPT ![i] = "ended"] /\ close' = close
    BY <1>7, <2>2 DEF Shutdown, Drained
  <2>4. NoneFailed' /\ Phases'
    BY <1>1, <1>2, <2>1, <2>3, OneStream DEF Going, NoneFailed, Phases, ShutDown
  <2>5. StreamEnded'
    BY <1>2, <2>1, <2>3 DEF Going, StreamEnded, ShutDown
  <2>6. \A j \in Stream, c \in Chunk : Carries(j, c) => Carries(j, c)'
    BY <1>1, <1>2, <2>1, <2>3 DEF Carries
  <2>7. NoneDropped'
    BY <1>1, <2>1, <2>6 DEF Going, NoneDropped
  <2> QED
    BY <2>4, <2>5, <2>7 DEF Going
<1> QED
  BY <1>4, <1>5, <1>6, <1>7 DEF SendWorker

LEMMA GoingRecvWorker ==
    ASSUME NEW i \in Stream, IInv, Unhurt, Going, RecvWorker(i)
    PROVE  Going'
<1> USE DEF senderVars, linkVars, historyVars, sessionVars
<1>1. UNCHANGED <<sp, queue, wp, wchunk, rp, toS, close, silent>>
  BY DEF RecvWorker, Land, SetBit, StreamEnds
<1>2. /\ wire \in [Stream -> Seq(Chunk)]
      /\ rw \in [Stream -> {"hello", "reading", "wrote"} \cup Stopped]
      /\ rchunk \in [Stream -> Chunk \cup {None}]
      /\ close \in [Stream -> {"open", "eof", "broken"}]
      /\ wp \in [Stream -> {"pop", "write", "drain"} \cup Stopped]
  BY DEF IInv, TypeOK
<1>3. \A j \in Stream : wire[j] \in Seq(Chunk) /\ Len(wire[j]) \in Nat
  BY <1>2
<1>4. rw[i] \in {"reading", "wrote"} /\ rp \notin {"check", "ok"} /\ wp[i] # "none"
  <2>1. rw[i] \in {"reading", "wrote"}
    BY DEF RecvWorker, Land, SetBit, StreamEnds
  <2> QED
    BY <2>1 DEF Going, Phases, StreamEnded
<1>5. CASE Land(i)
  <2>1. /\ rw[i] = "reading" /\ wire[i] # <<>>
        /\ rchunk' = [rchunk EXCEPT ![i] = Head(wire[i])]
        /\ wire' = [wire EXCEPT ![i] = Tail(@)]
        /\ rw' = [rw EXCEPT ![i] = "wrote"]
        /\ bits' = bits
    BY <1>5 DEF Land
  <2>2. /\ Len(wire[i]) >= 1
        /\ Head(wire[i]) = wire[i][1]
        /\ Len(Tail(wire[i])) = Len(wire[i]) - 1
        /\ \A k \in 1..Len(wire[i]) - 1 : Tail(wire[i])[k] = wire[i][k + 1]
    BY <1>3, <2>1
  <2>3. NoneFailed' /\ Phases'
    BY <1>1, <1>2, <1>4, <2>1 DEF Going, NoneFailed, Phases
  <2>4. StreamEnded'
    BY <1>1, <1>2, <1>4, <2>1 DEF Going, StreamEnded
  <2>5. ASSUME NEW j \in Stream, NEW c \in Chunk, Carries(j, c) PROVE Carries(j, c)'
    <3>1. CASE j # i
      BY <1>1, <1>2, <2>1, <2>5, <3>1 DEF Carries
    <3>2. CASE j = i /\ wp[i] = "write" /\ wchunk[i] = c
      BY <1>1, <3>2 DEF Carries
    <3>3. ASSUME j = i, NEW k \in 1..Len(wire[i]), wire[i][k] = c PROVE Carries(j, c)'
      <4>1. CASE k = 1
        BY <1>2, <2>1, <2>2, <3>3, <4>1 DEF Carries
      <4>2. CASE k # 1
        <5>1. k - 1 \in 1..Len(wire[i]) - 1 /\ (k - 1) + 1 = k
          BY <1>3, <4>2
        <5>2. wire'[i] = Tail(wire[i]) /\ Len(wire'[i]) = Len(wire[i]) - 1
          BY <1>2, <2>1, <2>2
        <5>3. wire'[i][k - 1] = c /\ k - 1 \in 1..Len(wire'[i])
          BY <2>2, <3>3, <5>1, <5>2
        <5> QED
          BY <3>3, <5>3 DEF Carries
      <4> QED
        BY <4>1, <4>2
    <3> QED
      BY <2>1, <2>5, <3>1, <3>2, <3>3 DEF Carries
  <2>6. NoneDropped'
    BY <1>1, <2>1, <2>5 DEF Going, NoneDropped
  <2> QED
    BY <2>3, <2>4, <2>6 DEF Going
<1>6. CASE SetBit(i)
  <2>1. /\ rw[i] = "wrote" /\ bits' = bits \cup {rchunk[i]} /\ wire' = wire
        /\ rw' = [rw EXCEPT ![i] = "reading"] /\ rchunk' = [rchunk EXCEPT ![i] = None]
    BY <1>6 DEF SetBit
  <2>2. NoneFailed' /\ Phases'
    BY <1>1, <1>2, <1>4, <2>1 DEF Going, NoneFailed, Phases
  <2>3. StreamEnded'
    BY <1>1, <1>2, <1>4, <2>1 DEF Going, StreamEnded
  <2>4. \A j \in Stream, c \in Chunk : Carries(j, c) => Carries(j, c)' \/ c \in bits'
    BY <1>1, <1>2, <2>1 DEF Carries
  <2>5. NoneDropped'
    BY <1>1, <2>1, <2>4 DEF Going, NoneDropped
  <2> QED
    BY <2>2, <2>3, <2>5 DEF Going
<1>7. CASE StreamEnds(i)
  <2>1. /\ rw[i] = "reading" /\ wire[i] = <<>> /\ close[i] # "open" /\ close[i] # "broken"
        /\ UNCHANGED <<wire, rchunk, bits>>
    BY <1>7 DEF StreamEnds, Going, NoneFailed
  <2>2. rw' = [rw EXCEPT ![i] = "ended"] /\ wp[i] \in {"drain", "ended"}
    BY <1>2, <1>7, <2>1 DEF StreamEnds, Going, StreamEnded
  <2>3. NoneFailed' /\ Phases'
    BY <1>1, <1>2, <1>4, <2>2 DEF Going, NoneFailed, Phases
  <2>4. StreamEnded'
    BY <1>1, <1>2, <2>1, <2>2 DEF Going, StreamEnded
  <2>5. \A j \in Stream, c \in Chunk : Carries(j, c) => Carries(j, c)'
    BY <1>1, <1>2, <2>1, <2>2 DEF Carries
  <2>6. NoneDropped'
    BY <1>1, <2>1, <2>5 DEF Going, NoneDropped
  <2> QED
    BY <2>3, <2>4, <2>6 DEF Going
<1> QED
  BY <1>5, <1>6, <1>7 DEF RecvWorker


LEMMA HInvInit == Init => HInv
<1> SUFFICES ASSUME Init PROVE Going
  BY DEF HInv
<1>1. NoneFailed /\ Phases
  BY OneStream DEF Init, NoneFailed, Phases
<1>2. StreamEnded /\ NoneDropped
  BY DEF Init, StreamEnded, NoneDropped
<1> QED
  BY <1>1, <1>2 DEF Going

LEMMA HInvRetry == Retry => HInv'
<1> SUFFICES ASSUME Retry PROVE Going'
  BY DEF HInv
<1>1. Begin
  BY DEF Retry
<1>2. NoneFailed' /\ Phases'
  BY <1>1, OneStream DEF Begin, NoneFailed, Phases
<1>3. StreamEnded' /\ NoneDropped'
  BY <1>1 DEF Begin, StreamEnded, NoneDropped
<1> QED
  BY <1>2, <1>3 DEF Going

\* A failure is marked, and giving up in accept() or being killed on a silent
\* network comes after one.
LEMMA HInvFailure ==
    ASSUME HInv, Failure
    PROVE  HInv'
<1>1. CASE Fault
  BY <1>1 DEF Fault, HInv, Unhurt
<1>2. CASE silent /\ UNCHANGED <<sessionVars, historyVars>>
  <2>1. Unhurt' => Unhurt
    BY <1>2 DEF Unhurt, sessionVars, historyVars
  <2> QED
    BY <1>2, <2>1 DEF HInv, Going, NoneFailed
<1>4. CASE SenderParked /\ UNCHANGED <<sessionVars, historyVars>>
  <2>1. Unhurt' => Unhurt
    BY <1>4 DEF Unhurt, sessionVars, historyVars
  <2>2. ~Going
    BY <1>4, OneStream DEF SenderParked, Ended, Going, NoneFailed, Phases, StreamEnded
  <2> QED
    BY <2>1, <2>2 DEF HInv
<1>3. CASE ReceiverParked /\ UNCHANGED <<sessionVars, historyVars>>
  <2>1. Unhurt' => Unhurt
    BY <1>3 DEF Unhurt, sessionVars, historyVars
  <2>2. ~Going
    BY <1>3 DEF ReceiverParked, Ended, Going, NoneFailed, Phases
  <2> QED
    BY <2>1, <2>2 DEF HInv
<1> QED
  BY <1>1, <1>2, <1>3, <1>4 DEF Failure, SenderKilled, ReceiverKilled, SenderGivesUp,
     ReceiverGivesUp, Silence, StreamBreaks, WorkerFails, Killed

LEMMA HInvStep == IInv /\ OInv /\ Counts /\ HInv /\ [Next]_vars => HInv'
<1> SUFFICES ASSUME IInv, OInv, Counts, HInv, [Next]_vars PROVE HInv'
  OBVIOUS
<1> USE DEF sessionVars, historyVars
<1>1. CASE UNCHANGED vars
  BY <1>1 DEF vars, senderVars, linkVars, storeVars, receiverVars, HInv, Unhurt, Going,
     NoneFailed, Phases, StreamEnded, NoneDropped, Carries
<1>2. CASE Sender
  <2>1. UNCHANGED <<offer, hurt>>
    BY <1>2 DEF Sender, SendHello, SendOffer, ReadAnswer, ReadComplete, ReadRefusal,
       DialRefused, JoinSenders
  <2> QED
    BY <1>2, <2>1, GoingSender DEF HInv, Unhurt
<1>3. CASE Receiver
  <2>1. UNCHANGED <<offer, hurt>>
    BY <1>3 DEF Receiver, ReadHello, Accept, Refuse, PeerLeft, JoinWorkers, Confirm,
       ReadStreamHello, CheckFile
  <2> QED
    BY <1>3, <2>1, GoingReceiver DEF HInv, Unhurt
<1>4. ASSUME NEW i \in Stream, Connect(i) \/ SendWorker(i) PROVE HInv'
  <2>1. UNCHANGED <<offer, hurt>>
    BY <1>4 DEF Connect, SendWorker, Pop, Write, Shutdown, Drained
  <2> QED
    BY <1>4, <2>1, GoingStreams DEF HInv, Unhurt
<1>5. ASSUME NEW i \in Stream, RecvWorker(i) PROVE HInv'
  <2>1. UNCHANGED <<offer, hurt>>
    BY <1>5 DEF RecvWorker, Land, SetBit, StreamEnds
  <2> QED
    BY <1>5, <2>1, GoingRecvWorker DEF HInv, Unhurt
<1> QED
  BY <1>1, <1>2, <1>3, <1>4, <1>5, HInvRetry, HInvFailure DEF Next

\* The safety half of delivery: with an acceptable offer, a run() or a worker
\* of either side that fails does so after a connection, a process or a worker
\* failed in the same attempt, never because of the order in which streams,
\* messages and ends come.
THEOREM NoSpuriousFailure == Spec => []FailsOnlyWhenHurt
<1>1. HInv => FailsOnlyWhenHurt
  BY DEF HInv, Unhurt, Going, NoneFailed, FailsOnlyWhenHurt
<1> QED
  BY <1>1, HInvInit, HInvStep, CountsInit, CountsStep, OInvariance, PTL DEF Spec
=============================================================================
