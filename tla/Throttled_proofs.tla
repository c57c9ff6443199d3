-------------------------- MODULE Throttled_proofs -------------------------
(***************************************************************************)
(* Proofs about Throttled, for any number of workers, chunks and ticks:    *)
(* type correctness and the rate limit, that the first update is never     *)
(* withheld, the bound on updates that fall back behind the final one, and *)
(* that the final one is not lost.                                         *)
(*                                                                         *)
(* A call returns without emitting only after it has seen a stamp, and a   *)
(* stamp is stored only by a worker that emits (FirstStamp).  A worker     *)
(* behind the final update is in a call it entered before the counter      *)
(* reached the total, and it is not the one that emitted the final update  *)
(* (Behind).                                                               *)
(***************************************************************************)
EXTENDS Throttled, FiniteSetTheorems, TLAPS

\* last_emit_micros is the last stamp, and no stamp is later.
LastIsStamp ==
    /\ last = NEVER <=> stamps = <<>>
    /\ \A i \in 1..Len(stamps) : last # NEVER /\ stamps[i] <= last

\* A worker about to swap saw no stamp, or one an interval before its time.
Waited ==
    \A w \in Worker :
        pc[w] = "swap" => seen[w] = NEVER \/ now[w] >= seen[w] + Interval

IInv == TypeOK /\ LastIsStamp /\ Waited /\ RateHonest

LEMMA IInvInit == Init => IInv
  BY ConstantsAssumption DEF Init, IInv, TypeOK, LastIsStamp, Waited, RateHonest

LEMMA NotTooSoon ==
    ASSUME NEW l \in Nat, NEW t \in Nat, ~TooSoon(l, t)
    PROVE  t >= l + Interval
  BY ConstantsAssumption DEF TooSoon, SaturatingSub

LEMMA IInvStep == IInv /\ [Next]_vars => IInv'
<1> SUFFICES ASSUME IInv, [Next]_vars PROVE IInv'
  OBVIOUS
<1> USE ConstantsAssumption DEF IInv
<1>1. CASE UNCHANGED vars
  BY <1>1 DEF vars, TypeOK, LastIsStamp, Waited, RateHonest
<1>2. CASE Tick
  BY <1>2 DEF Tick, TypeOK, LastIsStamp, Waited, RateHonest
<1>3. ASSUME NEW w \in Worker, Count(w) PROVE IInv'
  <2>1. PICK c \in pending :
           /\ pending' = pending \ {c}
           /\ counter' = counter + Length[c]
           /\ done' = [done EXCEPT ![w] = counter + Length[c]]
    BY <1>3 DEF Count, Added
  <2>2. UNCHANGED <<clock, last, now, seen, stamps, shown>>
        /\ pc' = [pc EXCEPT ![w] = "elapsed"]
    BY <1>3 DEF Count, Added, Goto
  <2>3. counter + Length[c] \in Nat
    BY <2>1 DEF TypeOK
  <2>4. TypeOK'
    BY <2>1, <2>2, <2>3 DEF TypeOK
  <2> QED
    BY <2>2, <2>4 DEF TypeOK, LastIsStamp, Waited, RateHonest
<1>4. ASSUME NEW w \in Worker, Elapsed(w) PROVE IInv'
  BY <1>4 DEF Elapsed, Goto, TypeOK, LastIsStamp, Waited, RateHonest
<1>5. ASSUME NEW w \in Worker, Load(w) PROVE IInv'
  <2>1. TypeOK'
    BY <1>5 DEF Load, Goto, TypeOK
  <2>2. Waited'
    <3>1. ASSUME ~TooSoon(last, now[w]), last # NEVER PROVE now[w] >= last + Interval
      BY <3>1, NotTooSoon DEF TypeOK
    <3> QED
      BY <1>5, <3>1 DEF Load, Goto, TypeOK, Waited
  <2> QED
    BY <1>5, <2>1, <2>2 DEF Load, LastIsStamp, RateHonest
<1>6. ASSUME NEW w \in Worker, Swap(w) PROVE IInv'
  <2>1. CASE last = seen[w]
    <3>1. /\ last' = now[w]
          /\ stamps' = Append(stamps, now[w])
          /\ pc' = [pc EXCEPT ![w] = "emit"]
          /\ UNCHANGED <<clock, counter, pending, done, now, seen, shown>>
      BY <1>6, <2>1 DEF Swap, Unchanged, Stamp, Goto
    <3>2. now[w] \in 0..MaxTime /\ stamps \in Seq(0..MaxTime)
      BY DEF TypeOK
    <3>3. /\ Len(stamps') = Len(stamps) + 1
          /\ stamps'[Len(stamps) + 1] = now[w]
          /\ \A i \in 1..Len(stamps) : stamps'[i] = stamps[i]
      BY <3>1, <3>2
    <3>4. \A i \in 1..Len(stamps) : stamps[i] + Interval <= now[w]
      <4>1. ASSUME NEW i \in 1..Len(stamps) PROVE stamps[i] + Interval <= now[w]
        <5>1. last # NEVER /\ stamps[i] <= last
          BY DEF LastIsStamp
        <5>2. now[w] >= last + Interval
          BY <1>6, <2>1, <5>1 DEF Swap, Unchanged, Stamp, Waited
        <5>3. last \in Nat /\ stamps[i] \in Nat /\ now[w] \in Nat
          BY <5>1, <3>2 DEF TypeOK
        <5> QED
          BY <5>1, <5>2, <5>3
      <4> QED
        BY <4>1
    <3>5. \A i \in 1..Len(stamps) : stamps[i] \in Nat
      BY <3>2
    <3>6. RateHonest'
      <4>1. ASSUME NEW i \in 1..Len(stamps) + 1, NEW j \in 1..Len(stamps) + 1, i < j
            PROVE  stamps'[j] >= stamps'[i] + Interval
        <5>1. i \in 1..Len(stamps) /\ stamps'[i] = stamps[i]
          BY <3>2, <3>3, <4>1
        <5>2. CASE j = Len(stamps) + 1
          BY <3>2, <3>3, <3>4, <3>5, <5>1, <5>2
        <5>3. CASE j \in 1..Len(stamps)
          BY <3>3, <4>1, <5>1, <5>3 DEF RateHonest
        <5>4. Len(stamps) \in Nat
          BY <3>2
        <5> QED
          BY <5>2, <5>3, <5>4
      <4> QED
        BY <3>3, <4>1 DEF RateHonest
    <3>7. LastIsStamp'
      <4>1. stamps' # <<>> /\ last' # NEVER
        BY <3>1, <3>2, <3>3
      <4>2. \A i \in 1..Len(stamps') : stamps'[i] <= last'
        BY <3>1, <3>2, <3>3, <3>4, <3>5
      <4> QED
        BY <4>1, <4>2 DEF LastIsStamp
    <3>8. TypeOK'
      BY <3>1, <3>2 DEF TypeOK
    <3>9. Waited'
      BY <3>1 DEF Waited, TypeOK
    <3> QED
      BY <3>6, <3>7, <3>8, <3>9
  <2>2. CASE last # seen[w]
    BY <1>6, <2>2 DEF Swap, Unchanged, Stamp, Goto, TypeOK, LastIsStamp, Waited, RateHonest
  <2> QED
    BY <2>1, <2>2
<1>7. ASSUME NEW w \in Worker, Emit(w) PROVE IInv'
  <2>1. shown' \in Seq(Nat)
    BY <1>7 DEF Emit, TypeOK
  <2> QED
    BY <1>7, <2>1 DEF Emit, Goto, TypeOK, LastIsStamp, Waited, RateHonest
<1> QED
  BY <1>1, <1>2, <1>3, <1>4, <1>5, <1>6, <1>7 DEF Next, Call

LEMMA Invariance == Spec => []IInv
  BY IInvInit, IInvStep, PTL DEF Spec

\* The limiter's state stays well typed: no stamp is in the future.
THEOREM TypeCorrect == Spec => []TypeOK
<1>1. IInv => TypeOK
  BY DEF IInv
<1> QED
  BY <1>1, Invariance, PTL

\* Two updates that are not final are stamped an interval apart, however many
\* workers race for the compare_exchange.
THEOREM RateIsHonest == Spec => []RateHonest
<1>1. IInv => RateHonest
  BY DEF IInv
<1> QED
  BY <1>1, Invariance, PTL

-----------------------------------------------------------------------------
(* The first update. *)

Shown == shown # <<>> \/ Emitting # {}

FirstStamp ==
    /\ last # NEVER => Shown
    /\ \A w \in Worker : pc[w] = "swap" /\ seen[w] # NEVER => last # NEVER

LEMMA FiniteCalls ==
    ASSUME TypeOK
    PROVE  /\ IsFiniteSet(Item \ pending) /\ Cardinality(Item \ pending) \in Nat
           /\ IsFiniteSet(Busy) /\ Cardinality(Busy) \in Nat
<1>1. Item \ pending \subseteq Item /\ Busy \subseteq Worker
  BY DEF Busy
<1> QED
  BY <1>1, ConstantsAssumption, FS_Subset, FS_CardinalityType

\* What was shown stays shown, and an emitting worker shows it.
LEMMA ShownStays ==
    ASSUME TypeOK, [Next]_vars, Shown
    PROVE  Shown'
<1> USE DEF TypeOK, Shown, Emitting
<1>1. CASE UNCHANGED vars
  BY <1>1 DEF vars
<1>2. CASE Tick
  BY <1>2 DEF Tick
<1>3. ASSUME NEW w \in Worker, Emit(w) PROVE Shown'
  BY <1>3 DEF Emit
<1>4. ASSUME NEW w \in Worker, Count(w) \/ Elapsed(w) \/ Load(w) \/ Swap(w) PROVE Shown'
  <2>1. shown' = shown
    BY <1>4 DEF Count, Elapsed, Load, Swap
  <2>2. \A v \in Worker : pc[v] = "emit" => pc'[v] = "emit"
    BY <1>4 DEF Count, Elapsed, Load, Swap, Goto
  <2> QED
    BY <2>1, <2>2
<1> QED
  BY <1>1, <1>2, <1>3, <1>4 DEF Next, Call

LEMMA FirstStampStep ==
    ASSUME TypeOK, FirstStamp, [Next]_vars
    PROVE  FirstStamp'
<1> USE ConstantsAssumption DEF FirstStamp, TypeOK
<1>1. CASE UNCHANGED vars
  BY <1>1 DEF vars, Shown, Emitting
<1>2. CASE last' = last
  <2>1. \A w \in Worker : pc'[w] = "swap" /\ seen'[w] # NEVER => last # NEVER
    <3>1. CASE Tick
      BY <3>1 DEF Tick
    <3>2. ASSUME NEW w \in Worker, Call(w)
          PROVE  \A v \in Worker : pc'[v] = "swap" /\ seen'[v] # NEVER => last # NEVER
      <4>1. CASE Load(w)
        BY <4>1 DEF Load, Goto
      <4>2. CASE Count(w) \/ Elapsed(w) \/ Swap(w) \/ Emit(w)
        BY <4>2 DEF Count, Elapsed, Swap, Emit, Goto
      <4> QED
        BY <3>2, <4>1, <4>2 DEF Call
    <3> QED
      BY <1>1, <3>1, <3>2 DEF Next, vars
  <2> QED
    BY <1>2, <2>1, ShownStays
<1>3. CASE Next /\ last' # last
  <2>1. PICK w \in Worker : Swap(w) /\ Unchanged(w)
    BY <1>3 DEF Next, Tick, Call, Count, Elapsed, Load, Swap, Emit
  <2>2. last' = now[w] /\ pc' = [pc EXCEPT ![w] = "emit"]
    BY <2>1 DEF Swap, Stamp, Goto
  <2>3. last' # NEVER
    BY <2>2
  <2>4. Shown'
    BY <2>2 DEF Shown, Emitting
  <2> QED
    BY <2>3, <2>4
<1> QED
  BY <1>1, <1>2, <1>3

LEMMA FirstShownStep ==
    ASSUME TypeOK, TypeOK', FirstStamp, FirstStamp', FirstShown, [Next]_vars
    PROVE  FirstShown'
<1> SUFFICES ASSUME ~ Shown'
             PROVE  Cardinality((Item \ pending)') <= Cardinality(Busy')
  <2>1. Cardinality((Item \ pending)') \in Nat /\ Cardinality(Busy') \in Nat
    <3>1. Busy' \subseteq Worker /\ (Item \ pending)' \subseteq Item
      BY DEF Busy
    <3> QED
      BY <3>1, ConstantsAssumption, FS_Subset, FS_CardinalityType
  <2> QED
    BY <2>1 DEF FirstShown, Shown
<1>1. ~ Shown /\ last = NEVER
  BY ShownStays DEF FirstStamp
<1>2. Cardinality(Item \ pending) <= Cardinality(Busy)
  BY <1>1, FiniteCalls DEF FirstShown, Shown
<1>3. CASE pending' = pending /\ Busy' = Busy
  BY <1>2, <1>3
<1>4. CASE Tick \/ UNCHANGED vars
  BY <1>3, <1>4 DEF Tick, vars, Busy
<1>5. ASSUME NEW w \in Worker, Count(w)
      PROVE  Cardinality((Item \ pending)') <= Cardinality(Busy')
  <2>1. PICK c \in pending : pending' = pending \ {c}
    BY <1>5 DEF Count
  <2>2. (Item \ pending)' = (Item \ pending) \cup {c} /\ c \notin Item \ pending
    BY <2>1 DEF TypeOK
  <2>3. Busy' = Busy \cup {w} /\ w \notin Busy
    BY <1>5 DEF Count, Goto, Busy, TypeOK
  <2>4. Cardinality((Item \ pending)') = Cardinality(Item \ pending) + 1
    BY <2>2, FiniteCalls, FS_AddElement
  <2>5. Cardinality(Busy') = Cardinality(Busy) + 1
    BY <2>3, FiniteCalls, FS_AddElement
  <2> QED
    BY <1>2, <2>4, <2>5, FiniteCalls
<1>6. ASSUME NEW w \in Worker, Elapsed(w) \/ Load(w) \/ Swap(w) \/ Emit(w)
      PROVE  pending' = pending /\ Busy' = Busy
  <2>1. CASE Elapsed(w)
    BY <2>1 DEF Elapsed, Goto, Busy, TypeOK
  <2>2. CASE Load(w)
    BY <1>1, <2>2 DEF Load, TooSoon, Goto, Busy, TypeOK
  <2>3. CASE Swap(w)
    <3>1. last = seen[w]
      BY <1>1, <2>3 DEF Swap, FirstStamp
    <3>2. pc'[w] = "emit"
      BY <2>3, <3>1 DEF Swap, Unchanged, Goto, TypeOK
    <3> QED
      BY <3>2 DEF Shown, Emitting
  <2>4. CASE Emit(w)
    BY <1>1, <2>4 DEF Emit, Shown, Emitting
  <2> QED
    BY <1>6, <2>1, <2>2, <2>3, <2>4
<1> QED
  BY <1>3, <1>4, <1>5, <1>6 DEF Next, Call

\* The throttle never swallows every update: after the first call that has
\* returned, the sink was called or is about to be, however the loads and
\* exchanges of the workers interleave.
THEOREM FirstIsShown == Spec => []FirstShown
<1>1. Init => FirstStamp /\ FirstShown
  <2> SUFFICES ASSUME Init PROVE FirstStamp /\ FirstShown
    OBVIOUS
  <2>1. Item \ pending = {} /\ Busy = {}
    BY DEF Init, Busy
  <2>2. FirstStamp
    BY DEF Init, FirstStamp
  <2> QED
    BY <2>1, <2>2, FS_EmptySet DEF FirstShown
<1>2. IInv => TypeOK
  BY DEF IInv
<1> QED
  BY <1>1, <1>2, Invariance, FirstStampStep, FirstShownStep, PTL DEF Spec

-----------------------------------------------------------------------------
(* Updates behind the final one. *)

Late(i) == {j \in i+1..Len(shown) : shown[j] < Total}
LateBusy == {w \in Worker : pc[w] # "idle" /\ done[w] < Total}

\* No call is ahead of the counter, and once a final update was shown the
\* late ones and the calls that can still add to them leave out one worker.
Behind ==
    /\ \A w \in Worker : pc[w] # "idle" => done[w] <= counter
    /\ \A i \in 1..Len(shown) :
          shown[i] >= Total =>
              /\ counter >= Total
              /\ Cardinality(Late(i)) + Cardinality(LateBusy) + 1 <= Cardinality(Worker)

LEMMA FiniteLate ==
    /\ \A i \in Nat : Len(shown) \in Nat =>
          IsFiniteSet(Late(i)) /\ Cardinality(Late(i)) \in Nat
    /\ IsFiniteSet(LateBusy) /\ Cardinality(LateBusy) \in Nat
    /\ Cardinality(Worker) \in Nat
<1>1. ASSUME NEW i \in Nat, Len(shown) \in Nat PROVE IsFiniteSet(Late(i))
  <2>1. IsFiniteSet(i+1..Len(shown))
    BY <1>1, FS_Interval
  <2>2. Late(i) \subseteq i+1..Len(shown)
    BY DEF Late
  <2> QED
    BY <2>1, <2>2, FS_Subset
<1>2. LateBusy \subseteq Worker
  BY DEF LateBusy
<1> QED
  BY <1>1, <1>2, ConstantsAssumption, FS_Subset, FS_CardinalityType

\* A step that shows nothing and lets no worker fall behind.
LEMMA BehindQuiet ==
    ASSUME TypeOK, Behind, shown' = shown, counter' \in Nat, counter' >= counter,
           \A w \in Worker : pc'[w] # "idle" => done'[w] <= counter',
           counter >= Total => LateBusy' \subseteq LateBusy
    PROVE  Behind'
<1> USE ConstantsAssumption
<1> SUFFICES ASSUME NEW i \in 1..Len(shown), shown[i] >= Total
             PROVE  /\ counter' >= Total
                    /\ Cardinality(Late(i)) + Cardinality(LateBusy') + 1
                          <= Cardinality(Worker)
  <2>1. \A i : Late(i)' = Late(i)
    BY DEF Late
  <2> QED
    BY <2>1 DEF Behind
<1>1. counter >= Total /\ Cardinality(Late(i)) + Cardinality(LateBusy) + 1 <= Cardinality(Worker)
  BY DEF Behind
<1>2. LateBusy' \subseteq LateBusy
  BY <1>1
<1>3. Cardinality(LateBusy') \in Nat /\ Cardinality(LateBusy') <= Cardinality(LateBusy)
  BY <1>2, FiniteLate, FS_Subset, FS_CardinalityType
<1>4. Cardinality(Late(i)) \in Nat
  BY FiniteLate DEF TypeOK
<1>5. Total \in Nat /\ counter \in Nat
  BY DEF TypeOK
<1> QED
  BY <1>1, <1>3, <1>4, <1>5, FiniteLate

LEMMA BehindStep ==
    ASSUME TypeOK, TypeOK', Behind, [Next]_vars
    PROVE  Behind'
<1> USE ConstantsAssumption
<1>1. CASE UNCHANGED <<counter, pc, done, shown>>
  <2>1. LateBusy' = LateBusy
    BY <1>1 DEF LateBusy
  <2>2. \A w \in Worker : pc'[w] # "idle" => done'[w] <= counter'
    BY <1>1 DEF Behind
  <2>3. counter' \in Nat /\ counter' >= counter
    BY <1>1 DEF TypeOK
  <2> QED
    BY <1>1, <2>1, <2>2, <2>3, BehindQuiet
<1>2. CASE Tick \/ UNCHANGED vars
  BY <1>1, <1>2 DEF Tick, vars
<1>3. ASSUME NEW w \in Worker, Count(w) PROVE Behind'
  <2>1. PICK c \in pending :
           /\ counter' = counter + Length[c]
           /\ done' = [done EXCEPT ![w] = counter + Length[c]]
    BY <1>3 DEF Count, Added
  <2>2. shown' = shown /\ pc' = [pc EXCEPT ![w] = "elapsed"]
    BY <1>3 DEF Count, Goto
  <2>3. counter \in Nat /\ Length[c] \in Nat /\ done \in [Worker -> Nat]
    BY DEF TypeOK
  <2>4. counter' \in Nat /\ counter' >= counter
    BY <2>1, <2>3
  <2>5. ASSUME NEW v \in Worker, pc'[v] # "idle" PROVE done'[v] <= counter'
    <3>1. CASE v = w
      BY <2>1, <2>3, <2>4, <3>1
    <3>2. CASE v # w
      <4>1. done'[v] = done[v] /\ pc[v] # "idle" /\ done[v] \in Nat
        BY <2>1, <2>2, <2>3, <2>5, <3>2 DEF TypeOK
      <4>2. done[v] <= counter
        BY <4>1 DEF Behind
      <4> QED
        BY <2>3, <2>4, <4>1, <4>2
    <3> QED
      BY <3>1, <3>2
  <2>6. counter >= Total => LateBusy' \subseteq LateBusy
    BY <2>1, <2>2, <2>3 DEF LateBusy, TypeOK
  <2> QED
    BY <2>2, <2>4, <2>5, <2>6, BehindQuiet
<1>4. ASSUME NEW w \in Worker, Elapsed(w) \/ Load(w) \/ Swap(w) PROVE Behind'
  <2>1. shown' = shown /\ counter' = counter /\ done' = done
    BY <1>4 DEF Elapsed, Load, Swap
  <2>2. \A v \in Worker : pc'[v] # "idle" => pc[v] # "idle"
    BY <1>4 DEF Elapsed, Load, Swap, Goto, TypeOK
  <2>3. LateBusy' \subseteq LateBusy
    BY <2>1, <2>2 DEF LateBusy
  <2>4. \A v \in Worker : pc'[v] # "idle" => done'[v] <= counter'
    BY <2>1, <2>2 DEF Behind
  <2> QED
    BY <2>1, <2>3, <2>4, BehindQuiet DEF TypeOK
<1>5. ASSUME NEW w \in Worker, Emit(w) PROVE Behind'
  <2>1. /\ shown' = Append(shown, done[w])
        /\ pc' = [pc EXCEPT ![w] = "idle"]
        /\ UNCHANGED <<counter, done>>
        /\ pc[w] = "emit"
    BY <1>5 DEF Emit, Goto
  <2>2. shown \in Seq(Nat) /\ Len(shown) \in Nat /\ done[w] \in Nat /\ counter \in Nat
    BY DEF TypeOK
  <2>3. /\ Len(shown') = Len(shown) + 1
        /\ shown'[Len(shown) + 1] = done[w]
        /\ \A i \in 1..Len(shown) : shown'[i] = shown[i]
    BY <2>1, <2>2
  <2>4. \A v \in Worker : pc'[v] # "idle" => done'[v] <= counter'
    BY <2>1 DEF Behind, TypeOK
  <2>5. LateBusy' = LateBusy \ {w}
    BY <2>1 DEF LateBusy, TypeOK
  <2>6. IsFiniteSet(LateBusy') /\ Cardinality(LateBusy') \in Nat
    BY <2>5, FiniteLate, FS_Subset, FS_CardinalityType
  <2>7. ASSUME NEW i \in 1..Len(shown) + 1, shown'[i] >= Total
        PROVE  /\ counter' >= Total
               /\ Cardinality(Late(i)') + Cardinality(LateBusy') + 1 <= Cardinality(Worker)
    <3>1. CASE i = Len(shown) + 1
      <4>1. Late(i)' = {}
        BY <2>2, <2>3, <3>1 DEF Late
      <4>2. LateBusy' \subseteq Worker \ {w}
        BY <2>5 DEF LateBusy
      <4>3. Cardinality(Worker \ {w}) = Cardinality(Worker) - 1 /\ IsFiniteSet(Worker \ {w})
        BY FS_RemoveElement
      <4>4. Cardinality(LateBusy') <= Cardinality(Worker) - 1
        BY <4>2, <4>3, FS_Subset
      <4>5. done[w] <= counter
        BY <2>1 DEF Behind
      <4>6. Cardinality(Late(i)') = 0
        BY <4>1, FS_EmptySet
      <4>7. counter' >= Total
        BY <2>1, <2>2, <2>3, <2>7, <3>1, <4>5
      <4> QED
        BY <2>6, <4>4, <4>6, <4>7, FiniteLate
    <3>2. CASE i \in 1..Len(shown)
      <4>1. /\ shown[i] >= Total
            /\ counter >= Total
            /\ Cardinality(Late(i)) + Cardinality(LateBusy) + 1 <= Cardinality(Worker)
        BY <2>3, <2>7, <3>2 DEF Behind
      <4>2. IsFiniteSet(Late(i)) /\ Cardinality(Late(i)) \in Nat
        BY <2>2, <3>2, FiniteLate
      <4>3. CASE done[w] < Total
        <5>1. Late(i)' = Late(i) \cup {Len(shown) + 1}
          BY <2>2, <2>3, <3>2, <4>3 DEF Late
        <5>2. Len(shown) + 1 \notin Late(i)
          BY <2>2 DEF Late
        <5>3. Cardinality(Late(i)') = Cardinality(Late(i)) + 1
          BY <4>2, <5>1, <5>2, FS_AddElement
        <5>4. w \in LateBusy
          BY <2>1, <4>3 DEF LateBusy
        <5>5. Cardinality(LateBusy') = Cardinality(LateBusy) - 1
          BY <2>5, <5>4, FiniteLate, FS_RemoveElement
        <5> QED
          BY <2>1, <4>1, <4>2, <5>3, <5>5, FiniteLate
      <4>4. CASE done[w] >= Total
        <5>1. Late(i)' = Late(i)
          BY <2>2, <2>3, <3>2, <4>4 DEF Late
        <5>2. Cardinality(LateBusy') <= Cardinality(LateBusy)
          BY <2>5, FiniteLate, FS_Subset
        <5> QED
          BY <2>1, <2>6, <4>1, <4>2, <5>1, <5>2, FiniteLate
      <4> QED
        BY <2>2, <4>3, <4>4
    <3> QED
      BY <2>2, <3>1, <3>2
  <2> QED
    BY <2>3, <2>4, <2>7 DEF Behind
<1> QED
  BY <1>1, <1>2, <1>3, <1>4, <1>5 DEF Next, Call

\* How often a bar that reached 100% falls back: once for each other worker.
LateBounded ==
    \A i \in 1..Len(shown) :
        shown[i] >= Total =>
            Cardinality({j \in i+1..Len(shown) : shown[j] < Total})
                <= Cardinality(Worker) - 1

\* The final update need not be the last one, although progress.rs:29-30 says
\* that it is always delivered "so a UI never sticks at 99%" and the test beside
\* it looks at the last update of a single thread: a call that passed the check
\* earlier can emit after it.  After the final update at most one update of
\* every other worker falls back below the total: a call that passed the final
\* check before the counter reached the total emits once and its worker's next
\* call is final.
THEOREM LateIsBounded == Spec => []LateBounded
<1>1. Init => Behind
  BY DEF Init, Behind
<1>2. IInv => TypeOK
  BY DEF IInv
<1>3. TypeOK /\ Behind => LateBounded
  <2> SUFFICES ASSUME TypeOK, Behind, NEW i \in 1..Len(shown), shown[i] >= Total
               PROVE  Cardinality(Late(i)) <= Cardinality(Worker) - 1
    BY DEF LateBounded, Late
  <2>1. Cardinality(Late(i)) + Cardinality(LateBusy) + 1 <= Cardinality(Worker)
    BY DEF Behind
  <2>2. Cardinality(Late(i)) \in Nat
    BY FiniteLate DEF TypeOK
  <2> QED
    BY <2>1, <2>2, FiniteLate
<1> QED
  BY <1>1, <1>2, <1>3, Invariance, BehindStep, PTL DEF Spec

-----------------------------------------------------------------------------
(* The final update. *)

Reached == \E i \in 1..Len(shown) : shown[i] >= Total

\* A call that saw the total goes straight from the clock to the sink.
OnItsWay == \E w \in Worker : pc[w] \in {"elapsed", "emit"} /\ done[w] >= Total

FinalKept == counter >= Total /\ pending # Item => Reached \/ OnItsWay

\* When no call is under way the sink has the final update, if a call has
\* brought the counter to the total or past it.
FinalShown == counter >= Total /\ pending # Item /\ Busy = {} => Reached

LEMMA FinalKeptStep ==
    ASSUME TypeOK, FinalKept, [Next]_vars
    PROVE  FinalKept'
<1> USE ConstantsAssumption DEF TypeOK
<1>1. CASE Tick \/ UNCHANGED vars
  BY <1>1 DEF Tick, vars, FinalKept, Reached, OnItsWay
<1>2. ASSUME NEW w \in Worker, Count(w) PROVE FinalKept'
  <2>1. counter' = done'[w] /\ pc'[w] = "elapsed"
    BY <1>2 DEF Count, Goto
  <2> QED
    BY <2>1 DEF FinalKept, OnItsWay
<1>3. ASSUME NEW w \in Worker, Elapsed(w) \/ Load(w) \/ Swap(w) PROVE FinalKept'
  <2>1. UNCHANGED <<counter, pending, shown, done>>
    BY <1>3 DEF Elapsed, Load, Swap
  <2>2. \A v \in Worker : pc[v] \in {"elapsed", "emit"} /\ done[v] >= Total => pc'[v] \in {"elapsed", "emit"}
    BY <1>3 DEF Elapsed, Load, Swap, Goto, IsFinal
  <2>3. OnItsWay => OnItsWay'
    BY <2>1, <2>2 DEF OnItsWay
  <2>4. Reached' = Reached
    BY <2>1 DEF Reached
  <2> QED
    BY <2>1, <2>3, <2>4 DEF FinalKept
<1>4. ASSUME NEW w \in Worker, Emit(w) PROVE FinalKept'
  <2>1. shown' = Append(shown, done[w]) /\ UNCHANGED <<counter, pending, done>>
    BY <1>4 DEF Emit
  <2>2. /\ Len(shown) \in Nat /\ Len(shown') = Len(shown) + 1
        /\ shown'[Len(shown) + 1] = done[w]
        /\ \A i \in 1..Len(shown) : shown'[i] = shown[i]
    BY <2>1
  <2>3. Reached => Reached'
    BY <2>2 DEF Reached
  <2>4. ASSUME done[w] >= Total PROVE Reached'
    <3>1. Len(shown) + 1 \in 1..Len(shown')
      BY <2>2
    <3> QED
      BY <2>2, <2>4, <3>1 DEF Reached
  <2>5. \A v \in Worker : v # w => pc'[v] = pc[v]
    BY <1>4 DEF Emit, Goto
  <2>6. OnItsWay => OnItsWay' \/ Reached'
    BY <2>1, <2>4, <2>5 DEF OnItsWay
  <2> QED
    BY <2>1, <2>3, <2>6 DEF FinalKept
<1> QED
  BY <1>1, <1>2, <1>3, <1>4 DEF Next, Call

\* The final update is never dropped by the throttle and never lost in a
\* race: once the workers are idle it has been shown (a late one may have
\* followed it), whichever of them brought the counter to the total.  FullShown
\* adds that they get there.
THEOREM FinalIsShown == Spec => []FinalShown
<1>1. Init => FinalKept
  BY DEF Init, FinalKept
<1>2. IInv => TypeOK
  BY DEF IInv
<1>3. FinalKept => FinalShown
  BY DEF FinalKept, FinalShown, OnItsWay, Busy
<1> QED
  BY <1>1, <1>2, <1>3, Invariance, FinalKeptStep, PTL DEF Spec
=============================================================================
