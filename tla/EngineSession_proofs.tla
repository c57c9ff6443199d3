------------------------ MODULE EngineSession_proofs ------------------------
(***************************************************************************)
(* Proofs about EngineSession, for any number of start and cancel calls on *)
(* any threads.  The slot names its owner; as long as no cancel() has      *)
(* raced, only the owner can be holding the session (Sole); and a slot     *)
(* that is taken always has somebody left to free it (Slot): its owner, or *)
(* the cancel() that stopped the owner.  The events the observer has had   *)
(* are counted by the calls and transfers that sent them (Ledger): an      *)
(* outcome is a report or an abort, and an abort is told of once the slot  *)
(* of the aborted transfer is freed.                                       *)
(***************************************************************************)
EXTENDS EngineSession, FiniteSetTheorems, TLAPS

Types ==
    /\ running \in BOOLEAN
    /\ state \in SessionState
    /\ task \in Start \cup {None}
    /\ pc \in [Call -> Over \cup {"claim", "bind", "announce", "notify", "spawn",
                                  "store", "swap"}]
    /\ transfer \in [Start -> {"none", "running", "ready", "report", "reported", "aborted"}]
    /\ begun \in Nat
    /\ ended \in Nat
    /\ owner \in Start \cup {None}
    /\ raced \in BOOLEAN

\* The flag and the owner agree.
Owned == running <=> owner # None

\* A transfer exists only once its start call has spawned it.
Spawned == \A i \in Start : transfer[i] # "none" => pc[i] \in {"store", "returned"}

\* Only the owner holds the session.
Sole == ~raced => \A i \in Start : Holding(i) => owner = i

Stopping == \E c \in Cancel : pc[c] = "swap"

\* Somebody will free a slot that is taken.
Slot ==
    running => \/ Holding(owner)
               \/ pc[owner] = "leaked"
               \/ transfer[owner] = "aborted" /\ Stopping

\* A start call past its spawn has a transfer.
HasTransfer == \A i \in Start : pc[i] \in {"store", "returned"} => transfer[i] # "none"

IInv == Types /\ Owned /\ Spawned /\ HasTransfer /\ Sole /\ Slot

-----------------------------------------------------------------------------
LEMMA Initially == Init => IInv
<1> SUFFICES ASSUME Init PROVE IInv
  OBVIOUS
<1>1. Types
  BY DEF Init, Types, Over, SessionState
<1>2. Owned /\ Spawned /\ HasTransfer /\ Slot
  BY DEF Init, Owned, Spawned, HasTransfer, Slot, Call
<1>3. Sole
  BY DEF Init, Sole, Holding, Call
<1> QED
  BY <1>1, <1>2, <1>3 DEF IInv

LEMMA TypesNext == Types /\ [Next]_vars => Types'
<1> SUFFICES ASSUME Types, [Next]_vars PROVE Types'
  OBVIOUS
<1> USE DEF Types, Goto, FreeSlot, Over, Call, SessionState
<1>1. CASE UNCHANGED vars
  BY <1>1 DEF vars
<1>2. ASSUME NEW i \in Start, StartStep(i) PROVE Types'
  <2>1. CASE Enter(i)
    BY <2>1 DEF Enter
  <2>2. CASE Claim(i)
    BY <2>2 DEF Claim
  <2>3. CASE BindHost(i)
    BY <2>3 DEF BindHost
  <2>4. CASE Announce(i) \/ Notify(i) \/ Spawn(i) \/ StoreHandle(i)
    BY <2>4 DEF Announce, Notify, Spawn, StoreHandle
  <2> QED
    BY <1>2, <2>1, <2>2, <2>3, <2>4 DEF StartStep
<1>3. ASSUME NEW i \in Start, TaskStep(i) PROVE Types'
  <2>1. CASE Ready(i)
    BY <2>1 DEF Ready
  <2>2. CASE Release(i)
    BY <2>2 DEF Release
  <2>3. CASE Report(i)
    BY <2>3 DEF Report
  <2> QED
    BY <1>3, <2>1, <2>2, <2>3 DEF TaskStep
<1>4. ASSUME NEW c \in Cancel, CancelStep(c) PROVE Types'
  <2>1. CASE Take(c)
    BY <2>1 DEF Take
  <2>2. CASE Swap(c)
    BY <2>2 DEF Swap
  <2>3. CASE AnnounceCancel(c) \/ NotifyCancel(c)
    BY <2>3 DEF AnnounceCancel, NotifyCancel
  <2> QED
    BY <1>4, <2>1, <2>2, <2>3 DEF CancelStep
<1> QED
  BY <1>1, <1>2, <1>3, <1>4 DEF Next

-----------------------------------------------------------------------------
(* One lemma per step of a call or a task. *)

LEMMA StartKeeps ==
    ASSUME IInv, NEW i \in Start, StartStep(i)
    PROVE  (Owned /\ Spawned /\ HasTransfer /\ Sole /\ Slot)'
<1> USE CallsAssumption DEF IInv, Types, Owned, Spawned, HasTransfer, Sole, Slot, Holding,
                            Stopping, Goto, FreeSlot, Call
<1>1. CASE Enter(i)
  BY <1>1 DEF Enter
<1>2. CASE Claim(i)
  BY <1>2 DEF Claim
<1>3. CASE BindHost(i)
  BY <1>3 DEF BindHost
<1>4. CASE Announce(i)
  BY <1>4 DEF Announce
<1>5. CASE Notify(i)
  BY <1>5 DEF Notify
<1>6. CASE Spawn(i)
  BY <1>6 DEF Spawn
<1>7. CASE StoreHandle(i)
  BY <1>7 DEF StoreHandle
<1> QED
  BY <1>1, <1>2, <1>3, <1>4, <1>5, <1>6, <1>7 DEF StartStep

LEMMA TaskKeeps ==
    ASSUME IInv, NEW i \in Start, TaskStep(i)
    PROVE  (Owned /\ Spawned /\ HasTransfer /\ Sole /\ Slot)'
<1> USE CallsAssumption DEF IInv, Types, Owned, Spawned, HasTransfer, Sole, Slot, Holding,
                            Stopping, FreeSlot, Call
<1>1. CASE Ready(i)
  BY <1>1 DEF Ready
<1>2. CASE Release(i)
  BY <1>2 DEF Release
<1>3. CASE Report(i)
  BY <1>3 DEF Report
<1> QED
  BY <1>1, <1>2, <1>3 DEF TaskStep

LEMMA CancelKeeps ==
    ASSUME IInv, NEW c \in Cancel, CancelStep(c)
    PROVE  (Owned /\ Spawned /\ HasTransfer /\ Sole /\ Slot)'
<1> USE CallsAssumption DEF IInv, Types, Owned, Spawned, HasTransfer, Sole, Slot, Holding,
                            Stopping, Goto, FreeSlot, Call
<1>1. CASE Take(c)
  BY <1>1 DEF Take
<1>2. CASE Swap(c)
  BY <1>2 DEF Swap
<1>3. CASE AnnounceCancel(c)
  BY <1>3 DEF AnnounceCancel
<1>4. CASE NotifyCancel(c)
  BY <1>4 DEF NotifyCancel
<1> QED
  BY <1>1, <1>2, <1>3, <1>4 DEF CancelStep

LEMMA Inductive == IInv /\ [Next]_vars => IInv'
<1> SUFFICES ASSUME IInv, [Next]_vars PROVE IInv'
  OBVIOUS
<1>1. Types'
  BY TypesNext DEF IInv
<1>2. CASE UNCHANGED vars
  BY <1>2 DEF vars, IInv, Types, Owned, Spawned, HasTransfer, Sole, Slot, Holding, Stopping
<1>3. CASE Next
  BY <1>1, <1>3, StartKeeps, TaskKeeps, CancelKeeps DEF Next, IInv
<1> QED
  BY <1>2, <1>3

LEMMA InvariantHolds == Spec => []IInv
  BY Initially, Inductive, PTL DEF Spec

-----------------------------------------------------------------------------
(* The events the observer has had. *)

Begun == {i \in Start : pc[i] \in {"spawn", "store", "returned"}}
Reported == {i \in Start : transfer[i] = "reported"}
Aborted == {i \in Start : transfer[i] = "aborted"}
Told == {c \in Cancel : pc[c] = "returned"}
Telling == {c \in Cancel : pc[c] \in {"announce", "notify"}}

\* Who sent the events: every start call past its callback sent one, a final
\* event is from a report or from a cancel call, and without a race there is
\* one for every transfer reported or stopped, the ones about to be told of
\* included; a stopped transfer counts once its slot is freed.
Ledger ==
    /\ begun = Cardinality(Begun)
    /\ ended <= Cardinality(Reported \cup Told)
    /\ ~raced => ended + Cardinality(Telling)
                 = Cardinality(Reported) + Cardinality(Aborted \ {owner})

LEMMA Added ==
    ASSUME NEW S, IsFiniteSet(S), NEW x, x \notin S
    PROVE  Cardinality(S \cup {x}) = Cardinality(S) + 1
  BY FS_AddElement

LEMMA Sizes ==
    /\ IsFiniteSet(Begun) /\ IsFiniteSet(Reported) /\ IsFiniteSet(Aborted)
    /\ IsFiniteSet(Aborted \ {owner}) /\ IsFiniteSet(Told) /\ IsFiniteSet(Telling)
    /\ IsFiniteSet(Reported \cup Told)
    /\ Cardinality(Begun) \in Nat /\ Cardinality(Reported) \in Nat
    /\ Cardinality(Aborted \ {owner}) \in Nat /\ Cardinality(Telling) \in Nat
    /\ Cardinality(Reported \cup Told) \in Nat /\ Cardinality(Aborted) \in Nat
<1>1. IsFiniteSet(Begun) /\ IsFiniteSet(Reported) /\ IsFiniteSet(Aborted)
      /\ IsFiniteSet(Aborted \ {owner})
  <2>1. Begun \subseteq Start /\ Reported \subseteq Start /\ Aborted \subseteq Start
        /\ (Aborted \ {owner}) \subseteq Start
    BY DEF Begun, Reported, Aborted
  <2> QED
    BY <2>1, CallsAssumption, FS_Subset
<1>2. IsFiniteSet(Told) /\ IsFiniteSet(Telling)
  <2>1. Told \subseteq Cancel /\ Telling \subseteq Cancel
    BY DEF Told, Telling
  <2> QED
    BY <2>1, CallsAssumption, FS_Subset
<1>3. IsFiniteSet(Reported \cup Told)
  BY <1>1, <1>2, FS_Union
<1> QED
  BY <1>1, <1>2, <1>3, FS_CardinalityType

LEMMA LedgerInit == Init => Ledger
<1> SUFFICES ASSUME Init PROVE Ledger
  OBVIOUS
<1>1. Begun = {} /\ Reported = {} /\ Telling = {} /\ Told = {} /\ Aborted = {}
  BY DEF Init, Begun, Reported, Telling, Told, Aborted, Call
<1>2. Reported \cup Told = {} /\ Aborted \ {owner} = {}
  BY <1>1
<1> QED
  BY <1>1, <1>2, FS_EmptySet DEF Init, Ledger

LEMMA StartLedger ==
    ASSUME IInv, Ledger, NEW i \in Start, StartStep(i)
    PROVE  Ledger'
<1> USE CallsAssumption DEF IInv, Types, Goto, Call
<1>1. Told' = Told /\ Telling' = Telling
  BY DEF StartStep, Enter, Claim, BindHost, Announce, Notify, Spawn, StoreHandle, Told, Telling
<1>2. Reported' = Reported /\ Aborted' = Aborted
  <2>1. CASE Spawn(i)
    BY <2>1 DEF Spawn, Spawned, Reported, Aborted
  <2>2. CASE ~ Spawn(i)
    BY <2>2 DEF StartStep, Enter, Claim, BindHost, Announce, Notify, StoreHandle, Reported, Aborted
  <2> QED
    BY <2>1, <2>2
<1>4. CASE Notify(i)
  <2>1. Begun' = Begun \cup {i} /\ i \notin Begun
    BY <1>4 DEF Notify, Begun
  <2>2. begun' = Cardinality(Begun')
    BY <1>4, <2>1, Sizes, Added DEF Notify, Ledger
  <2> QED
    BY <1>1, <1>2, <1>4, <2>2 DEF Notify, Ledger
<1>5. CASE ~ Notify(i)
  <2>1. Begun' = Begun
    BY <1>5 DEF StartStep, Enter, Claim, BindHost, Announce, Spawn, StoreHandle, Begun
  <2>2. ~raced => (Aborted \ {owner})' = Aborted \ {owner}
    <3>1. CASE Claim(i)
      BY <1>2, <3>1 DEF Claim, Owned, Spawned, Aborted
    <3>2. CASE BindHost(i)
      BY <1>2, <3>2 DEF BindHost, FreeSlot, Sole, Holding, Spawned, Aborted
    <3>3. CASE owner' = owner
      BY <1>2, <3>3
    <3> QED
      BY <1>5, <3>1, <3>2, <3>3
         DEF StartStep, Enter, Announce, Spawn, StoreHandle
  <2>3. UNCHANGED <<begun, ended, raced>>
    BY <1>5 DEF StartStep, Enter, Claim, BindHost, Announce, Spawn, StoreHandle
  <2> QED
    BY <1>1, <1>2, <2>1, <2>2, <2>3 DEF Ledger
<1> QED
  BY <1>4, <1>5

LEMMA TaskLedger ==
    ASSUME IInv, Ledger, NEW i \in Start, TaskStep(i)
    PROVE  Ledger'
<1> USE CallsAssumption DEF IInv, Types, Call
<1>1. Begun' = Begun /\ Told' = Told /\ Telling' = Telling /\ UNCHANGED <<begun, raced>>
  BY DEF TaskStep, Ready, Release, Report, Begun, Told, Telling
<1>2. Aborted' = Aborted
  BY DEF TaskStep, Ready, Release, Report, Aborted
<1>3. CASE Ready(i)
  <2>1. Reported' = Reported
    BY <1>3 DEF Ready, Reported
  <2> QED
    BY <1>1, <1>2, <1>3, <2>1 DEF Ready, Ledger
<1>4. CASE Release(i)
  <2>1. Reported' = Reported
    BY <1>4 DEF Release, Reported
  <2>2. ~raced => (Aborted \ {owner})' = Aborted \ {owner}
    BY <1>2, <1>4 DEF Release, FreeSlot, Sole, Holding, Aborted
  <2> QED
    BY <1>1, <1>4, <2>1, <2>2 DEF Release, Ledger
<1>5. CASE Report(i)
  <2>1. Reported' = Reported \cup {i} /\ i \notin Reported
    BY <1>5 DEF Report, Reported
  <2>2. Cardinality(Reported') = Cardinality(Reported) + 1
    BY <2>1, Sizes, Added
  <2>3. Cardinality((Reported \cup Told)') = Cardinality(Reported \cup Told) + 1
    <3>1. (Reported \cup Told)' = (Reported \cup Told) \cup {i} /\ i \notin Reported \cup Told
      BY <1>1, <2>1 DEF Told
    <3> QED
      BY <3>1, Sizes, Added
  <2>4. (Aborted \ {owner})' = Aborted \ {owner}
    BY <1>2, <1>5 DEF Report
  <2>5. ended' = ended + 1
    BY <1>5 DEF Report
  <2> QED
    BY <1>1, <2>2, <2>3, <2>4, <2>5, Sizes DEF Ledger
<1> QED
  BY <1>3, <1>4, <1>5 DEF TaskStep

LEMMA CancelLedger ==
    ASSUME IInv, Ledger, NEW c \in Cancel, CancelStep(c)
    PROVE  Ledger'
<1> USE CallsAssumption DEF IInv, Types, Goto, Call
<1>1. Begun' = Begun /\ begun' = begun /\ Reported' = Reported
  BY DEF CancelStep, Take, Swap, AnnounceCancel, NotifyCancel, Begun, Reported
<1>2. CASE Take(c)
  <2>1. Told' = Told /\ Telling' = Telling
    BY <1>2 DEF Take, Told, Telling
  <2>2. ~raced => (Aborted \ {owner})' = Aborted \ {owner}
    BY <1>2 DEF Take, Sole, Holding, Aborted
  <2> QED
    BY <1>1, <1>2, <2>1, <2>2 DEF Take, Ledger
<1>3. CASE Swap(c)
  <2>1. Aborted' = Aborted /\ ended' = ended
    BY <1>3 DEF Swap, Aborted
  <2>2. ended' <= Cardinality((Reported \cup Told)')
    <3>1. Reported \cup Told \subseteq (Reported \cup Told)'
      BY <1>1, <1>3 DEF Swap, Told
    <3>2. IsFiniteSet((Reported \cup Told)')
      BY <1>1, CallsAssumption, FS_Subset, FS_Union, Sizes, Told' \subseteq Cancel DEF Told
    <3>3. Cardinality(Reported \cup Told) <= Cardinality((Reported \cup Told)')
      BY <3>1, <3>2, FS_Subset
    <3>4. Cardinality((Reported \cup Told)') \in Nat
      BY <3>2, FS_CardinalityType
    <3> QED
      BY <2>1, <3>3, <3>4, Sizes DEF Ledger
  <2>3. CASE ~ running
    <3>1. Telling' = Telling /\ (Aborted \ {owner})' = Aborted \ {owner} /\ raced' = raced
      BY <1>3, <2>1, <2>3 DEF Swap, FreeSlot, Owned, Telling, Aborted
    <3> QED
      BY <1>1, <2>1, <2>2, <3>1 DEF Ledger
  <2>4. CASE running /\ ~raced'
    <3>1. owner \in Aborted /\ ~raced
      BY <1>3, <2>4 DEF Swap, Owned, Aborted
    <3>2. (Aborted \ {owner})' = (Aborted \ {owner}) \cup {owner}
      BY <1>3, <2>1, <3>1 DEF Swap, FreeSlot, Aborted
    <3>3. Telling' = Telling \cup {c} /\ c \notin Telling
      BY <1>3, <2>4 DEF Swap, Telling
    <3>4. Cardinality(Telling') = Cardinality(Telling) + 1
      BY <3>3, Sizes, Added
    <3>5. Cardinality((Aborted \ {owner})') = Cardinality(Aborted \ {owner}) + 1
      BY <3>2, Sizes, Added
    <3> QED
      BY <1>1, <2>1, <2>2, <3>1, <3>4, <3>5, Sizes DEF Ledger
  <2>5. CASE raced'
    BY <1>1, <2>2, <2>5 DEF Ledger
  <2> QED
    BY <2>3, <2>4, <2>5
<1>4. CASE AnnounceCancel(c)
  <2>1. Told' = Told /\ Telling' = Telling /\ (Aborted \ {owner})' = Aborted \ {owner}
    BY <1>4 DEF AnnounceCancel, Told, Telling, Aborted
  <2> QED
    BY <1>1, <1>4, <2>1 DEF AnnounceCancel, Ledger
<1>5. CASE NotifyCancel(c)
  <2>1. (Aborted \ {owner})' = Aborted \ {owner} /\ ended' = ended + 1 /\ raced' = raced
    BY <1>5 DEF NotifyCancel, Aborted
  <2>2. Cardinality((Reported \cup Told)') = Cardinality(Reported \cup Told) + 1
    <3>1. Told' = Told \cup {c} /\ c \notin Told
      BY <1>5 DEF NotifyCancel, Told
    <3>2. (Reported \cup Told)' = (Reported \cup Told) \cup {c} /\ c \notin Reported \cup Told
      BY <1>1, <3>1 DEF Reported
    <3> QED
      BY <3>2, Sizes, Added
  <2>4. Cardinality(Telling') = Cardinality(Telling) - 1
    <3>1. Telling' = Telling \ {c} /\ c \in Telling
      BY <1>5 DEF NotifyCancel, Telling
    <3> QED
      BY <3>1, Sizes, FS_RemoveElement
  <2>5. ended' <= Cardinality((Reported \cup Told)')
    BY <2>1, <2>2, Sizes DEF Ledger
  <2>6. ~raced => ended' + Cardinality(Telling')
                  = Cardinality(Reported) + Cardinality(Aborted \ {owner})
    BY <2>1, <2>4, Sizes DEF Ledger
  <2> QED
    BY <1>1, <2>1, <2>5, <2>6 DEF Ledger
<1> QED
  BY <1>2, <1>3, <1>4, <1>5 DEF CancelStep

LEMMA LedgerHolds == Spec => [](IInv /\ Ledger)
<1>1. Ledger /\ IInv /\ [Next]_vars => Ledger'
  <2>1. ASSUME Ledger, UNCHANGED vars PROVE Ledger'
    BY <2>1 DEF vars, Ledger, Begun, Reported, Aborted, Told, Telling
  <2> QED
    BY <2>1, StartLedger, TaskLedger, CancelLedger DEF Next
<1> QED
  BY <1>1, LedgerInit, InvariantHolds, PTL DEF Spec

-----------------------------------------------------------------------------
\* claim()'s atomic swap admits one session at a time, as long as no cancel()
\* has freed the slot of a transfer it did not stop.
THEOREM OneSession == Spec => []Exclusive
<1>1. IInv => Exclusive
  BY DEF IInv, Sole, Exclusive
<1> QED
  BY <1>1, InvariantHolds, PTL

\* The slot is free when nothing is in progress, also after any race of
\* cancel() with starts and reports; only bind_host's other errors leak it.
THEOREM SessionReusable == Spec => []SlotFree
<1>1. IInv => SlotFree
  <2> SUFFICES ASSUME IInv, Settled, running PROVE pc[owner] = "leaked"
    BY DEF SlotFree
  <2>1. owner \in Start
    BY DEF IInv, Types, Owned
  <2>2. ~ Stopping
    BY DEF Settled, Stopping, Call, Over
  <2>3. ~ Holding(owner)
    BY <2>1 DEF Settled, Holding, Call, Over
  <2> QED
    BY <2>2, <2>3 DEF IInv, Slot
<1> QED
  BY <1>1, InvariantHolds, PTL

\* Every variable stays in its range; the observer has at most one event of
\* the start of each start call and one of the end from each call.
THEOREM TypeCorrect == Spec => []TypeOK
<1>1. IInv /\ Ledger => TypeOK
  <2> SUFFICES ASSUME IInv, Ledger PROVE TypeOK
    OBVIOUS
  <2>1. IsFiniteSet(Call)
    BY CallsAssumption, FS_Union DEF Call
  <2>2. Begun \subseteq Start /\ Reported \cup Told \subseteq Call
    BY DEF Begun, Reported, Told, Call
  <2>3. Cardinality(Begun) <= Cardinality(Start)
        /\ Cardinality(Reported \cup Told) <= Cardinality(Call)
    BY <2>1, <2>2, CallsAssumption, FS_Subset
  <2>4. Cardinality(Start) \in Nat /\ Cardinality(Call) \in Nat
    BY <2>1, CallsAssumption, FS_CardinalityType
  <2>5. begun \in 0..Cardinality(Start) /\ ended \in 0..Cardinality(Call)
    BY <2>3, <2>4, Sizes DEF IInv, Types, Ledger
  <2> QED
    BY <2>5 DEF IInv, Types, TypeOK
<1> QED
  BY <1>1, LedgerHolds, PTL

\* The observer never hears of more ends than starts, and of as many once
\* nothing is in progress: set_state's callbacks, the reporter and cancel()
\* together send one final event for every session, as long as no cancel()
\* has freed the slot of a transfer it did not stop.
THEOREM EverySessionEndsOnce == Spec => []OneOutcome
<1>1. IInv /\ Ledger => OneOutcome
  <2> SUFFICES ASSUME IInv, Ledger, ~raced
               PROVE  ended <= begun /\ (Settled => ended = begun)
    BY DEF OneOutcome
  <2>1. Reported \cup Aborted \subseteq Begun /\ Reported \cap Aborted = {}
    BY DEF IInv, Spawned, Reported, Aborted, Begun
  <2>2. Cardinality(Reported \cup Aborted) = Cardinality(Reported) + Cardinality(Aborted)
    <3>1. Cardinality(Reported \cup Aborted)
          = Cardinality(Reported) + Cardinality(Aborted) - Cardinality(Reported \cap Aborted)
      BY Sizes, FS_Union
    <3> QED
      BY <2>1, <3>1, FS_EmptySet, Sizes
  <2>3. Cardinality(Reported) + Cardinality(Aborted) <= Cardinality(Begun)
    BY <2>1, <2>2, Sizes, FS_Subset
  <2>4. Cardinality(Aborted \ {owner}) <= Cardinality(Aborted)
    BY Sizes, FS_Subset, Aborted \ {owner} \subseteq Aborted
  <2>5. ended <= begun
    BY <2>3, <2>4, Sizes DEF Ledger, IInv, Types
  <2>6. ASSUME Settled PROVE ended = begun
    <3>1. Telling = {}
      BY <2>6 DEF Settled, Telling, Call, Over
    <3>2. Begun = Reported \cup Aborted
      BY <2>1, <2>6 DEF Settled, Begun, Reported, Aborted, Call, Over, IInv, HasTransfer
    <3>3. owner \notin Aborted
      <4> SUFFICES ASSUME owner \in Aborted PROVE FALSE
        OBVIOUS
      <4>1. owner \in Start /\ transfer[owner] = "aborted"
        BY DEF Aborted
      <4>2. running /\ ~ Stopping
        BY <2>6, <4>1, CallsAssumption DEF IInv, Owned, Settled, Stopping, Call, Over
      <4>3. pc[owner] = "returned"
        BY <2>6, <4>1 DEF IInv, Spawned, Settled, Call, Over
      <4> QED
        BY <4>1, <4>2, <4>3 DEF IInv, Slot, Holding
    <3>4. Aborted \ {owner} = Aborted
      BY <3>3
    <3>5. Cardinality(Telling) = 0
      BY <3>1, FS_EmptySet
    <3>6. begun = Cardinality(Reported) + Cardinality(Aborted)
      BY <2>2, <3>2 DEF Ledger
    <3>7. ended + 0 = Cardinality(Reported) + Cardinality(Aborted)
      BY <3>4, <3>5 DEF Ledger
    <3> QED
      BY <3>6, <3>7, Sizes DEF IInv, Types
  <2> QED
    BY <2>5, <2>6
<1> QED
  BY <1>1, LedgerHolds, PTL
=============================================================================
