--------------------------- MODULE EngineSession ---------------------------
(***************************************************************************)
(* The session object the host app holds (aetherlink-ffi/src/lib.rs): four *)
(* start_* methods, cancel() and the background task that runs a transfer  *)
(* and reports its outcome.  They share an atomic flag, the session slot,  *)
(* and two mutexes, each held for one statement only, so every statement   *)
(* is a step.                                                              *)
(*                                                                         *)
(* The transfer itself is one step, Ready: the last poll of its future.    *)
(* abort() stops a task only between two polls, so it has no effect on a   *)
(* task whose future is ready and which goes on to report.  The workers an *)
(* aborted transfer leaves behind are in StagingFile.                      *)
(***************************************************************************)
EXTENDS Naturals, FiniteSets

CONSTANTS
    Start,   \* the calls of a start method
    Host,    \* those of them that host the network
    Cancel,  \* the calls of cancel
    Serial,  \* does the app make its calls one after the other
    None

ASSUME CallsAssumption ==
    /\ Host \subseteq Start
    /\ Start \cap Cancel = {}
    /\ None \notin Start
    /\ Serial \in BOOLEAN
    /\ IsFiniteSet(Start) /\ IsFiniteSet(Cancel)

VARIABLES
    running,   \* EngineSession.running: the session slot
    state,     \* EngineSession.state
    task,      \* EngineSession.task: the start call whose handle it holds
    pc,        \* where each call is
    transfer,  \* where the task of each start call is
    begun,     \* Listening and Transferring events the observer has had
    ended,     \* Completed, Failed and Cancelled events it has had
    owner,     \* history: the start call that claimed the slot last
    raced      \* history: cancel() freed the slot of a transfer it did not stop

vars == <<running, state, task, pc, transfer, begun, ended, owner, raced>>

Call == Start \cup Cancel
Over == {"idle", "busy", "refused", "leaked", "returned"}
SessionState == {"Idle", "Listening", "Transferring", "Cancelled"}

TypeOK ==
    /\ running \in BOOLEAN
    /\ state \in SessionState
    /\ task \in Start \cup {None}
    /\ pc \in [Call -> Over \cup {"claim", "bind", "announce", "notify", "spawn",
                                  "store", "swap"}]
    /\ transfer \in [Start -> {"none", "running", "ready", "report", "reported", "aborted"}]
    /\ begun \in 0..Cardinality(Start)
    /\ ended \in 0..Cardinality(Call)
    /\ owner \in Start \cup {None}
    /\ raced \in BOOLEAN

Init ==
    /\ running = FALSE
    /\ state = "Idle"
    /\ task = None
    /\ pc = [c \in Call |-> "idle"]
    /\ transfer = [i \in Start |-> "none"]
    /\ begun = 0
    /\ ended = 0
    /\ owner = None
    /\ raced = FALSE

Goto(c, label) == pc' = [pc EXCEPT ![c] = label]
MayCall == Serial => \A c \in Call : pc[c] \in Over
FreeSlot == running' = FALSE /\ owner' = None

-----------------------------------------------------------------------------
(* The start methods. *)

\* The call is made; a client's fingerprint is parsed before anything else.
Enter(i) ==
    /\ pc[i] = "idle"
    /\ MayCall
    /\ \/ Goto(i, "claim")
       \/ i \notin Host /\ Goto(i, "refused")
    /\ UNCHANGED <<running, state, task, transfer, begun, ended, owner, raced>>

\* Mutant of Claim: a load instead of a swap.
ClaimByLoad(i) ==
    /\ pc[i] = "claim"
    /\ Goto(i, IF running THEN "busy" ELSE IF i \in Host THEN "bind" ELSE "announce")
    /\ UNCHANGED <<running, state, task, transfer, begun, ended, owner, raced>>

\* claim
Claim(i) ==
    /\ pc[i] = "claim"
    /\ IF running
         THEN Goto(i, "busy") /\ UNCHANGED <<running, owner>>
         ELSE /\ Goto(i, IF i \in Host THEN "bind" ELSE "announce")
              /\ running' = TRUE
              /\ owner' = i
    /\ UNCHANGED <<state, task, transfer, begun, ended, raced>>

\* Mutant of BindHost: a failed bind keeps the slot.
BindHostKeeping(i) ==
    /\ pc[i] = "bind"
    /\ Goto(i, "announce") \/ Goto(i, "leaked") \/ Goto(i, "refused")
    /\ UNCHANGED <<running, state, task, transfer, begun, ended, owner, raced>>

\* bind_host after the claim: a bind that fails hands the slot back, an
\* identity or a port that cannot be had does not.
BindHost(i) ==
    /\ pc[i] = "bind"
    /\ \/ Goto(i, "announce") /\ UNCHANGED <<running, owner>>
       \/ Goto(i, "refused") /\ FreeSlot
       \/ Goto(i, "leaked") /\ UNCHANGED <<running, owner>>
    /\ UNCHANGED <<state, task, transfer, begun, ended, raced>>

\* set_state, under the lock.
Announce(i) ==
    /\ pc[i] = "announce"
    /\ state' = IF i \in Host THEN "Listening" ELSE "Transferring"
    /\ Goto(i, "notify")
    /\ UNCHANGED <<running, task, transfer, begun, ended, owner, raced>>

\* set_state's callback.
Notify(i) ==
    /\ pc[i] = "notify"
    /\ begun' = begun + 1
    /\ Goto(i, "spawn")
    /\ UNCHANGED <<running, state, task, transfer, ended, owner, raced>>

\* spawn: the task is on the runtime before its handle is stored.
Spawn(i) ==
    /\ pc[i] = "spawn"
    /\ transfer' = [transfer EXCEPT ![i] = "running"]
    /\ Goto(i, "store")
    /\ UNCHANGED <<running, state, task, begun, ended, owner, raced>>

\* The handle is stored; one that was there is dropped, which detaches it.
StoreHandle(i) ==
    /\ pc[i] = "store"
    /\ task' = i
    /\ Goto(i, "returned")
    /\ UNCHANGED <<running, state, transfer, begun, ended, owner, raced>>

-----------------------------------------------------------------------------
(* cancel *)

\* The handle is taken and its task aborted.
Take(c) ==
    /\ pc[c] = "idle"
    /\ MayCall
    /\ task' = None
    /\ transfer' = [i \in Start |->
                      IF i = task /\ transfer[i] = "running" THEN "aborted" ELSE transfer[i]]
    /\ Goto(c, "swap")
    /\ UNCHANGED <<running, state, begun, ended, owner, raced>>

\* Mutant of Swap: the slot is freed without a word.
SwapSilently(c) ==
    /\ pc[c] = "swap"
    /\ FreeSlot
    /\ raced' = (raced \/ (running /\ transfer[owner] # "aborted"))
    /\ Goto(c, "returned")
    /\ UNCHANGED <<state, task, transfer, begun, ended>>

\* The slot is freed, whoever holds it.
Swap(c) ==
    /\ pc[c] = "swap"
    /\ FreeSlot
    /\ raced' = (raced \/ (running /\ transfer[owner] # "aborted"))
    /\ Goto(c, IF running THEN "announce" ELSE "returned")
    /\ UNCHANGED <<state, task, transfer, begun, ended>>

AnnounceCancel(c) ==
    /\ pc[c] = "announce"
    /\ state' = "Cancelled"
    /\ Goto(c, "notify")
    /\ UNCHANGED <<running, task, transfer, begun, ended, owner, raced>>

NotifyCancel(c) ==
    /\ pc[c] = "notify"
    /\ ended' = ended + 1
    /\ Goto(c, "returned")
    /\ UNCHANGED <<running, state, task, transfer, begun, owner, raced>>

-----------------------------------------------------------------------------
(* The background task. *)

\* The transfer is over, one way or the other.
Ready(i) ==
    /\ transfer[i] = "running"
    /\ transfer' = [transfer EXCEPT ![i] = "ready"]
    /\ UNCHANGED <<running, state, task, pc, begun, ended, owner, raced>>

\* Reporter: the slot is freed, whoever holds it, ...
Release(i) ==
    /\ transfer[i] = "ready"
    /\ FreeSlot
    /\ transfer' = [transfer EXCEPT ![i] = "report"]
    /\ UNCHANGED <<state, task, pc, begun, ended, raced>>

\* Mutant of Report: reports again and again.
ReportAgain(i) ==
    /\ transfer[i] = "report"
    /\ ended' = ended + 1
    /\ UNCHANGED <<running, state, task, pc, transfer, begun, owner, raced>>

\* ... then the observer hears of it.  EngineSession.state is not written.
Report(i) ==
    /\ transfer[i] = "report"
    /\ ended' = ended + 1
    /\ transfer' = [transfer EXCEPT ![i] = "reported"]
    /\ UNCHANGED <<running, state, task, pc, begun, owner, raced>>

-----------------------------------------------------------------------------
StartStep(i) ==
    \/ Enter(i) \/ Claim(i) \/ BindHost(i) \/ Announce(i) \/ Notify(i)
    \/ Spawn(i) \/ StoreHandle(i)
CancelStep(c) == Take(c) \/ Swap(c) \/ AnnounceCancel(c) \/ NotifyCancel(c)
TaskStep(i) == Ready(i) \/ Release(i) \/ Report(i)

Next ==
    \/ \E i \in Start : StartStep(i) \/ TaskStep(i)
    \/ \E c \in Cancel : CancelStep(c)

Spec == Init /\ [][Next]_vars

-----------------------------------------------------------------------------
(* Properties. *)

\* Start call i has claimed the session and its transfer is not over.
Holding(i) ==
    \/ pc[i] \in {"bind", "announce", "notify", "spawn"}
    \/ transfer[i] \in {"running", "ready"}

Settled ==
    /\ \A c \in Call : pc[c] \in Over
    /\ \A i \in Start : transfer[i] \in {"none", "reported", "aborted"}

\* One session at a time, however many threads call start_*, unless cancel()
\* has freed the slot of a transfer it was too early or too late to stop.
Exclusive ==
    ~raced => \A i, j \in Start : Holding(i) /\ Holding(j) => i = j

\* The session is reusable: with no call and no transfer in progress the slot
\* is free, whatever cancel() and late reports did to it, unless bind_host
\* failed after the claim for another reason than the bind.
SlotFree == Settled /\ running => pc[owner] = "leaked"

\* Every session announced to the observer gets one final event, and none
\* gets two, unless cancel() has raced.
OneOutcome ==
    ~raced => ended <= begun /\ (Settled => ended = begun)

-----------------------------------------------------------------------------
\* STATUS.md: only one session at a time, a second concurrent start_* throws
\* Busy.  Stated of the transfers that are running.
OneAtATime ==
    \A i, j \in Start : transfer[i] = "running" /\ transfer[j] = "running" => i = j
=============================================================================
