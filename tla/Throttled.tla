----------------------------- MODULE Throttled -----------------------------
(***************************************************************************)
(* Progress reporting of one transfer (progress.rs): the stream workers    *)
(* add each chunk they finish to a shared byte counter and call            *)
(* Throttled::on_progress, which forwards at most one update per interval  *)
(* and every final one.  The calls run on several threads, so each atomic  *)
(* access of a call is a step of its own; all of them are to single        *)
(* locations, for which Relaxed accesses are totally ordered.              *)
(*                                                                         *)
(* Seeds holds the counter's values when the streams start: zero for the   *)
(* sender, the clamped resumed bytes for the receiver, which may count a   *)
(* short last chunk as a full one.  A seed and the chunks still to come    *)
(* therefore add up to Total or more (module Transfer).                    *)
(***************************************************************************)
EXTENDS Naturals, Sequences, FiniteSets

CONSTANTS
    Worker,    \* the stream workers
    Item,      \* the chunks still to come
    Length,    \* Length[c]: bytes of chunk c
    Seeds,
    Total,     \* bytes_total
    Interval,  \* Throttled.interval in clock ticks
    NEVER,     \* the sentinel of last_emit_micros
    MaxTime    \* bound: ticks of the clock

ASSUME ConstantsAssumption ==
    /\ IsFiniteSet(Worker)
    /\ IsFiniteSet(Item)
    /\ Length \in [Item -> Nat \ {0}]
    /\ Seeds \subseteq Nat
    /\ Total \in Nat \ {0}
    /\ Interval \in Nat \ {0}
    /\ NEVER \notin Nat
    /\ MaxTime \in Nat

VARIABLES
    clock,    \* ticks since Throttled.origin
    counter,  \* the shared byte counter
    pending,  \* chunks no worker has counted yet
    last,     \* last_emit_micros
    pc,       \* where each worker is
    done,     \* bytes_done of the call a worker is in
    now,      \* the time that call read
    seen,     \* the last_emit_micros that call loaded
    \* history
    stamps,   \* the times stored by the swaps that succeeded, in order
    shown     \* bytes_done of the updates the inner sink got, in order

vars == <<clock, counter, pending, last, pc, done, now, seen, stamps, shown>>

TypeOK ==
    /\ clock \in 0..MaxTime
    /\ counter \in Nat
    /\ pending \subseteq Item
    /\ last \in 0..MaxTime \cup {NEVER}
    /\ pc \in [Worker -> {"idle", "elapsed", "load", "swap", "emit"}]
    /\ done \in [Worker -> Nat]
    /\ now \in [Worker -> 0..MaxTime]
    /\ seen \in [Worker -> 0..MaxTime \cup {NEVER}]
    /\ stamps \in Seq(0..MaxTime)
    /\ shown \in Seq(Nat)

Init ==
    /\ clock = 0
    /\ counter \in Seeds
    /\ pending = Item
    /\ last = NEVER
    /\ pc = [w \in Worker |-> "idle"]
    /\ done = [w \in Worker |-> 0]
    /\ now = [w \in Worker |-> 0]
    /\ seen = [w \in Worker |-> NEVER]
    /\ stamps = <<>>
    /\ shown = <<>>

Goto(w, label) == pc' = [pc EXCEPT ![w] = label]

-----------------------------------------------------------------------------
\* fetch_add.
Added(n) == counter + n

\* A worker finished a chunk: fetch_add, and on_progress is entered.
Count(w) ==
    \E c \in pending :
        /\ pc[w] = "idle"
        /\ pending' = pending \ {c}
        /\ counter' = Added(Length[c])
        /\ done' = [done EXCEPT ![w] = Added(Length[c])]
        /\ Goto(w, "elapsed")
        /\ UNCHANGED <<clock, last, now, seen, stamps, shown>>

\* Mutant of IsFinal: past the total only.
IsFinalPast(d) == d > Total

IsFinal(d) == Total > 0 /\ d >= Total

\* The clock is read; a final update skips the rate limit.
Elapsed(w) ==
    /\ pc[w] = "elapsed"
    /\ now' = [now EXCEPT ![w] = clock]
    /\ Goto(w, IF IsFinal(done[w]) THEN "emit" ELSE "load")
    /\ UNCHANGED <<clock, counter, pending, last, done, seen, stamps, shown>>

SaturatingSub(a, b) == IF a < b THEN 0 ELSE a - b

\* Mutant of TooSoon: no sentinel, the first update is compared with time 0.
TooSoonFromZero(l, t) ==
    SaturatingSub(t, IF l = NEVER THEN 0 ELSE l) < Interval

TooSoon(l, t) == l # NEVER /\ SaturatingSub(t, l) < Interval

\* last_emit_micros is loaded and compared with the clock.
Load(w) ==
    /\ pc[w] = "load"
    /\ seen' = [seen EXCEPT ![w] = last]
    /\ Goto(w, IF TooSoon(last, now[w]) THEN "idle" ELSE "swap")
    /\ UNCHANGED <<clock, counter, pending, last, done, now, stamps, shown>>

\* Mutant of Unchanged: a plain store instead of compare_exchange.
UnchangedAlways(w) == TRUE

\* compare_exchange finds the value that was loaded.
Unchanged(w) == last = seen[w]

\* Mutant of Stamp: the end of the interval is stored, not its start.
StampAhead(w) == now[w] + Interval

Stamp(w) == now[w]

\* compare_exchange: the worker that finds what it loaded stores its time and
\* emits; the others return.
Swap(w) ==
    /\ pc[w] = "swap"
    /\ IF Unchanged(w)
         THEN /\ last' = Stamp(w)
              /\ stamps' = Append(stamps, now[w])
              /\ Goto(w, "emit")
         ELSE /\ Goto(w, "idle")
              /\ UNCHANGED <<last, stamps>>
    /\ UNCHANGED <<clock, counter, pending, done, now, seen, shown>>

\* The inner sink is called.
Emit(w) ==
    /\ pc[w] = "emit"
    /\ shown' = Append(shown, done[w])
    /\ Goto(w, "idle")
    /\ UNCHANGED <<clock, counter, pending, last, done, now, seen, stamps>>

Tick ==
    /\ clock < MaxTime
    /\ clock' = clock + 1
    /\ UNCHANGED <<counter, pending, last, pc, done, now, seen, stamps, shown>>

-----------------------------------------------------------------------------
Call(w) == Count(w) \/ Elapsed(w) \/ Load(w) \/ Swap(w) \/ Emit(w)

Next == Tick \/ \E w \in Worker : Call(w)

Spec == Init /\ [][Next]_vars

\* Worker threads keep running, and each of them has chunks as long as there
\* are any (the peer keeps sending).
FairSpec == Spec /\ \A w \in Worker : WF_vars(Call(w))

-----------------------------------------------------------------------------
(* Properties. *)

\* "Keeps the rate honest": two updates that are not final were stamped a
\* whole interval apart, however the calls of the workers interleave.
RateHonest ==
    \A i, j \in 1..Len(stamps) : i < j => stamps[j] >= stamps[i] + Interval

Busy == {w \in Worker : pc[w] # "idle"}
Emitting == {w \in Worker : pc[w] = "emit"}

\* The first update is never withheld: as soon as one call has returned, the
\* sink has been called or a worker is about to call it.
FirstShown ==
    Cardinality(Item \ pending) > Cardinality(Busy)
        => shown # <<>> \/ Emitting # {}

\* The final update always reaches the sink, whatever the throttle dropped
\* before it and whichever worker brings the counter to the total.  It need not
\* be the last one: a call that passed the check before it may lose the
\* processor and emit after it (LateBounded in Throttled_proofs).
FullShown == <>(\E i \in 1..Len(shown) : shown[i] >= Total)
=============================================================================
