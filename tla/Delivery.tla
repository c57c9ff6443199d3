----------------------------- MODULE Delivery ------------------------------
(***************************************************************************)
(* What a transfer promises, without streams, messages or records: chunks  *)
(* reach the receiver in any order and stay there, over any number of      *)
(* attempts; the receiver calls an attempt complete only when it has all   *)
(* of them, and the sender only after the receiver did.  Either side may   *)
(* fail at any time, the sender also after the receiver has completed.     *)
(***************************************************************************)
CONSTANT Chunk

VARIABLES
    got,        \* chunks the receiver has
    receiver,   \* "working", "ok" or "failed"
    sender      \* the same for the sender

vars == <<got, receiver, sender>>

Init ==
    /\ got \subseteq Chunk
    /\ receiver = "working"
    /\ sender = "working"

Deliver ==
    /\ \E c \in Chunk : got' = got \cup {c}
    /\ UNCHANGED <<receiver, sender>>

ReceiverOk ==
    /\ receiver = "working"
    /\ got = Chunk
    /\ receiver' = "ok"
    /\ UNCHANGED <<got, sender>>

ReceiverFails ==
    /\ receiver = "working"
    /\ receiver' = "failed"
    /\ UNCHANGED <<got, sender>>

SenderOk ==
    /\ sender = "working"
    /\ receiver = "ok"
    /\ sender' = "ok"
    /\ UNCHANGED <<got, receiver>>

SenderFails ==
    /\ sender = "working"
    /\ sender' = "failed"
    /\ UNCHANGED <<got, receiver>>

Retry ==
    /\ receiver # "working"
    /\ sender # "working"
    /\ receiver' = "working"
    /\ sender' = "working"
    /\ UNCHANGED got

Next == Deliver \/ ReceiverOk \/ ReceiverFails \/ SenderOk \/ SenderFails \/ Retry

Spec == Init /\ [][Next]_vars
=============================================================================
