------------------------------ MODULE LossyFifo ------------------------------
(* What a line of text sent over the TCP link is promised: lines leave in    *)
(* the order they were queued, each at most once; the one in front may be    *)
(* lost.                                                                     *)
EXTENDS Sequences

CONSTANT Message

VARIABLES
    pending,     \* queued and not yet sent or lost
    delivered    \* handed to the network, oldest first

Init == pending = <<>> /\ delivered = <<>>

Queue(m) == pending' = Append(pending, m) /\ UNCHANGED delivered

Deliver ==
    /\ pending # <<>>
    /\ delivered' = Append(delivered, Head(pending))
    /\ pending' = Tail(pending)

Lose == pending # <<>> /\ pending' = Tail(pending) /\ UNCHANGED delivered

Next == (\E m \in Message : Queue(m)) \/ Deliver \/ Lose

Spec == Init /\ [][Next]_<<pending, delivered>>
=============================================================================
