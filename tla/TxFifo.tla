------------------------------- MODULE TxFifo -------------------------------
(***************************************************************************)
(* What the transmit path promises: a queue of at most Capacity packets    *)
(* that leave in the order in which they were accepted, each exactly once, *)
(* and queues of ports that are stopped only while a packet is under way   *)
(* whose completion can restart them.                                      *)
(***************************************************************************)
EXTENDS Naturals, Sequences

CONSTANTS Ports, Skbs, Capacity

VARIABLES
    fifo,    \* the packets accepted and not yet released, oldest first
    stopped  \* the ports whose queue is stopped

vars == <<fifo, stopped>>

Init == fifo = <<>> /\ stopped = {}

Accept(s) ==
    /\ Len(fifo) < Capacity
    /\ \A k \in 1..Len(fifo) : fifo[k] # s
    /\ fifo' = Append(fifo, s)
    /\ UNCHANGED stopped

Release ==
    /\ fifo # <<>>
    /\ fifo' = Tail(fifo)
    /\ UNCHANGED stopped

Stop(p) ==
    /\ fifo # <<>>
    /\ stopped' = stopped \cup {p}
    /\ UNCHANGED fifo

Wake(p) ==
    /\ stopped' = stopped \ {p}
    /\ UNCHANGED fifo

Next ==
    \/ \E s \in Skbs : Accept(s)
    \/ Release
    \/ \E p \in Ports : Stop(p) \/ Wake(p)

SafetySpec == Init /\ [][Next]_vars

(* What was accepted is released as long as there is something to release. *)
Spec == SafetySpec /\ WF_vars(Release)
=============================================================================
