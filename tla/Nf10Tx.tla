------------------------------- MODULE Nf10Tx -------------------------------
(***************************************************************************)
(* The transmit path of the nf10 driver: nf10i_tx and nf10priv_xmit, run   *)
(* by one thread per port, the TX half of work_handler, and the card.      *)
(*                                                                         *)
(* The card has one ring of N transmit descriptors and one packet buffer   *)
(* of M cache lines for its four ports.  A transmitter reserves the next   *)
(* slot and the next lines of the buffer under tx_lock, fills in the       *)
(* driver's bookkeeping and then the descriptor outside the lock.  The     *)
(* card takes the descriptors in slot order and reports each one in the    *)
(* entry of the completion ring that has the slot's index.  The worker     *)
(* follows the completion ring, frees the packet, gives the space back and *)
(* restarts stopped queues when there is enough of it.                     *)
(*                                                                         *)
(* Pointers are counted in descriptors and cache lines (the code counts    *)
(* bytes, 64 to each), so  (ptr + 64) & mask  is  Wrap(ptr + 1, N).        *)
(***************************************************************************)
EXTENDS Integers, FiniteSets, FiniteSetsExt

CONSTANTS
    Ports,        \* the net devices, ndev[0..3]
    NoPort,
    Skbs,         \* packets; one that left the driver may be used again
    NoSkb,
    N,            \* mem_tx_dsc.cl_size, descriptors in the ring
    M,            \* mem_tx_pkt.cl_size, cache lines in the packet buffer
    Sizes,        \* the values of cl_size, the lines a packet may need
    StopLines,    \* 32: a queue is stopped when fewer lines are free
    WakeSlots,    \* 8: queues are woken only if so many slots are free ...
    WakeLines,    \* 4*32: ... and so many lines
    MaxMapErrors, \* bound on the failures of pci_map_single
    SlowCard      \* the card cannot complete a slot that is reused before
                  \* the worker has invalidated its previous completion

ASSUME RingAssumption ==
    /\ IsFiniteSet(Ports)
    /\ NoPort \notin Ports
    /\ NoSkb \notin Skbs
    /\ N \in Nat \ {0}
    /\ M \in Nat \ {0}
    /\ Sizes \subseteq 1..M
    /\ StopLines \in Nat
    /\ WakeSlots \in 1..N
    /\ WakeLines \in 0..M
    /\ MaxMapErrors \in Nat
    /\ SlowCard \in BOOLEAN

Slots == 0..(N - 1)
Lines == 0..(M - 1)

VARIABLES
    dscWr,     \* mem_tx_dsc.wr_ptr
    dscCnt,    \* mem_tx_dsc.cnt
    pktWr,     \* mem_tx_pkt.wr_ptr
    pktCnt,    \* mem_tx_pkt.cnt
    bk,        \* tx_bk_skb and tx_bk_size, by slot
    dsc,       \* the card's descriptors, by slot
    sending,   \* those the card has fetched and is working on, by slot
    dne,       \* the completion ring: the packet reported, NoSkb if invalid
    dneRd,     \* host_tx_dne.rd_ptr
    cardRd,    \* the slot the card fetches next
    cardDne,   \* the slot the card completes next
    stopped,   \* the ports whose queue is stopped
    txLock,    \* the port whose transmitter holds tx_lock
    pc, req,   \* where each port's transmitter is, and its local variables
    wpc,       \* where work_handler is
    wslot,     \* its local variable index
    toWake,    \* the ports its loop of lines 185-189 has still to look at
    owned,     \* the packets the driver has and has not freed
    mapErrors  \* the failed mappings so far

memVars  == <<dscWr, dscCnt, pktWr, pktCnt>>
cardVars == <<dsc, sending, dne, cardRd, cardDne>>
txVars   == <<pc, req, txLock>>
workVars == <<wpc, wslot, toWake, dneRd>>
vars     == <<memVars, cardVars, txVars, workVars, bk, stopped, owned, mapErrors>>

Reqs == [skb : Skbs \cup {NoSkb}, size : Sizes \cup {0}, slot : Slots, addr : Lines]
NoReq == [skb |-> NoSkb, size |-> 0, slot |-> 0, addr |-> 0]

Dscs == [skb : Skbs \cup {NoSkb}, addr : Lines, size : Sizes \cup {0}]
NoDsc == [skb |-> NoSkb, addr |-> 0, size |-> 0]

TypeOK ==
    /\ dscWr \in Slots /\ dneRd \in Slots /\ cardRd \in Slots /\ cardDne \in Slots
    /\ wslot \in Slots
    /\ pktWr \in Lines
    /\ dscCnt \in Int /\ pktCnt \in Int
    /\ bk \in [Slots -> [skb : Skbs \cup {NoSkb}, size : Sizes \cup {0}]]
    /\ dsc \in [Slots -> Dscs] /\ sending \in [Slots -> Dscs]
    /\ dne \in [Slots -> Skbs \cup {NoSkb}]
    /\ stopped \subseteq Ports
    /\ txLock \in Ports \cup {NoPort}
    /\ pc \in [Ports -> {"idle", "xmit", "count", "check", "stop", "bk", "dsc", "stats"}]
    /\ req \in [Ports -> Reqs]
    /\ wpc \in {"poll", "dec", "invalidate", "check", "wake"}
    /\ toWake \subseteq Ports
    /\ owned \subseteq Skbs
    /\ mapErrors \in 0..MaxMapErrors

Init ==
    /\ dscWr = 0 /\ dscCnt = 0 /\ pktWr = 0 /\ pktCnt = 0
    /\ bk = [i \in Slots |-> [skb |-> NoSkb, size |-> 0]]
    /\ dsc = [i \in Slots |-> NoDsc] /\ sending = [i \in Slots |-> NoDsc]
    /\ dne = [i \in Slots |-> NoSkb]
    /\ dneRd = 0 /\ cardRd = 0 /\ cardDne = 0
    /\ stopped = {}
    /\ txLock = NoPort
    /\ pc = [p \in Ports |-> "idle"]
    /\ req = [p \in Ports |-> NoReq]
    /\ wpc = "poll" /\ wslot = 0 /\ toWake = {}
    /\ owned = {}
    /\ mapErrors = 0

-----------------------------------------------------------------------------
(* Pointers and space.  The definitions marked as mutants are wrong        *)
(* versions of what follows them; no specification uses them.              *)

(* (ptr + 64 * n) & mask: the sum is less than twice the size of the ring. *)
Wrap(x, size) == IF x >= size THEN x - size ELSE x

RoomInBuffer(c) == pktCnt + c <= M                                  \* mutant
RoomInRing(c) == dscCnt + 1 <= N                                    \* mutant
RoomOffByOne(c) == dscCnt <= N /\ pktCnt + c <= M                   \* mutant

(* The test of lines 41-42. *)
Room(c) == dscCnt + 1 <= N /\ pktCnt + c <= M

(* The test of lines 67-68, negated as there. *)
Full == ~(dscCnt + 1 <= N /\ pktCnt + StopLines <= M)

CanWakeStrict == dscCnt + WakeSlots < N /\ pktCnt + WakeLines <= M  \* mutant

(* The test of lines 181-182. *)
CanWake == dscCnt + WakeSlots <= N /\ pktCnt + WakeLines <= M

-----------------------------------------------------------------------------
(* The transmitters: nf10i_tx(skb, dev) and nf10priv_xmit(card, skb, port) *)

Goto(p, label) == pc' = [pc EXCEPT ![p] = label]

(* The network stack hands a packet to a port whose queue is not stopped;  *)
(* it calls one transmitter of a port at a time.  A packet that is too big *)
(* is freed at once (lines 44-53), which changes nothing here.             *)
Xmit(p, s, c) ==
    /\ pc[p] = "idle" /\ p \notin stopped
    /\ s \notin owned
    /\ owned' = owned \cup {s}
    /\ req' = [req EXCEPT ![p] = [skb |-> s, size |-> c, slot |-> 0, addr |-> 0]]
    /\ Goto(p, "xmit")
    /\ UNCHANGED <<memVars, cardVars, workVars, txLock, bk, stopped, mapErrors>>

(* nf10priv_xmit returns -1 and nf10i_tx frees the packet.                 *)
Drop(p) ==
    /\ owned' = owned \ {req[p].skb}
    /\ req' = [req EXCEPT ![p] = NoReq]
    /\ Goto(p, "idle")

NoRoom(p) ==
    /\ pc[p] = "xmit" /\ txLock = NoPort
    /\ ~Room(req[p].size)
    /\ Drop(p)
    /\ UNCHANGED <<memVars, cardVars, workVars, txLock, bk, stopped, mapErrors>>

(* Both write pointers move before the packet is mapped (lines 45-49).     *)
Advance(c) ==
    /\ dscWr' = Wrap(dscWr + 1, N)
    /\ pktWr' = Wrap(pktWr + c, M)
    /\ UNCHANGED <<dscCnt, pktCnt>>

Reserve(p) ==
    /\ pc[p] = "xmit" /\ txLock = NoPort
    /\ Room(req[p].size)
    /\ Advance(req[p].size)
    /\ txLock' = p
    /\ req' = [req EXCEPT ![p].slot = dscWr, ![p].addr = pktWr]
    /\ Goto(p, "count")
    /\ UNCHANGED <<cardVars, workVars, bk, stopped, owned, mapErrors>>

MapErrorCounted(p) ==                                               \* mutant
    /\ pc[p] = "xmit" /\ txLock = NoPort
    /\ mapErrors < MaxMapErrors
    /\ Room(req[p].size)
    /\ dscWr' = Wrap(dscWr + 1, N) /\ pktWr' = Wrap(pktWr + req[p].size, M)
    /\ dscCnt' = dscCnt + 1 /\ pktCnt' = pktCnt + req[p].size
    /\ mapErrors' = mapErrors + 1
    /\ Drop(p)
    /\ UNCHANGED <<cardVars, workVars, txLock, bk, stopped>>

(* Lines 56-61: the pointers have moved, the counts have not and never     *)
(* will.                                                                   *)
MapError(p) ==
    /\ pc[p] = "xmit" /\ txLock = NoPort
    /\ mapErrors < MaxMapErrors
    /\ Room(req[p].size)
    /\ Advance(req[p].size)
    /\ mapErrors' = mapErrors + 1
    /\ Drop(p)
    /\ UNCHANGED <<cardVars, workVars, txLock, bk, stopped>>

(* Lines 63-64. *)
Count(p) ==
    /\ pc[p] = "count"
    /\ dscCnt' = dscCnt + 1
    /\ pktCnt' = pktCnt + req[p].size
    /\ Goto(p, "check")
    /\ UNCHANGED <<dscWr, pktWr, cardVars, workVars, req, txLock, bk, stopped,
                   owned, mapErrors>>

(* Lines 67-68 and, when there is space left, the unlock of line 79.       *)
CheckFull(p) ==
    /\ pc[p] = "check"
    /\ IF Full THEN Goto(p, "stop") /\ UNCHANGED txLock
               ELSE Goto(p, "bk")   /\ txLock' = NoPort
    /\ UNCHANGED <<memVars, cardVars, workVars, req, bk, stopped, owned, mapErrors>>

StopQueue(p) ==
    /\ pc[p] = "stop"
    /\ stopped' = stopped \cup {p}
    /\ txLock' = NoPort
    /\ Goto(p, "bk")
    /\ UNCHANGED <<memVars, cardVars, workVars, req, bk, owned, mapErrors>>

WriteBkNoSize(p) ==                                                 \* mutant
    /\ pc[p] = "bk"
    /\ bk' = [bk EXCEPT ![req[p].slot].skb = req[p].skb]
    /\ Goto(p, "dsc")
    /\ UNCHANGED <<memVars, cardVars, workVars, req, txLock, stopped, owned, mapErrors>>

(* Lines 101-104, then the barrier of line 108. *)
WriteBk(p) ==
    /\ pc[p] = "bk"
    /\ bk' = [bk EXCEPT ![req[p].slot] = [skb |-> req[p].skb, size |-> req[p].size]]
    /\ Goto(p, "dsc")
    /\ UNCHANGED <<memVars, cardVars, workVars, req, txLock, stopped, owned, mapErrors>>

(* Lines 109-110: from here on the card owns the slot.                     *)
WriteDsc(p) ==
    /\ pc[p] = "dsc"
    /\ dsc' = [dsc EXCEPT ![req[p].slot] =
                  [skb |-> req[p].skb, addr |-> req[p].addr, size |-> req[p].size]]
    /\ Goto(p, "stats")
    /\ UNCHANGED <<memVars, sending, dne, cardRd, cardDne, workVars, req, txLock, bk,
                   stopped, owned, mapErrors>>

(* nf10i_tx, lines 65-66: the statistics read the length of the packet.    *)
Stats(p) ==
    /\ pc[p] = "stats"
    /\ req' = [req EXCEPT ![p] = NoReq]
    /\ Goto(p, "idle")
    /\ UNCHANGED <<memVars, cardVars, workVars, txLock, bk, stopped, owned, mapErrors>>

-----------------------------------------------------------------------------
(* The card *)

(* It fetches the descriptor at its read pointer once that one is valid,   *)
(* and invalidates it.                                                     *)
Fetch ==
    /\ dsc[cardRd] # NoDsc
    /\ sending[cardRd] = NoDsc
    /\ sending' = [sending EXCEPT ![cardRd] = dsc[cardRd]]
    /\ dsc' = [dsc EXCEPT ![cardRd] = NoDsc]
    /\ cardRd' = Wrap(cardRd + 1, N)
    /\ UNCHANGED <<memVars, dne, cardDne, txVars, workVars, bk, stopped, owned, mapErrors>>

(* It sends the packets in the order it fetched them, and writes to entry  *)
(* i of the completion ring for descriptor i.                              *)
Complete ==
    /\ sending[cardDne] # NoDsc
    /\ SlowCard => ~(wpc = "invalidate" /\ wslot = cardDne)
    /\ dne' = [dne EXCEPT ![cardDne] = sending[cardDne].skb]
    /\ sending' = [sending EXCEPT ![cardDne] = NoDsc]
    /\ cardDne' = Wrap(cardDne + 1, N)
    /\ UNCHANGED <<memVars, dsc, cardRd, txVars, workVars, bk, stopped, owned, mapErrors>>

-----------------------------------------------------------------------------
(* The TX half of one round of work_handler, which runs under work_lock *)

(* Lines 159-174: a valid completion at the read pointer; its packet is    *)
(* found in the bookkeeping of the slot.                                   *)
Reap ==
    /\ wpc = "poll"
    /\ dne[dneRd] # NoSkb
    /\ dneRd' = Wrap(dneRd + 1, N)
    /\ wslot' = dneRd
    /\ owned' = owned \ {bk[dneRd].skb}
    /\ pktCnt' = pktCnt - bk[dneRd].size
    /\ wpc' = "dec"
    /\ UNCHANGED <<dscWr, dscCnt, pktWr, cardVars, txVars, toWake, bk, stopped, mapErrors>>

(* Line 175. *)
DecDsc ==
    /\ wpc = "dec"
    /\ dscCnt' = dscCnt - 1
    /\ wpc' = "invalidate"
    /\ UNCHANGED <<dscWr, pktWr, pktCnt, cardVars, txVars, wslot, toWake, dneRd, bk,
                   stopped, owned, mapErrors>>

InvalidateNothing ==                                                \* mutant
    /\ wpc = "invalidate"
    /\ wpc' = "check"
    /\ UNCHANGED <<memVars, cardVars, txVars, wslot, toWake, dneRd, bk,
                   stopped, owned, mapErrors>>

(* Line 178. *)
Invalidate ==
    /\ wpc = "invalidate"
    /\ dne' = [dne EXCEPT ![wslot] = NoSkb]
    /\ wpc' = "check"
    /\ UNCHANGED <<memVars, dsc, sending, cardRd, cardDne, txVars, wslot, toWake, dneRd, bk,
                   stopped, owned, mapErrors>>

(* Lines 181-182. *)
CheckWake ==
    /\ wpc = "check"
    /\ IF CanWake THEN toWake' = Ports /\ wpc' = "wake"
                  ELSE UNCHANGED toWake /\ wpc' = "poll"
    /\ UNCHANGED <<memVars, cardVars, txVars, wslot, dneRd, bk, stopped, owned, mapErrors>>

WakeFirst(p) ==                                                     \* mutant
    /\ wpc = "wake" /\ p \in toWake
    /\ stopped' = stopped \ {p}
    /\ toWake' = {} /\ wpc' = "poll"
    /\ UNCHANGED <<memVars, cardVars, txVars, wslot, dneRd, bk, owned, mapErrors>>

(* One iteration of the loop of lines 185-189. *)
WakePort(p) ==
    /\ wpc = "wake" /\ p \in toWake
    /\ stopped' = stopped \ {p}
    /\ toWake' = toWake \ {p}
    /\ wpc' = IF toWake = {p} THEN "poll" ELSE "wake"
    /\ UNCHANGED <<memVars, cardVars, txVars, wslot, dneRd, bk, owned, mapErrors>>

-----------------------------------------------------------------------------
Inside(p) ==
    \/ Count(p) \/ CheckFull(p) \/ StopQueue(p)
    \/ WriteBk(p) \/ WriteDsc(p) \/ Stats(p)

Transmitter(p) ==
    \/ \E s \in Skbs, c \in Sizes : Xmit(p, s, c)
    \/ NoRoom(p) \/ Reserve(p) \/ MapError(p)
    \/ Inside(p)

Card == Fetch \/ Complete

Worker ==
    \/ Reap \/ DecDsc \/ Invalidate \/ CheckWake
    \/ \E p \in Ports : WakePort(p)

Next == Card \/ Worker \/ \E p \in Ports : Transmitter(p)

Spec == Init /\ [][Next]_vars

(* A transmitter that is past the lock is running code with no wait in it; *)
(* the worker looks at the completion ring again and again (Nf10Poll shows *)
(* that it does); the card sends what it is given.  Nothing obliges the    *)
(* network stack to send.                                                  *)
Fairness ==
    /\ WF_vars(Fetch) /\ WF_vars(Complete)
    /\ WF_vars(Worker)
    /\ \A p \in Ports : WF_vars(Inside(p))

FairSpec == Spec /\ Fairness

-----------------------------------------------------------------------------
(* Properties *)

(* A transmitter has a slot that it has not yet given to the card.         *)
Holding(p) == pc[p] \in {"count", "check", "stop", "bk", "dsc"}

(* What the card has for slot i: posted, or fetched and not yet sent.      *)
CardDscs(i) == {dsc[i], sending[i]} \ {NoDsc}
InCard(i)   == CardDscs(i) # {}

(* The packets that have a slot, those whose completion the worker has not *)
(* taken; the counter lags behind at both ends.                            *)
Outstanding ==
    dscCnt + Cardinality({p \in Ports : pc[p] = "count"}) - (IF wpc = "dec" THEN 1 ELSE 0)

(* The card has reported slot i and the worker has not yet taken it.       *)
Reported(i) == dne[i] # NoSkb /\ ~(wpc \in {"dec", "invalidate"} /\ wslot = i)

(* "make sure we fit in the descriptor ring" (line 40): nobody else is     *)
(* using the slot that a transmitter fills in outside the lock: no other   *)
(* transmitter, not the card, and no completion that is still to be read   *)
(* through the bookkeeping of the slot.                                    *)
SlotExclusive ==
    \A p \in Ports : Holding(p) =>
        /\ ~InCard(req[p].slot)
        /\ ~Reported(req[p].slot)
        /\ \A q \in Ports \ {p} : Holding(q) => req[q].slot # req[p].slot

(* "make sure we fit in the ... packet buffer" (line 40): the lines that   *)
(* two outstanding descriptors use of the card's packet buffer are         *)
(* disjoint, so the card never copies one packet over another.             *)
BuffersDisjoint ==
    LET Region(r) == {Wrap(r.addr + k, M) : k \in 0..(r.size - 1)}
        Held(p)   == Region(req[p])
        Sent(i)   == UNION {Region(d) : d \in CardDscs(i)}
    IN  /\ \A p, q \in Ports : p # q /\ Holding(p) /\ Holding(q)
                               => Held(p) \cap Held(q) = {}
        /\ \A p \in Ports, i \in Slots : Holding(p) /\ InCard(i)
                               => Held(p) \cap Sent(i) = {}
        /\ \A i, j \in Slots : i # j /\ InCard(i) /\ InCard(j)
                               => Sent(i) \cap Sent(j) = {}

(* The packet that the worker frees for a completion (lines 171-173) is    *)
(* the one that the card sent, and it has not been freed before.  The      *)
(* worker finds it by the index of the completion alone.                   *)
CompletionMatches ==
    \A i \in Slots : Reported(i) => bk[i].skb = dne[i] /\ dne[i] \in owned

(* No packet is lost: each one that the driver was given and has not freed *)
(* is with a transmitter, in the card, or reported and still to be read.   *)
NoSkbLost ==
    owned \subseteq {req[p].skb : p \in {q \in Ports : pc[q] \notin {"idle", "stats"}}}
                   \cup (UNION {{d.skb : d \in CardDscs(i)} : i \in Slots})
                   \cup {dne[i] : i \in {j \in Slots : Reported(j)}}

(* The counters that every flow control decision reads are exact: what was *)
(* added for a packet (lines 63-64) is what is subtracted for it (174-175),*)
(* although the size that is subtracted comes from the bookkeeping.        *)
CountsExact ==
    LET Held == {p \in Ports : Holding(p) /\ pc[p] # "count"}
        Busy == {i \in Slots : InCard(i)}
        Back == {i \in Slots : Reported(i)}
    IN  /\ dscCnt = Cardinality(Held) + Cardinality(Busy) + Cardinality(Back)
                     + (IF wpc = "dec" THEN 1 ELSE 0)
        /\ pktCnt = SumFunctionOnSet([p \in Ports |-> req[p].size], Held)
                     + SumFunctionOnSet([i \in Slots |-> dsc[i].size + sending[i].size], Busy)
                     + SumFunctionOnSet([i \in Slots |-> bk[i].size], Back)

(* A queue is never stopped with nothing left that could restart it        *)
(* (lines 70 and 180): some descriptor is still to be completed, or the    *)
(* worker is on its way to a test of lines 181-182 that will succeed.      *)
StoppedHasWaker ==
    \A p \in stopped :
        \/ \E q \in Ports : Holding(q)
        \/ \E i \in Slots : InCard(i) \/ Reported(i)
        \/ wpc \in {"dec", "invalidate"}
        \/ wpc = "check" /\ CanWake
        \/ wpc = "wake" /\ p \in toWake

(* Transmission never stops for good: with every queue stopped, some queue *)
(* is eventually restarted ("restart queue if needed", line 180).          *)
NoTransmitDeadlock == stopped = Ports ~> stopped # Ports

(* The ring's pointers and its counter drift apart by one descriptor for   *)
(* each mapping error and are never reconciled (lines 45-61).  Without any *)
(* error the slots in use are those from dneRd up to dscWr; after k errors *)
(* dscWr is k slots further.                                               *)
PointersAgree == dscWr = (dneRd + Outstanding + mapErrors) % N

(* The path implements the queue that TxFifo specifies.  A packet is in    *)
(* the queue from the reservation of its slot until the worker takes its   *)
(* completion; the slots are those from dneRd on.                          *)
SkbAt(i) ==
    IF \E p \in Ports : Holding(p) /\ req[p].slot = i
    THEN req[CHOOSE p \in Ports : Holding(p) /\ req[p].slot = i].skb
    ELSE IF InCard(i) THEN (CHOOSE d \in CardDscs(i) : TRUE).skb ELSE dne[i]

Fifo == INSTANCE TxFifo
    WITH Capacity <- N,
         fifo <- [k \in 1..Outstanding |-> SkbAt(Wrap(dneRd + k - 1, N))]

ImplementsFifo == Fifo!Spec

-----------------------------------------------------------------------------
(* A statement of a comment that the code does not keep.                   *)

(* "update stats" (nf10iface.c, line 64): the packet whose length is read  *)
(* for the statistics is still the driver's.                               *)
StatsReadLiveSkb == \A p \in Ports : pc[p] = "stats" => req[p].skb \in owned
=============================================================================
