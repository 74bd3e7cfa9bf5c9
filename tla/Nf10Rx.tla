------------------------------- MODULE Nf10Rx -------------------------------
(***************************************************************************)
(* The receive path of the nf10 driver: nf10priv_send_rx_dsc, called by    *)
(* nf10iface_probe for the first descriptors and by work_handler for every *)
(* packet that arrives, and the RX half of a round of work_handler.        *)
(*                                                                         *)
(* A receive descriptor gives the card an empty packet (an skb of fixed    *)
(* size) and BufLines lines of its packet buffer.  The card fills the      *)
(* descriptors in slot order and reports slot i in entry i of the RX       *)
(* completion ring.  Interrupts are registered before probe has posted the *)
(* first descriptors, so probe and the worker post concurrently.           *)
(***************************************************************************)
EXTENDS Integers, FiniteSets

CONSTANTS
    Ports,         \* the net devices, ndev[0..3]
    BadPacket,     \* a completion with a length or port the driver rejects
    Skbs, NoSkb,
    N,             \* mem_rx_dsc.cl_size
    M,             \* mem_rx_pkt.cl_size
    BufLines,      \* (SK_BUFF_ALLOC_SIZE + 66) / 64
    Tries,         \* mem_rx_dsc.cl_size - 2, the descriptors probe posts
    MaxAllocFails  \* bound on the failures of dev_alloc_skb while there is memory

ASSUME RxAssumption ==
    /\ BadPacket \notin Ports
    /\ NoSkb \notin Skbs
    /\ N \in Nat \ {0}
    /\ M \in Nat \ {0}
    /\ BufLines \in 1..M
    /\ Tries \in 0..N
    /\ MaxAllocFails \in Nat

Slots == 0..(N - 1)
Lines == 0..(M - 1)
Threads == {"probe", "worker"}

VARIABLES
    dscWr, dscCnt, pktWr, pktCnt,  \* mem_rx_dsc and mem_rx_pkt
    bk,          \* rx_bk_skb, by slot
    dsc,         \* the card's RX descriptors, by slot
    dne,         \* the RX completion ring: the filled packet and what came in
    dneRd,       \* host_rx_dne.rd_ptr
    cardRd,      \* the slot the card fills next
    up,          \* the ports whose port_up is 1
    left,        \* the iterations probe's loop has still to make
    spc, req,    \* where each thread is in nf10priv_send_rx_dsc, its locals
    wpc, cur,    \* where work_handler is; its locals skb and rx_int
    held,        \* the packets allocated and neither delivered nor freed
    allocFails   \* how often dev_alloc_skb has failed

memVars  == <<dscWr, dscCnt, pktWr, pktCnt>>
cardVars == <<dsc, dne, cardRd>>
sendVars == <<spc, req, left>>
workVars == <<wpc, cur, dneRd>>
vars     == <<memVars, cardVars, sendVars, workVars, bk, up, held, allocFails>>

Reqs  == [skb : Skbs \cup {NoSkb}, slot : Slots, addr : Lines]
NoReq == [skb |-> NoSkb, slot |-> 0, addr |-> 0]
Dscs  == [skb : Skbs \cup {NoSkb}, addr : Lines]
NoDsc == [skb |-> NoSkb, addr |-> 0]
Dnes  == [skb : Skbs \cup {NoSkb}, pkt : Ports \cup {BadPacket}]
NoDne == [skb |-> NoSkb, pkt |-> BadPacket]

TypeOK ==
    /\ dscWr \in Slots /\ dneRd \in Slots /\ cardRd \in Slots
    /\ pktWr \in Lines
    /\ dscCnt \in Int /\ pktCnt \in Int
    /\ bk \in [Slots -> Skbs \cup {NoSkb}]
    /\ dsc \in [Slots -> Dscs]
    /\ dne \in [Slots -> Dnes]
    /\ up \subseteq Ports
    /\ left \in 0..Tries
    /\ spc \in [Threads -> {"out", "lock", "bk", "dsc"}]
    /\ req \in [Threads -> Reqs]
    /\ wpc \in {"poll", "sub", "send", "decode", "deliver", "drop"}
    /\ cur \in Dnes
    /\ held \subseteq Skbs
    /\ allocFails \in Nat

Init ==
    /\ dscWr = 0 /\ dscCnt = 0 /\ pktWr = 0 /\ pktCnt = 0
    /\ bk = [i \in Slots |-> NoSkb]
    /\ dsc = [i \in Slots |-> NoDsc]
    /\ dne = [i \in Slots |-> NoDne]
    /\ dneRd = 0 /\ cardRd = 0
    /\ up = {}
    /\ left = Tries
    /\ spc = [t \in Threads |-> "out"]
    /\ req = [t \in Threads |-> NoReq]
    /\ wpc = "poll" /\ cur = NoDne
    /\ held = {} /\ allocFails = 0

(* (ptr + 64 * n) & mask. *)
Wrap(x, size) == IF x >= size THEN x - size ELSE x

Goto(t, label) == spc' = [spc EXCEPT ![t] = label]

-----------------------------------------------------------------------------
(* nf10priv_send_rx_dsc(card), on behalf of thread t *)

(* Lines 328-329. *)
Room == dscCnt + 1 <= N /\ pktCnt + BufLines <= M

SendNoRoom(t) ==
    /\ spc[t] = "lock" /\ ~Room
    /\ Goto(t, "out")
    /\ UNCHANGED <<memVars, cardVars, req, left, workVars, bk, up, held, allocFails>>

(* dev_alloc_skb fails before any pointer has moved (lines 333-338).       *)
SendAllocFail(t) ==
    /\ spc[t] = "lock" /\ Room
    /\ allocFails < MaxAllocFails \/ held = Skbs
    /\ allocFails' = allocFails + 1
    /\ Goto(t, "out")
    /\ UNCHANGED <<memVars, cardVars, req, left, workVars, bk, up, held>>

SendReserveUncounted(t, s) ==                                       \* mutant
    /\ spc[t] = "lock" /\ Room
    /\ s \notin held
    /\ held' = held \cup {s}
    /\ req' = [req EXCEPT ![t] = [skb |-> s, slot |-> dscWr, addr |-> pktWr]]
    /\ dscWr' = Wrap(dscWr + 1, N) /\ pktWr' = Wrap(pktWr + BufLines, M)
    /\ dscCnt' = dscCnt + 1 /\ UNCHANGED pktCnt
    /\ Goto(t, "bk")
    /\ UNCHANGED <<cardVars, left, workVars, bk, up, allocFails>>

SendReserveInPlace(t, s) ==                                         \* mutant
    /\ spc[t] = "lock" /\ Room
    /\ s \notin held
    /\ held' = held \cup {s}
    /\ req' = [req EXCEPT ![t] = [skb |-> s, slot |-> dscWr, addr |-> pktWr]]
    /\ pktWr' = Wrap(pktWr + BufLines, M) /\ UNCHANGED dscWr
    /\ dscCnt' = dscCnt + 1 /\ pktCnt' = pktCnt + BufLines
    /\ Goto(t, "bk")
    /\ UNCHANGED <<cardVars, left, workVars, bk, up, allocFails>>

(* Lines 326-359, under rx_dsc_lock: a packet, a slot and lines.           *)
SendReserve(t, s) ==
    /\ spc[t] = "lock" /\ Room
    /\ s \notin held
    /\ held' = held \cup {s}
    /\ req' = [req EXCEPT ![t] = [skb |-> s, slot |-> dscWr, addr |-> pktWr]]
    /\ dscWr' = Wrap(dscWr + 1, N) /\ pktWr' = Wrap(pktWr + BufLines, M)
    /\ dscCnt' = dscCnt + 1 /\ pktCnt' = pktCnt + BufLines
    /\ Goto(t, "bk")
    /\ UNCHANGED <<cardVars, left, workVars, bk, up, allocFails>>

(* Lines 374-376.  Another thread may have reserved a later slot and be    *)
(* ahead of this one.                                                      *)
SendWriteBk(t) ==
    /\ spc[t] = "bk"
    /\ bk' = [bk EXCEPT ![req[t].slot] = req[t].skb]
    /\ Goto(t, "dsc")
    /\ UNCHANGED <<memVars, cardVars, req, left, workVars, up, held, allocFails>>

(* Lines 379-384. *)
SendWriteDsc(t) ==
    /\ spc[t] = "dsc"
    /\ dsc' = [dsc EXCEPT ![req[t].slot] = [skb |-> req[t].skb, addr |-> req[t].addr]]
    /\ req' = [req EXCEPT ![t] = NoReq]
    /\ Goto(t, "out")
    /\ UNCHANGED <<memVars, dne, cardRd, left, workVars, bk, up, held, allocFails>>

Send(t) ==
    \/ SendNoRoom(t) \/ SendAllocFail(t)
    \/ \E s \in Skbs : SendReserve(t, s)
    \/ SendWriteBk(t) \/ SendWriteDsc(t)

(* nf10iface_probe, lines 198-201: the result of the call is ignored.      *)
ProbeSend ==
    /\ left > 0 /\ spc["probe"] = "out"
    /\ left' = left - 1
    /\ Goto("probe", "lock")
    /\ UNCHANGED <<memVars, cardVars, req, workVars, bk, up, held, allocFails>>

-----------------------------------------------------------------------------
(* The RX half of a round of work_handler *)

TakeUninvalidated ==                                                \* mutant
    /\ wpc = "poll"
    /\ dne[dneRd] # NoDne
    /\ dneRd' = Wrap(dneRd + 1, N)
    /\ cur' = [skb |-> bk[dneRd], pkt |-> dne[dneRd].pkt]
    /\ wpc' = "sub"
    /\ UNCHANGED <<memVars, dsc, dne, cardRd, sendVars, bk, up, held, allocFails>>

TakeNextBk ==                                                       \* mutant
    /\ wpc = "poll"
    /\ dne[dneRd] # NoDne
    /\ dneRd' = Wrap(dneRd + 1, N)
    /\ dne' = [dne EXCEPT ![dneRd] = NoDne]
    /\ cur' = [skb |-> bk[Wrap(dneRd + 1, N)], pkt |-> dne[dneRd].pkt]
    /\ wpc' = "sub"
    /\ UNCHANGED <<memVars, dsc, cardRd, sendVars, bk, up, held, allocFails>>

(* Lines 160 and 194-208. *)
Take ==
    /\ wpc = "poll"
    /\ dne[dneRd] # NoDne
    /\ dneRd' = Wrap(dneRd + 1, N)
    /\ dne' = [dne EXCEPT ![dneRd] = NoDne]
    /\ cur' = [skb |-> bk[dneRd], pkt |-> dne[dneRd].pkt]
    /\ wpc' = "sub"
    /\ UNCHANGED <<memVars, dsc, cardRd, sendVars, bk, up, held, allocFails>>

SubNoSend ==                                                        \* mutant
    /\ wpc = "sub"
    /\ pktCnt' = pktCnt - BufLines /\ dscCnt' = dscCnt - 1
    /\ wpc' = "send"
    /\ UNCHANGED <<dscWr, pktWr, cardVars, sendVars, cur, dneRd, bk, up, held, allocFails>>

(* Lines 209-213: the space is given back and at once asked for again.     *)
Sub ==
    /\ wpc = "sub"
    /\ pktCnt' = pktCnt - BufLines /\ dscCnt' = dscCnt - 1
    /\ wpc' = "send" /\ Goto("worker", "lock")
    /\ UNCHANGED <<dscWr, pktWr, cardVars, req, left, cur, dneRd, bk, up, held, allocFails>>

(* Lines 215-237: what came in, and whether its port is up.  A packet that *)
(* is not valid is only reported.                                          *)
Decode ==
    /\ wpc = "send" /\ spc["worker"] = "out"
    /\ wpc' = IF cur.pkt = BadPacket THEN "poll"
              ELSE IF cur.pkt \in up THEN "deliver" ELSE "drop"
    /\ UNCHANGED <<memVars, cardVars, sendVars, cur, dneRd, bk, up, held, allocFails>>

Deliver ==
    /\ wpc = "deliver"
    /\ held' = held \ {cur.skb}
    /\ wpc' = "poll"
    /\ UNCHANGED <<memVars, cardVars, sendVars, cur, dneRd, bk, up, allocFails>>

Drop ==
    /\ wpc = "drop"
    /\ held' = held \ {cur.skb}
    /\ wpc' = "poll"
    /\ UNCHANGED <<memVars, cardVars, sendVars, cur, dneRd, bk, up, allocFails>>

-----------------------------------------------------------------------------
(* A packet arrives at the card, which has a descriptor for it.            *)
Receive(pkt) ==
    /\ dsc[cardRd] # NoDsc
    /\ dne' = [dne EXCEPT ![cardRd] = [skb |-> dsc[cardRd].skb, pkt |-> pkt]]
    /\ dsc' = [dsc EXCEPT ![cardRd] = NoDsc]
    /\ cardRd' = Wrap(cardRd + 1, N)
    /\ UNCHANGED <<memVars, sendVars, workVars, bk, up, held, allocFails>>

(* nf10i_open and nf10i_stop. *)
Open(p) ==
    /\ p \notin up /\ up' = up \cup {p}
    /\ UNCHANGED <<memVars, cardVars, sendVars, workVars, bk, held, allocFails>>

Stop(p) ==
    /\ p \in up /\ up' = up \ {p}
    /\ UNCHANGED <<memVars, cardVars, sendVars, workVars, bk, held, allocFails>>

Next ==
    \/ ProbeSend
    \/ \E t \in Threads : Send(t)
    \/ Take \/ Sub \/ Decode \/ Deliver \/ Drop
    \/ \E pkt \in Ports \cup {BadPacket} : Receive(pkt)
    \/ \E p \in Ports : Open(p) \/ Stop(p)

Spec == Init /\ [][Next]_vars

-----------------------------------------------------------------------------
(* Properties *)

Holding(t) == spc[t] \in {"bk", "dsc"}

(* "make sure we fit in the descriptor ring" (line 327): probe and worker  *)
(* never fill in the same slot, nor one that is with the card or has a     *)
(* completion that is still to be read.                                    *)
RxSlotExclusive ==
    \A t \in Threads : Holding(t) =>
        /\ dsc[req[t].slot] = NoDsc
        /\ dne[req[t].slot] = NoDne
        /\ \A u \in Threads \ {t} : Holding(u) => req[u].slot # req[t].slot

(* "... and packet buffer": the card never stores two packets that arrive  *)
(* in the same lines.                                                      *)
RxBuffersDisjoint ==
    LET Region(a) == {Wrap(a + k, M) : k \in 0..(BufLines - 1)}
        Posted    == {i \in Slots : dsc[i] # NoDsc}
        Pending   == {t \in Threads : Holding(t)}
    IN  /\ \A i, j \in Posted : i # j
            => Region(dsc[i].addr) \cap Region(dsc[j].addr) = {}
        /\ \A t \in Pending, i \in Posted :
               Region(req[t].addr) \cap Region(dsc[i].addr) = {}
        /\ \A t, u \in Pending : t # u
            => Region(req[t].addr) \cap Region(req[u].addr) = {}

(* The packet that the worker takes for a completion (line 207) is the one *)
(* that the card filled, although all it has is the completion's index.    *)
RxCompletionMatches ==
    \A i \in Slots : dne[i] # NoDne => bk[i] = dne[i].skb /\ dne[i].skb \in held

(* The card only ever writes to packets that the driver still has: none    *)
(* that was delivered or freed, nor the one that the worker is looking at. *)
CardWritesHeldOnly ==
    \A i \in Slots : dsc[i] # NoDsc =>
        /\ dsc[i].skb \in held
        /\ wpc # "poll" => dsc[i].skb # cur.skb
        /\ \A j \in Slots : j # i => dsc[j].skb # dsc[i].skb

(* The descriptors in circulation, the one that the worker is about to     *)
(* replace among them.                                                     *)
InCirculation ==
    Cardinality({i \in Slots : dsc[i] # NoDsc}) + Cardinality({i \in Slots : dne[i] # NoDne})
    + Cardinality({t \in Threads : Holding(t)})
    + (IF wpc = "sub" \/ (wpc = "send" /\ spc["worker"] = "lock" /\ Room) THEN 1 ELSE 0)

(* What probe posted is what circulates, less one descriptor for every     *)
(* allocation that failed: each completion is answered with a new          *)
(* descriptor ("give the card a new RX descriptor", line 212), and the     *)
(* race of probe and worker for the space of line 328 loses none.          *)
SupplyKept ==
    left = 0 /\ spc["probe"] = "out" =>
        LET Room0 == IF N < M \div BufLines THEN N ELSE M \div BufLines
            Supply == IF Tries < Room0 THEN Tries ELSE Room0
        IN  InCirculation \in (Supply - allocFails)..Room0

-----------------------------------------------------------------------------
(* A statement of a comment that the code does not keep.                   *)

(* "invalid or down port, drop packet" (line 286): a packet is posted,     *)
(* reported, with one of the threads, or it has been delivered or freed.   *)
NoRxLeak ==
    held \subseteq {req[t].skb : t \in {u \in Threads : Holding(u)}}
                  \cup {dsc[i].skb : i \in Slots} \cup {dne[i].skb : i \in Slots}
                  \cup (IF wpc = "poll" THEN {} ELSE {cur.skb})
=============================================================================
