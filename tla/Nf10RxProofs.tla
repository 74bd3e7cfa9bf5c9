---------------------------- MODULE Nf10RxProofs ----------------------------
(***************************************************************************)
(* Theorems about the receive path, for any number of ports, packets,      *)
(* descriptors and cache lines, and for any number of allocations that     *)
(* fail.                                                                   *)
(***************************************************************************)
EXTENDS Nf10Rx, FiniteSetTheorems, TLAPS

(* What the constants are, in the form that arithmetic needs.              *)
LEMMA Sizes ==
    /\ N \in Nat /\ N > 0 /\ M \in Nat /\ BufLines \in Nat /\ BufLines > 0 /\ BufLines <= M
    /\ Tries \in Nat /\ Tries <= N
    /\ Slots = 0..(N - 1) /\ Lines = 0..(M - 1)
  BY RxAssumption DEF Slots, Lines

(* The pointers stay in their rings (lines 344, 347 and 200).              *)
LEMMA WrapInRing ==
    ASSUME NEW size \in Nat, NEW x \in 0..(size - 1), NEW k \in 0..size
    PROVE  Wrap(x + k, size) \in 0..(size - 1)
  BY DEF Wrap

(* The slot after a slot is one (line 347).                                *)
LEMMA NextSlot ==
    ASSUME NEW i \in Slots
    PROVE  Wrap(i + 1, N) \in Slots
  BY Sizes, WrapInRing

(* The lines after those of a buffer are lines (line 344).                 *)
LEMMA NextLines ==
    ASSUME NEW a \in Lines
    PROVE  Wrap(a + BufLines, M) \in Lines
  BY Sizes DEF Wrap

(* The fields of what the variables hold.                                  *)
LEMMA Fields ==
    ASSUME TypeOK
    PROVE  /\ \A t \in Threads : /\ req[t].skb \in Skbs \cup {NoSkb}
                                 /\ req[t].slot \in Slots /\ req[t].addr \in Lines
           /\ \A i \in Slots : dsc[i].skb \in Skbs \cup {NoSkb} /\ dsc[i].addr \in Lines
           /\ \A i \in Slots : /\ dne[i].skb \in Skbs \cup {NoSkb}
                               /\ dne[i].pkt \in Ports \cup {BadPacket}
<1>1. \A t \in Threads : req[t] \in Reqs
  BY DEF TypeOK
<1>2. \A i \in Slots : dsc[i] \in Dscs
  BY DEF TypeOK
<1>3. \A i \in Slots : dne[i] \in Dnes
  BY DEF TypeOK
<1> QED
  BY <1>1, <1>2, <1>3 DEF Reqs, Dscs, Dnes

(* Every variable keeps its type, whatever the interleaving.               *)
THEOREM TypeCorrect == Spec => []TypeOK
<1>1. Init => TypeOK
  BY Sizes DEF Init, TypeOK, Reqs, NoReq, Dscs, NoDsc, Dnes, NoDne, Threads
<1>2. ASSUME TypeOK, [Next]_vars PROVE TypeOK'
  <2>1. ASSUME NEW t \in Threads, SendNoRoom(t) \/ SendAllocFail(t) PROVE TypeOK'
    BY <1>2, <2>1 DEF TypeOK, SendNoRoom, SendAllocFail, Goto, memVars, cardVars, workVars
  <2>2. ASSUME NEW t \in Threads, NEW s \in Skbs, SendReserve(t, s) PROVE TypeOK'
    <3>1. dscWr' \in Slots /\ pktWr' \in Lines
      BY <1>2, <2>2, NextSlot, NextLines DEF TypeOK, SendReserve
    <3>2. dscCnt' \in Int /\ pktCnt' \in Int
      BY <1>2, <2>2, Sizes DEF TypeOK, SendReserve
    <3>3. req' \in [Threads -> Reqs]
      BY <1>2, <2>2 DEF TypeOK, SendReserve, Reqs
    <3> QED
      BY <1>2, <2>2, <3>1, <3>2, <3>3 DEF TypeOK, SendReserve, Goto, cardVars, workVars
  <2>3. ASSUME NEW t \in Threads, SendWriteBk(t) PROVE TypeOK'
    BY <1>2, <2>3, Fields DEF TypeOK, SendWriteBk, Goto, memVars, cardVars, workVars
  <2>4. ASSUME NEW t \in Threads, SendWriteDsc(t) PROVE TypeOK'
    <3>1. NoReq \in Reqs
      BY Sizes DEF NoReq, Reqs
    <3>2. [skb |-> req[t].skb, addr |-> req[t].addr] \in Dscs
      BY <1>2, Fields DEF Dscs
    <3> QED
      BY <1>2, <2>4, <3>1, <3>2 DEF TypeOK, SendWriteDsc, Goto, memVars, workVars
  <2>5. CASE ProbeSend
    BY <1>2, <2>5, Sizes DEF TypeOK, ProbeSend, Goto, memVars, cardVars, workVars, Threads
  <2>6. CASE Take
    <3>1. dneRd' \in Slots
      BY <1>2, <2>6, NextSlot DEF TypeOK, Take
    <3>2. cur' \in Dnes /\ dne' \in [Slots -> Dnes]
      BY <1>2, <2>6, Fields DEF TypeOK, Take, Dnes, NoDne
    <3> QED
      BY <1>2, <2>6, <3>1, <3>2 DEF TypeOK, Take, memVars, sendVars
  <2>7. CASE Sub
    BY <1>2, <2>7, Sizes DEF TypeOK, Sub, Goto, cardVars, Threads
  <2>8. CASE Decode \/ Deliver \/ Drop
    BY <1>2, <2>8 DEF TypeOK, Decode, Deliver, Drop, memVars, cardVars, sendVars
  <2>9. ASSUME NEW pkt \in Ports \cup {BadPacket}, Receive(pkt) PROVE TypeOK'
    <3>1. cardRd' \in Slots
      BY <1>2, <2>9, NextSlot DEF TypeOK, Receive
    <3>2. dne' \in [Slots -> Dnes] /\ dsc' \in [Slots -> Dscs]
      <4>1. [skb |-> dsc[cardRd].skb, pkt |-> pkt] \in Dnes
        BY <1>2, Fields DEF TypeOK, Dnes
      <4>2. NoDsc \in Dscs
        BY Sizes DEF NoDsc, Dscs
      <4> QED
        BY <1>2, <2>9, <4>1, <4>2 DEF TypeOK, Receive
    <3> QED
      BY <1>2, <2>9, <3>1, <3>2 DEF TypeOK, Receive, memVars, sendVars, workVars
  <2>10. ASSUME NEW p \in Ports, Open(p) \/ Stop(p) PROVE TypeOK'
    BY <1>2, <2>10 DEF TypeOK, Open, Stop, memVars, cardVars, sendVars, workVars
  <2>11. CASE UNCHANGED vars
    BY <1>2, <2>11 DEF TypeOK, vars, memVars, cardVars, sendVars, workVars
  <2> QED
    BY <1>2, <2>1, <2>2, <2>3, <2>4, <2>5, <2>6, <2>7, <2>8, <2>9, <2>10, <2>11 DEF Next, Send
<1> QED
  BY <1>1, <1>2, PTL DEF Spec

-----------------------------------------------------------------------------
(* Nobody else uses a reserved slot                                        *)
(*                                                                         *)
(* RxSlotExclusive does not say that the slot at dscWr is free.  The       *)
(* invariant does: the slots in use are among the Used slots that follow   *)
(* dneRd, and dscWr is the first one after those.                          *)

(* The descriptors reserved whose completion is not taken; the counter     *)
(* still has the one that the worker has just taken (lines 209-210).       *)
Used == dscCnt - (IF wpc = "sub" THEN 1 ELSE 0)

(* How far slot i is from the read pointer.                                *)
Dist(i) == IF i >= dneRd THEN i - dneRd ELSE i - dneRd + N

InWindow(i) == Dist(i) < Used

(* The card has slot i, or its completion is still to be read.             *)
Busy(i) == dsc[i] # NoDsc \/ dne[i] # NoDne

(* The worker is in nf10priv_send_rx_dsc only when line 213 calls it.      *)
WorkerSends == wpc # "send" => spc["worker"] = "out"

Window ==
    /\ Used \in 0..N /\ dscCnt <= N
    /\ dscWr = Wrap(dneRd + Used, N)

InUseInWindow ==
    /\ \A t \in Threads : Holding(t) => InWindow(req[t].slot)
    /\ \A i \in Slots : Busy(i) => InWindow(i)

OneStage == \A i \in Slots : dsc[i] = NoDsc \/ dne[i] = NoDne

Ring == WorkerSends /\ Window /\ InUseInWindow /\ OneStage /\ RxSlotExclusive

(* The steps that move a slot into, out of or within the window.           *)
Moving ==
    \/ \E t \in Threads, s \in Skbs : SendReserve(t, s)
    \/ \E t \in Threads : SendWriteDsc(t)
    \/ Take
    \/ \E pkt \in Ports \cup {BadPacket} : Receive(pkt)

(* What the other steps leave alone.                                       *)
Quiet ==
    /\ UNCHANGED <<dneRd, dscWr, pktWr, dsc, dne>>
    /\ \/ UNCHANGED <<dscCnt, pktCnt>> /\ (wpc' = "sub" <=> wpc = "sub")
       \/ /\ wpc = "sub" /\ wpc' # "sub"
          /\ dscCnt' = dscCnt - 1 /\ pktCnt' = pktCnt - BufLines
    /\ \A t \in Threads : /\ Holding(t)' <=> Holding(t)
                          /\ Holding(t) => req'[t] = req[t]

(* The other steps leave the ring as it is.                                *)
LEMMA QuietSteps ==
    ASSUME TypeOK, WorkerSends, [Next]_vars, ~Moving
    PROVE  Quiet /\ WorkerSends'
<1>1. ASSUME NEW t \in Threads, SendNoRoom(t) \/ SendAllocFail(t) \/ SendWriteBk(t)
      PROVE  Quiet /\ WorkerSends'
  <2>1. UNCHANGED <<memVars, dsc, dne, dneRd, wpc, req>>
    BY <1>1 DEF SendNoRoom, SendAllocFail, SendWriteBk, cardVars, workVars
  <2>2. /\ Holding(t)' <=> Holding(t)
        /\ spc[t] # "out"
        /\ \A u \in Threads \ {t} : spc'[u] = spc[u]
    BY <1>1 DEF SendNoRoom, SendAllocFail, SendWriteBk, Goto, Holding, TypeOK
  <2> QED
    BY <2>1, <2>2 DEF Quiet, WorkerSends, Holding, memVars, Threads
<1>2. CASE ProbeSend
  BY <1>2 DEF ProbeSend, Goto, TypeOK, Quiet, WorkerSends, Holding, memVars, cardVars, workVars,
              Threads
<1>3. CASE Sub
  BY <1>3 DEF Sub, Goto, TypeOK, Quiet, WorkerSends, Holding, cardVars, Threads
<1>4. CASE Decode \/ Deliver \/ Drop
  BY <1>4 DEF Decode, Deliver, Drop, Quiet, WorkerSends, Holding, memVars, cardVars, sendVars
<1>5. ASSUME NEW p \in Ports, Open(p) \/ Stop(p) PROVE Quiet /\ WorkerSends'
  BY <1>5 DEF Open, Stop, Quiet, WorkerSends, Holding, memVars, cardVars, sendVars, workVars
<1>6. CASE UNCHANGED vars
  BY <1>6 DEF vars, Quiet, WorkerSends, Holding, memVars, cardVars, sendVars, workVars
<1> QED
  BY <1>1, <1>2, <1>3, <1>4, <1>5, <1>6 DEF Next, Send, Moving

(* A distance in the ring is less than the size of the ring.               *)
LEMMA DistInRing ==
    ASSUME TypeOK, NEW i \in Slots
    PROVE  Dist(i) \in 0..(N - 1)
  BY Sizes DEF TypeOK, Dist

(* Two slots are not equally far from the read pointer.                    *)
LEMMA DistInjective ==
    ASSUME TypeOK, NEW i \in Slots, NEW j \in Slots, Dist(i) = Dist(j)
    PROVE  i = j
  BY Sizes DEF TypeOK, Dist

(* Reservation adds the slot behind the window to it.                      *)
LEMMA WindowReserve ==
    ASSUME TypeOK, Ring, NEW t \in Threads, NEW s \in Skbs, SendReserve(t, s)
    PROVE  /\ Window' /\ Used' = Used + 1 /\ Used \in 0..(N - 1)
           /\ Dist(dscWr) = Used /\ ~InWindow(dscWr)
           /\ \A i \in Slots : Dist(i)' = Dist(i)
           /\ \A i \in Slots : InWindow(i)' <=> InWindow(i) \/ i = dscWr
<1>1. N \in Nat /\ N > 0 /\ dscCnt \in Int /\ dneRd \in 0..(N - 1)
  BY Sizes DEF TypeOK
<1>2. /\ dscCnt + 1 <= N /\ dscCnt' = dscCnt + 1 /\ dneRd' = dneRd /\ wpc' = wpc
      /\ dscWr' = Wrap(dscWr + 1, N) /\ dscWr = Wrap(dneRd + Used, N)
  BY DEF SendReserve, Room, workVars, Ring, Window
<1>3. Used' = Used + 1 /\ Used \in 0..(N - 1)
  BY <1>1, <1>2 DEF Used, Ring, Window
<1>4. Window'
  BY <1>1, <1>2, <1>3 DEF Window, Wrap
<1>5. PICK new \in Slots : new = dscWr
  BY DEF TypeOK
<1>6. Dist(new) = Used
  BY <1>1, <1>2, <1>3, <1>5 DEF Dist, Wrap
<1>7. ASSUME NEW i \in Slots
      PROVE  Dist(i)' = Dist(i) /\ (InWindow(i)' <=> InWindow(i) \/ i = new)
  <2>1. Dist(i)' = Dist(i) /\ Dist(i) \in 0..(N - 1)
    BY <1>2, DistInRing DEF Dist
  <2>2. Dist(i) = Used <=> i = new
    BY <1>5, <1>6, DistInjective
  <2> QED
    BY <1>1, <1>3, <2>1, <2>2 DEF InWindow
<1> QED
  BY <1>1, <1>3, <1>4, <1>5, <1>6, <1>7 DEF InWindow

(* The worker takes the first slot out of the window.                      *)
LEMMA WindowTake ==
    ASSUME TypeOK, Ring, Take
    PROVE  /\ Window' /\ Used' = Used - 1 /\ Used \in 1..N
           /\ InWindow(dneRd) /\ Dist(dneRd) = 0
           /\ \A i \in Slots : InWindow(i)' <=> InWindow(i) /\ i # dneRd
           /\ \A i \in Slots \ {dneRd} : Dist(i)' = Dist(i) - 1
<1>1. N \in Nat /\ N > 0 /\ dscCnt \in Int /\ dneRd \in 0..(N - 1)
  BY Sizes DEF TypeOK
<1>2. PICK s \in Slots : s = dneRd
  BY DEF TypeOK
<1>3. /\ UNCHANGED <<dscCnt, dscWr>> /\ wpc = "poll" /\ wpc' = "sub"
      /\ dneRd' = Wrap(dneRd + 1, N) /\ Busy(s)
  BY <1>2 DEF Take, memVars, Busy
<1>4. InWindow(s) /\ Dist(s) = 0
  BY <1>1, <1>2, <1>3 DEF Ring, InUseInWindow, Dist
<1>5. Used \in 1..N /\ Used' = Used - 1 /\ dscCnt <= N /\ dscWr = Wrap(dneRd + Used, N)
  BY <1>1, <1>3, <1>4 DEF Ring, Window, InWindow, Used
<1>6. Window'
  BY <1>1, <1>3, <1>5 DEF Window, Wrap
<1>7. Dist(s)' = N - 1 /\ \A i \in Slots \ {s} : Dist(i)' = Dist(i) - 1
  BY <1>1, <1>2, <1>3, Sizes DEF Dist, Wrap
<1>8. \A i \in Slots : InWindow(i)' <=> InWindow(i) /\ i # s
  BY <1>1, <1>5, <1>7, DistInRing DEF InWindow
<1> QED
  BY <1>2, <1>4, <1>5, <1>6, <1>7, <1>8

(* A step that changes no pointer, counter or descriptor keeps Ring.       *)
LEMMA RingQuiet ==
    ASSUME TypeOK, Ring, Quiet, WorkerSends'
    PROVE  Ring'
<1>1. dscCnt \in Int /\ dscCnt <= N /\ N \in Nat
  BY Sizes DEF TypeOK, Ring, Window
<1>2. Used' = Used /\ dscCnt' <= N
  BY <1>1 DEF Quiet, Used
<1>3. Window' /\ \A i \in Slots : (InWindow(i)' <=> InWindow(i)) /\ (Busy(i)' <=> Busy(i))
  BY <1>2 DEF Quiet, Ring, Window, InWindow, Dist, Busy
<1>4. ASSUME NEW t \in Threads, Holding(t)'
      PROVE  Holding(t) /\ req'[t].slot = req[t].slot /\ req[t].slot \in Slots
  BY <1>4, Fields DEF Quiet
<1>5. InUseInWindow'
  <2>1. ASSUME NEW t \in Threads, Holding(t)' PROVE InWindow(req[t].slot)'
    <3>1. PICK i \in Slots : i = req[t].slot /\ i = req'[t].slot /\ Holding(t)
      BY <1>4, <2>1
    <3>2. InWindow(i)'
      BY <1>3, <3>1 DEF Ring, InUseInWindow
    <3> QED
      BY <3>1, <3>2
  <2> QED
    BY <1>3, <2>1 DEF Ring, InUseInWindow
<1>6. OneStage' /\ RxSlotExclusive'
  BY <1>4 DEF Quiet, Ring, OneStage, RxSlotExclusive
<1> QED
  BY <1>3, <1>5, <1>6 DEF Ring

(* The slot that line 346 reserves was outside the window, so nobody was   *)
(* using it.                                                               *)
LEMMA RingReserve ==
    ASSUME TypeOK, Ring, NEW t \in Threads, NEW s \in Skbs, SendReserve(t, s)
    PROVE  Ring'
<1>1. PICK new \in Slots : new = dscWr
  BY DEF TypeOK
<1>2. /\ UNCHANGED <<dsc, dne, wpc>> /\ spc[t] = "lock" /\ spc'[t] = "bk"
      /\ req'[t].slot = new
      /\ \A u \in Threads \ {t} : spc'[u] = spc[u] /\ req'[u] = req[u]
  BY <1>1 DEF SendReserve, Goto, TypeOK, cardVars, workVars
<1>3. /\ Window' /\ ~InWindow(new) /\ InWindow(new)'
      /\ \A i \in Slots : InWindow(i) => InWindow(i)'
  BY <1>1, WindowReserve
<1>4. ~Busy(new) /\ \A u \in Threads : Holding(u) => req[u].slot # new
  BY <1>3 DEF Ring, InUseInWindow
<1>5. WorkerSends'
  BY <1>2 DEF Ring, WorkerSends, Threads
<1>6. InUseInWindow'
  <2>1. ASSUME NEW u \in Threads, Holding(u)' PROVE InWindow(req[u].slot)'
    <3>1. PICK i \in Slots : i = req'[u].slot /\ (i = new \/ (Holding(u) /\ i = req[u].slot))
      BY <1>1, <1>2, <2>1, Fields DEF Holding
    <3>2. InWindow(i)'
      BY <1>3, <3>1 DEF Ring, InUseInWindow
    <3> QED
      BY <3>1, <3>2
  <2>2. \A i \in Slots : Busy(i)' => InWindow(i)'
    BY <1>2, <1>3 DEF Ring, InUseInWindow, Busy
  <2> QED
    BY <2>1, <2>2 DEF InUseInWindow
<1>7. OneStage' /\ RxSlotExclusive'
  BY <1>1, <1>2, <1>4 DEF Ring, OneStage, RxSlotExclusive, Holding, Busy
<1> QED
  BY <1>3, <1>5, <1>6, <1>7 DEF Ring

(* The slot goes from the thread to the card (line 380).                   *)
LEMMA RingWriteDsc ==
    ASSUME TypeOK, Ring, NEW t \in Threads, SendWriteDsc(t)
    PROVE  Ring'
<1>1. PICK s \in Slots : s = req[t].slot
  BY Fields
<1>2. /\ UNCHANGED <<dscWr, dscCnt, dneRd, wpc, dne>> /\ Holding(t) /\ spc[t] # "out"
      /\ ~Holding(t)' /\ spc'[t] = "out"
      /\ \A i \in Slots \ {s} : dsc'[i] = dsc[i]
      /\ \A u \in Threads \ {t} : spc'[u] = spc[u] /\ req'[u] = req[u]
  BY <1>1 DEF SendWriteDsc, Goto, TypeOK, Holding, memVars, workVars
<1>3. Window' /\ WorkerSends' /\ \A i \in Slots : InWindow(i)' <=> InWindow(i)
  BY <1>2 DEF Ring, Window, WorkerSends, Used, InWindow, Dist, Threads
<1>4. InWindow(s) /\ dne[s] = NoDne
      /\ \A u \in Threads \ {t} : Holding(u) => req[u].slot # s
  BY <1>1, <1>2 DEF Ring, InUseInWindow, RxSlotExclusive
<1>5. InUseInWindow'
  <2>1. ASSUME NEW u \in Threads, Holding(u)' PROVE InWindow(req[u].slot)'
    <3>1. PICK i \in Slots : i = req'[u].slot /\ Holding(u) /\ i = req[u].slot
      BY <1>2, <2>1, Fields DEF Holding
    <3>2. InWindow(i)'
      BY <1>3, <3>1 DEF Ring, InUseInWindow
    <3> QED
      BY <3>1, <3>2
  <2>2. \A i \in Slots : Busy(i)' => InWindow(i)'
    BY <1>2, <1>3, <1>4 DEF Ring, InUseInWindow, Busy
  <2> QED
    BY <2>1, <2>2 DEF InUseInWindow
<1>6. OneStage'
  BY <1>1, <1>2, <1>4 DEF Ring, OneStage
<1>7. RxSlotExclusive'
  <2>1. ASSUME NEW u \in Threads, Holding(u)'
        PROVE  u # t /\ Holding(u) /\ req'[u].slot = req[u].slot /\ req[u].slot \in Slots \ {s}
    BY <1>2, <1>4, <2>1, Fields DEF Holding
  <2> QED
    BY <1>2, <2>1 DEF Ring, RxSlotExclusive
<1> QED
  BY <1>3, <1>5, <1>6, <1>7 DEF Ring

(* The worker empties the first slot of the window and moves past it       *)
(* (lines 194-204); nobody else was using it.                              *)
LEMMA RingTake ==
    ASSUME TypeOK, Ring, Take
    PROVE  Ring'
<1>1. PICK s \in Slots : s = dneRd
  BY DEF TypeOK
<1>2. /\ UNCHANGED <<dsc, spc, req>> /\ dne[s] # NoDne /\ dne'[s] = NoDne
      /\ wpc = "poll" /\ wpc' = "sub"
      /\ \A i \in Slots \ {s} : dne'[i] = dne[i]
  BY <1>1 DEF Take, TypeOK, sendVars
<1>3. Window' /\ \A i \in Slots \ {s} : InWindow(i) => InWindow(i)'
  BY <1>1, WindowTake
<1>4. dsc[s] = NoDsc /\ \A t \in Threads : Holding(t) => req[t].slot \in Slots \ {s}
  BY <1>1, <1>2, Fields DEF Ring, OneStage, RxSlotExclusive
<1>5. WorkerSends'
  BY <1>2 DEF Ring, WorkerSends
<1>6. InUseInWindow'
  <2>1. ASSUME NEW u \in Threads, Holding(u)' PROVE InWindow(req[u].slot)'
    <3>1. PICK i \in Slots \ {s} : i = req'[u].slot /\ Holding(u) /\ i = req[u].slot
      BY <1>2, <1>4, <2>1 DEF Holding
    <3>2. InWindow(i)'
      BY <1>3, <3>1 DEF Ring, InUseInWindow
    <3> QED
      BY <3>1, <3>2
  <2>2. \A i \in Slots : Busy(i)' => InWindow(i)'
    BY <1>2, <1>3, <1>4 DEF Ring, InUseInWindow, Busy
  <2> QED
    BY <2>1, <2>2 DEF InUseInWindow
<1>7. OneStage' /\ RxSlotExclusive'
  BY <1>1, <1>2, <1>4 DEF Ring, OneStage, RxSlotExclusive, Holding
<1> QED
  BY <1>3, <1>5, <1>6, <1>7 DEF Ring

(* The card answers in the slot of the descriptor, which keeps one user.   *)
LEMMA RingReceive ==
    ASSUME TypeOK, Ring, NEW pkt \in Ports \cup {BadPacket}, Receive(pkt)
    PROVE  Ring'
<1>1. PICK s \in Slots : s = cardRd
  BY DEF TypeOK
<1>2. /\ UNCHANGED <<dscWr, dscCnt, dneRd, wpc, spc, req>>
      /\ dsc[s] # NoDsc /\ dsc'[s] = NoDsc
      /\ \A i \in Slots \ {s} : dsc'[i] = dsc[i] /\ dne'[i] = dne[i]
  BY <1>1 DEF Receive, TypeOK, memVars, sendVars, workVars
<1>3. Window' /\ WorkerSends' /\ \A i \in Slots : InWindow(i)' <=> InWindow(i)
  BY <1>2 DEF Ring, Window, WorkerSends, Used, InWindow, Dist
<1>4. Busy(s) /\ InWindow(s) /\ \A t \in Threads : Holding(t) => req[t].slot \in Slots \ {s}
  BY <1>2, Fields DEF Ring, InUseInWindow, RxSlotExclusive, Busy
<1>5. InUseInWindow'
  <2>1. ASSUME NEW u \in Threads, Holding(u)' PROVE InWindow(req[u].slot)'
    <3>1. PICK i \in Slots : i = req'[u].slot /\ Holding(u) /\ i = req[u].slot
      BY <1>2, <1>4, <2>1 DEF Holding
    <3>2. InWindow(i)'
      BY <1>3, <3>1 DEF Ring, InUseInWindow
    <3> QED
      BY <3>1, <3>2
  <2>2. \A i \in Slots : Busy(i)' => InWindow(i)'
    BY <1>2, <1>3, <1>4 DEF Ring, InUseInWindow, Busy
  <2> QED
    BY <2>1, <2>2 DEF InUseInWindow
<1>6. OneStage' /\ RxSlotExclusive'
  BY <1>2, <1>4 DEF Ring, OneStage, RxSlotExclusive, Holding
<1> QED
  BY <1>3, <1>5, <1>6 DEF Ring

(* The slots in use are those of the window, and each has one user.        *)
LEMMA RingInvariant == Spec => []Ring
<1>1. Init => Ring
  <2> SUFFICES ASSUME Init PROVE Ring
    OBVIOUS
  <2>1. Used = 0 /\ dscWr = 0 /\ dneRd = 0 /\ \A t \in Threads : ~Holding(t)
    BY DEF Init, Used, Holding
  <2>2. \A i \in Slots : ~Busy(i)
    BY DEF Init, Busy
  <2> QED
    BY <2>1, <2>2, Sizes DEF Init, Ring, WorkerSends, Window, InUseInWindow, OneStage, Busy,
                             RxSlotExclusive, Wrap, Threads
<1>2. TypeOK /\ Ring /\ [Next]_vars => Ring'
  BY QuietSteps, RingQuiet, RingReserve, RingWriteDsc, RingTake, RingReceive DEF Moving, Ring
<1> QED
  BY <1>1, <1>2, TypeCorrect, PTL DEF Spec

(* However many allocations fail, the slot that probe or the worker fills  *)
(* in outside the lock is nobody else's: "make sure we fit in the          *)
(* descriptor ring" (line 327).                                            *)
THEOREM RxSlotsAreExclusive == Spec => []RxSlotExclusive
<1>1. Ring => RxSlotExclusive
  BY DEF Ring
<1> QED
  BY <1>1, RingInvariant, PTL

-----------------------------------------------------------------------------
(* Whose each packet is                                                    *)
(*                                                                         *)
(* RxCompletionMatches speaks of completions only.  The invariant follows  *)
(* the packet from the thread that allocated it through the bookkeeping    *)
(* and the descriptor to the completion, and says that it is in one place. *)

(* What the bookkeeping says of a slot is what the card has for it.        *)
BkRight ==
    /\ \A t \in Threads : spc[t] = "dsc" => bk[req[t].slot] = req[t].skb
    /\ \A i \in Slots : /\ dsc[i] # NoDsc => dsc[i].skb = bk[i]
                        /\ dne[i] # NoDne => dne[i].skb = bk[i]

(* A packet is with one thread, in one slot or the one that the worker is  *)
(* looking at, and the driver has it.                                      *)
OneOwner ==
    /\ \A t \in Threads : Holding(t) =>
           /\ req[t].skb \in held
           /\ wpc # "poll" => req[t].skb # cur.skb
           /\ \A u \in Threads \ {t} : Holding(u) => req[u].skb # req[t].skb
           /\ \A i \in Slots : Busy(i) => bk[i] # req[t].skb
    /\ \A i \in Slots : Busy(i) =>
           /\ bk[i] \in held
           /\ wpc # "poll" => bk[i] # cur.skb
           /\ \A j \in Slots \ {i} : Busy(j) => bk[j] # bk[i]
    /\ wpc # "poll" => cur.skb \in held

Packets == BkRight /\ OneOwner

(* A new packet is in nobody else's hands.                                 *)
LEMMA PacketsReserve ==
    ASSUME TypeOK, Packets, NEW t \in Threads, NEW s \in Skbs, SendReserve(t, s)
    PROVE  Packets'
<1>1. /\ UNCHANGED <<bk, dsc, dne, wpc, cur>> /\ s \notin held /\ held' = held \cup {s}
      /\ spc'[t] = "bk" /\ req'[t].skb = s
      /\ \A u \in Threads \ {t} : spc'[u] = spc[u] /\ req'[u] = req[u]
  BY DEF SendReserve, Goto, TypeOK, cardVars, workVars
<1>2. BkRight'
  BY <1>1 DEF Packets, BkRight
<1>3. OneOwner'
  BY <1>1 DEF Packets, OneOwner, Holding, Busy
<1> QED
  BY <1>2, <1>3 DEF Packets

(* The slot belongs to nobody else, so its bookkeeping is not in use.      *)
LEMMA PacketsWriteBk ==
    ASSUME TypeOK, Ring, Packets, NEW t \in Threads, SendWriteBk(t)
    PROVE  Packets'
<1>1. PICK s \in Slots : s = req[t].slot
  BY Fields
<1>2. /\ UNCHANGED <<dsc, dne, wpc, cur, held, req>> /\ spc[t] = "bk" /\ spc'[t] = "dsc"
      /\ bk'[s] = req[t].skb /\ \A i \in Slots \ {s} : bk'[i] = bk[i]
      /\ \A u \in Threads \ {t} : spc'[u] = spc[u]
  BY <1>1 DEF SendWriteBk, Goto, TypeOK, cardVars, workVars
<1>3. /\ ~Busy(s)
      /\ \A u \in Threads \ {t} : Holding(u) => req[u].slot \in Slots \ {s}
  BY <1>1, <1>2, Fields DEF Ring, RxSlotExclusive, Holding, Busy
<1>4. BkRight'
  <2>1. \A u \in Threads : spc'[u] = "dsc" => bk'[req'[u].slot] = req'[u].skb
    BY <1>1, <1>2, <1>3 DEF Packets, BkRight, Holding
  <2> QED
    BY <1>2, <1>3, <2>1 DEF Packets, BkRight, Busy
<1>5. OneOwner'
  BY <1>2, <1>3 DEF Packets, OneOwner, Holding, Busy
<1> QED
  BY <1>4, <1>5 DEF Packets

(* The card gets the packet that the bookkeeping names (line 380).         *)
LEMMA PacketsWriteDsc ==
    ASSUME TypeOK, Ring, Packets, NEW t \in Threads, SendWriteDsc(t)
    PROVE  Packets'
<1>1. PICK s \in Slots : s = req[t].slot
  BY Fields
<1>2. /\ UNCHANGED <<bk, dne, wpc, cur, held>> /\ spc[t] = "dsc" /\ spc'[t] = "out"
      /\ dsc'[s].skb = req[t].skb /\ \A i \in Slots \ {s} : dsc'[i] = dsc[i]
      /\ \A u \in Threads \ {t} : spc'[u] = spc[u] /\ req'[u] = req[u]
  BY <1>1 DEF SendWriteDsc, Goto, TypeOK, workVars
<1>3. bk[s] = req[t].skb /\ dne[s] = NoDne
  BY <1>1, <1>2 DEF Packets, BkRight, Ring, RxSlotExclusive, Holding
<1>4. BkRight'
  BY <1>1, <1>2, <1>3 DEF Packets, BkRight
<1>5. OneOwner'
  <2>1. \A i \in Slots : Busy(i)' => i = s \/ Busy(i)
    BY <1>2 DEF Busy
  <2>2. \A u \in Threads : Holding(u)' => u # t /\ Holding(u) /\ req'[u] = req[u]
    BY <1>2 DEF Holding
  <2>3. Holding(t)
    BY <1>2 DEF Holding
  <2> QED
    BY <1>2, <1>3, <2>1, <2>2, <2>3 DEF Packets, OneOwner
<1> QED
  BY <1>4, <1>5 DEF Packets

(* The worker gets the packet of the completion that it reads (line 207).  *)
LEMMA PacketsTake ==
    ASSUME TypeOK, Ring, Packets, Take
    PROVE  Packets'
<1>1. PICK s \in Slots : s = dneRd
  BY DEF TypeOK
<1>2. /\ UNCHANGED <<bk, dsc, spc, req, held>> /\ dne[s] # NoDne /\ dne'[s] = NoDne
      /\ cur'.skb = bk[s]
      /\ \A i \in Slots \ {s} : dne'[i] = dne[i]
  BY <1>1 DEF Take, TypeOK, sendVars
<1>3. Busy(s) /\ ~Busy(s)' /\ \A i \in Slots \ {s} : Busy(i)' <=> Busy(i)
  BY <1>2 DEF Ring, OneStage, Busy
<1>4. BkRight'
  BY <1>2 DEF Packets, BkRight
<1>5. OneOwner'
  BY <1>2, <1>3 DEF Packets, OneOwner, Holding
<1> QED
  BY <1>4, <1>5 DEF Packets

(* The card reports the packet of the descriptor that it used.             *)
LEMMA PacketsReceive ==
    ASSUME TypeOK, Packets, NEW pkt \in Ports \cup {BadPacket}, Receive(pkt)
    PROVE  Packets'
<1>1. PICK s \in Slots : s = cardRd
  BY DEF TypeOK
<1>2. /\ UNCHANGED <<bk, spc, req, held, wpc, cur>> /\ dsc[s] # NoDsc /\ dsc'[s] = NoDsc
      /\ dne'[s].skb = dsc[s].skb
      /\ \A i \in Slots \ {s} : dsc'[i] = dsc[i] /\ dne'[i] = dne[i]
  BY <1>1 DEF Receive, TypeOK, sendVars, workVars
<1>3. \A i \in Slots : Busy(i)' => Busy(i)
  BY <1>2 DEF Busy
<1>4. BkRight'
  BY <1>2 DEF Packets, BkRight
<1>5. OneOwner'
  BY <1>2, <1>3 DEF Packets, OneOwner, Holding
<1> QED
  BY <1>4, <1>5 DEF Packets

(* The worker's packet is delivered or freed; or it stays the driver's.    *)
LEMMA PacketsRest ==
    ASSUME TypeOK, Packets, Quiet, [Next]_vars, ~Moving, \A t \in Threads : ~SendWriteBk(t)
    PROVE  Packets'
<1>1. \A t \in Threads : /\ Holding(t)' <=> Holding(t)
                         /\ Holding(t) => req'[t] = req[t] /\ spc'[t] = spc[t]
  <2>1. ASSUME NEW t \in Threads, SendNoRoom(t) \/ SendAllocFail(t), NEW u \in Threads, Holding(u)
        PROVE  spc'[u] = spc[u]
    BY <2>1 DEF SendNoRoom, SendAllocFail, Goto, TypeOK, Holding
  <2>2. ASSUME ProbeSend \/ Sub, NEW u \in Threads, Holding(u), Holding(u)'
        PROVE  spc'[u] = spc[u]
    BY <2>2 DEF ProbeSend, Sub, Goto, TypeOK, Holding, Threads
  <2>3. ASSUME \/ Decode \/ Deliver \/ Drop \/ UNCHANGED vars
               \/ \E p \in Ports : Open(p) \/ Stop(p)
        PROVE  spc' = spc
    BY <2>3 DEF Decode, Deliver, Drop, Open, Stop, vars, sendVars
  <2> QED
    BY <2>1, <2>2, <2>3 DEF Quiet, Next, Send, Moving
<1>2. UNCHANGED <<bk, dsc, dne>>
  BY DEF Quiet, Next, Send, Moving, SendNoRoom, SendAllocFail, ProbeSend, Sub, Decode, Deliver,
         Drop, Open, Stop, vars
<1>3. BkRight'
  BY <1>1, <1>2 DEF Packets, BkRight, Holding
<1>4. \A i \in Slots : Busy(i)' <=> Busy(i)
  BY <1>2 DEF Busy
<1>5. ASSUME Deliver \/ Drop PROVE OneOwner'
  <2>1. wpc # "poll" /\ wpc' = "poll" /\ held' = held \ {cur.skb}
    BY <1>5 DEF Deliver, Drop
  <2> QED
    BY <1>1, <1>2, <1>4, <2>1 DEF Packets, OneOwner
<1>6. ASSUME ~Deliver, ~Drop PROVE OneOwner'
  <2>1. ASSUME NEW t \in Threads, SendNoRoom(t) \/ SendAllocFail(t)
        PROVE  UNCHANGED <<held, cur, wpc>>
    BY <2>1 DEF SendNoRoom, SendAllocFail, workVars
  <2>2. ASSUME \/ ProbeSend \/ UNCHANGED vars \/ \E p \in Ports : Open(p) \/ Stop(p)
        PROVE  UNCHANGED <<held, cur, wpc>>
    BY <2>2 DEF ProbeSend, Open, Stop, vars, workVars
  <2>3. ASSUME Sub \/ Decode PROVE UNCHANGED <<held, cur>> /\ wpc # "poll"
    BY <2>3 DEF Sub, Decode
  <2>4. UNCHANGED <<held, cur>> /\ (wpc' # "poll" => wpc # "poll")
    BY <1>6, <2>1, <2>2, <2>3 DEF Next, Send, Moving
  <2> QED
    BY <1>1, <1>2, <1>4, <2>4 DEF Packets, OneOwner
<1> QED
  BY <1>3, <1>5, <1>6 DEF Packets

(* Bookkeeping, card and completion ring agree on the packet of each slot, *)
(* and nobody has a packet that another one has.                           *)
LEMMA PacketInvariant == Spec => []Packets
<1>1. Init => Packets
  <2> SUFFICES ASSUME Init PROVE Packets
    OBVIOUS
  <2>1. /\ \A t \in Threads : spc[t] = "out" /\ ~Holding(t)
        /\ \A i \in Slots : dsc[i] = NoDsc /\ dne[i] = NoDne /\ ~Busy(i)
        /\ wpc = "poll"
    BY DEF Init, Holding, Busy
  <2> QED
    BY <2>1 DEF Packets, BkRight, OneOwner
<1>2. TypeOK /\ Ring /\ Packets /\ [Next]_vars => Packets'
  <2> SUFFICES ASSUME TypeOK, Ring, Packets, [Next]_vars PROVE Packets'
    OBVIOUS
  <2>1. CASE Moving
    BY <2>1, PacketsReserve, PacketsWriteDsc, PacketsTake, PacketsReceive DEF Moving
  <2>2. CASE ~Moving
    BY <2>2, QuietSteps, PacketsWriteBk, PacketsRest DEF Ring
  <2> QED
    BY <2>1, <2>2
<1> QED
  BY <1>1, <1>2, TypeCorrect, RingInvariant, PTL DEF Spec

(* The packet that the worker takes for a completion (line 207) is the one *)
(* that the card filled, and the driver still has it, although all that    *)
(* leads from one to the other is the index of the completion.             *)
THEOREM CompletionsMatch == Spec => []RxCompletionMatches
<1>1. Packets => RxCompletionMatches
  BY DEF Packets, BkRight, OneOwner, Busy, RxCompletionMatches
<1> QED
  BY <1>1, PacketInvariant, PTL

(* The card writes only to packets that the driver has, never to one that  *)
(* the worker is about to hand to the network stack (lines 240-284), and   *)
(* no two descriptors give it the same packet.                             *)
THEOREM CardWritesOnlyHeld == Spec => []CardWritesHeldOnly
<1>1. TypeOK /\ Packets => CardWritesHeldOnly
  <2> SUFFICES ASSUME TypeOK, Packets, NEW i \in Slots, dsc[i] # NoDsc
               PROVE  /\ dsc[i].skb \in held
                      /\ wpc # "poll" => dsc[i].skb # cur.skb
                      /\ \A j \in Slots : j # i => dsc[j].skb # dsc[i].skb
    BY DEF CardWritesHeldOnly
  <2>1. dsc[i].skb = bk[i] /\ Busy(i)
    BY DEF Packets, BkRight, Busy
  <2>2. dsc[i].skb \in Skbs
    BY <2>1 DEF Packets, OneOwner, TypeOK
  <2>3. ASSUME NEW j \in Slots, j # i PROVE dsc[j].skb # dsc[i].skb
    <3>1. CASE dsc[j] = NoDsc
      BY <2>2, <3>1, RxAssumption DEF NoDsc
    <3>2. CASE dsc[j] # NoDsc
      BY <2>1, <2>3, <3>2 DEF Packets, BkRight, OneOwner, Busy
    <3> QED
      BY <3>1, <3>2
  <2> QED
    BY <2>1, <2>3 DEF Packets, OneOwner
<1> QED
  BY <1>1, TypeCorrect, PacketInvariant, PTL

-----------------------------------------------------------------------------
(* The packet buffer                                                       *)
(*                                                                         *)
(* RxBuffersDisjoint says nothing of the lines at pktWr.  The invariant    *)
(* lays the slots of the window out one after the other: counted from      *)
(* where the buffer of the slot at dneRd begins, slot i has the BufLines   *)
(* lines from BufLines * Dist(i) on, and pktWr is behind the last ones.    *)

Space(head) ==
    /\ pktWr = Wrap(head + BufLines * Used, M)
    /\ \A t \in Threads : Holding(t) => req[t].addr = Wrap(head + BufLines * Dist(req[t].slot), M)
    /\ \A i \in Slots : dsc[i] # NoDsc => dsc[i].addr = Wrap(head + BufLines * Dist(i), M)

(* The counter has BufLines for each descriptor it has.                    *)
Counted == pktCnt = BufLines * dscCnt /\ BufLines * Used \in 0..M /\ BufLines * dscCnt <= M

LaidOut == \E head \in Lines : Space(head)

(* Multiples of BufLines are in the order of the factors.                  *)
LEMMA Multiples ==
    ASSUME NEW a \in Int, NEW b \in Int
    PROVE  /\ BufLines * a \in Int
           /\ BufLines * (a + 1) = BufLines * a + BufLines
           /\ BufLines * (a - 1) = BufLines * a - BufLines
           /\ a <= b => BufLines * a <= BufLines * b
           /\ a < b => BufLines * a + BufLines <= BufLines * b
<1>1. BufLines \in Nat /\ BufLines > 0
  BY Sizes
<1>2. a <= b => BufLines * a <= BufLines * b
  BY <1>1
<1>3. BufLines * (a + 1) = BufLines * a + BufLines /\ BufLines * (a - 1) = BufLines * a - BufLines
  BY <1>1
<1>4. ASSUME a < b PROVE BufLines * a + BufLines <= BufLines * b
  <2>1. a + 1 <= b
    BY <1>4
  <2>2. BufLines * (a + 1) <= BufLines * b
    BY <1>1, <2>1
  <2> QED
    BY <1>3, <2>2
<1> QED
  BY <1>1, <1>2, <1>3, <1>4

(* The counters keep step.                                                 *)
LEMMA CountedNext ==
    ASSUME TypeOK, Ring, Counted, [Next]_vars
    PROVE  Counted'
<1>1. /\ dscCnt \in Int /\ pktCnt \in Int /\ M \in Nat /\ BufLines \in Nat /\ Used \in Nat
  BY Sizes DEF TypeOK, Ring, Window
<1>2. ASSUME NEW t \in Threads, NEW s \in Skbs, SendReserve(t, s) PROVE Counted'
  <2>1. /\ dscCnt' = dscCnt + 1 /\ pktCnt' = pktCnt + BufLines /\ pktCnt + BufLines <= M
        /\ wpc' = wpc
    BY <1>2 DEF SendReserve, Room, workVars
  <2>2. Used' = Used + 1 /\ Used <= dscCnt
    BY <1>1, <2>1 DEF Used
  <2>3. /\ BufLines * dscCnt' = BufLines * dscCnt + BufLines
        /\ BufLines * Used' = BufLines * Used + BufLines
        /\ BufLines * Used <= BufLines * dscCnt
    BY <1>1, <2>1, <2>2, Multiples
  <2>4. /\ pktCnt = BufLines * dscCnt /\ BufLines * Used \in 0..M
    BY DEF Counted
  <2> QED
    BY <1>1, <2>1, <2>3, <2>4 DEF Counted
<1>3. CASE Take
  <2>1. Used' = Used - 1 /\ Used >= 1 /\ UNCHANGED <<dscCnt, pktCnt>>
    BY <1>3, WindowTake DEF Take, memVars
  <2>2. BufLines * Used' = BufLines * Used - BufLines /\ BufLines * 0 + BufLines <= BufLines * Used
    BY <1>1, <2>1, Multiples
  <2> QED
    BY <1>1, <2>1, <2>2 DEF Counted
<1>4. ASSUME \/ \E t \in Threads : SendWriteDsc(t)
             \/ \E pkt \in Ports \cup {BadPacket} : Receive(pkt)
      PROVE  Counted'
  <2>1. UNCHANGED <<dscCnt, pktCnt, wpc>>
    BY <1>4 DEF SendWriteDsc, Receive, memVars, workVars
  <2> QED
    BY <2>1 DEF Counted, Used
<1>5. CASE ~Moving
  <2>1. Quiet
    BY <1>5, QuietSteps DEF Ring
  <2>2. Used' = Used
    BY <1>1, <2>1 DEF Quiet, Used
  <2>3. CASE UNCHANGED <<dscCnt, pktCnt>>
    BY <2>2, <2>3 DEF Counted
  <2>4. CASE dscCnt' = dscCnt - 1 /\ pktCnt' = pktCnt - BufLines
    <3>1. BufLines * dscCnt' = BufLines * dscCnt - BufLines /\ BufLines * dscCnt \in Int
      BY <1>1, <2>4, Multiples
    <3> QED
      BY <1>1, <2>2, <2>4, <3>1 DEF Counted
  <2> QED
    BY <2>1, <2>3, <2>4 DEF Quiet
<1> QED
  BY <1>2, <1>3, <1>4, <1>5 DEF Moving

(* A reservation takes the lines behind those of the window.               *)
LEMMA LaidOutReserve ==
    ASSUME TypeOK, Ring, Counted, Counted', LaidOut,
           NEW t \in Threads, NEW s \in Skbs, SendReserve(t, s)
    PROVE  LaidOut'
<1>1. PICK head \in Lines : Space(head)
  BY DEF LaidOut
<1>2. PICK new \in Slots : new = dscWr
  BY DEF TypeOK
<1>3. /\ UNCHANGED <<dsc, dneRd>> /\ spc'[t] = "bk" /\ req'[t].slot = new /\ req'[t].addr = pktWr
      /\ pktWr' = Wrap(pktWr + BufLines, M)
      /\ \A u \in Threads \ {t} : spc'[u] = spc[u] /\ req'[u] = req[u]
  BY <1>2 DEF SendReserve, Goto, TypeOK, cardVars, workVars
<1>4. /\ Used' = Used + 1 /\ Used \in Int /\ Dist(new) = Used
      /\ \A i \in Slots : Dist(i)' = Dist(i)
  BY <1>2, WindowReserve
<1>5. BufLines * Used' = BufLines * Used + BufLines /\ BufLines * Used \in Int
  BY <1>4, Multiples
<1>6. pktWr' = Wrap(head + BufLines * Used', M)
  BY <1>1, <1>3, <1>5, Sizes, SMTT(30) DEF Space, Counted, Wrap
<1>7. \A u \in Threads : Holding(u)' =>
          req'[u].addr = Wrap(head + BufLines * Dist(req[u].slot)', M)
  <2>1. ASSUME NEW u \in Threads, Holding(u)', u = t
        PROVE  req'[u].addr = Wrap(head + BufLines * Dist(req[u].slot)', M)
    BY <1>1, <1>3, <1>4, <2>1 DEF Space, Dist
  <2>2. ASSUME NEW u \in Threads, Holding(u)', u # t
        PROVE  req'[u].addr = Wrap(head + BufLines * Dist(req[u].slot)', M)
    BY <1>1, <1>3, <2>2 DEF Space, Holding, Dist
  <2> QED
    BY <2>1, <2>2
<1>8. Space(head)'
  BY <1>1, <1>3, <1>4, <1>6, <1>7 DEF Space
<1> QED
  BY <1>8 DEF LaidOut

(* Taking the first completion moves the origin to the next slot's lines.  *)
LEMMA LaidOutTake ==
    ASSUME TypeOK, Ring, Counted, LaidOut, Take
    PROVE  LaidOut'
<1>1. PICK head \in Lines : Space(head)
  BY DEF LaidOut
<1>2. PICK s \in Slots : s = dneRd
  BY DEF TypeOK
<1> DEFINE head2 == Wrap(head + BufLines, M)
<1>3. head2 \in Lines
  BY NextLines
<1>4. /\ UNCHANGED <<dsc, pktWr, spc, req>> /\ dne[s] # NoDne
  BY <1>2 DEF Take, memVars, sendVars
<1>5. /\ Used' = Used - 1 /\ Used \in 1..N
      /\ \A i \in Slots \ {s} : Dist(i)' = Dist(i) - 1
  BY <1>2, WindowTake
<1>6. dsc[s] = NoDsc /\ \A t \in Threads : Holding(t) => req[t].slot \in Slots \ {s}
  BY <1>4, Fields DEF Ring, OneStage, RxSlotExclusive
<1>7. ASSUME NEW d \in 1..Used
      PROVE  Wrap(head2 + BufLines * (d - 1), M) = Wrap(head + BufLines * d, M)
  <2>1. /\ BufLines * (d - 1) = BufLines * d - BufLines /\ BufLines * d \in Int
        /\ BufLines * d <= BufLines * Used /\ BufLines <= BufLines * d
        /\ BufLines * Used \in Int
    <3>1. d \in Int /\ Used \in Int /\ 0 < d /\ d <= Used
      BY <1>5, Sizes
    <3>2. BufLines * 0 = 0 /\ BufLines \in Int
      BY Sizes
    <3>3. BufLines * 0 + BufLines <= BufLines * d
      BY <3>1, Multiples
    <3> QED
      BY <3>1, <3>2, <3>3, Multiples
  <2>2. BufLines * d \in BufLines..M
    BY <2>1, Sizes DEF Counted
  <2> QED
    BY <2>1, <2>2, Sizes DEF Wrap
<1>8. ASSUME NEW i \in Slots \ {s}, InWindow(i)
      PROVE  Wrap(head2 + BufLines * Dist(i)', M) = Wrap(head + BufLines * Dist(i), M)
  <2>1. Dist(i) \in 1..Used
    <3>1. Dist(i) \in 0..(N - 1) /\ Dist(i) < Used
      BY <1>8, DistInRing DEF InWindow
    <3>2. Dist(i) # 0
      BY <1>2, Sizes DEF Dist, TypeOK
    <3> QED
      BY <1>5, <3>1, <3>2
  <2> QED
    BY <1>5, <1>7, <2>1
<1>9. pktWr' = Wrap(head2 + BufLines * Used', M)
  BY <1>1, <1>4, <1>5, <1>7 DEF Space
<1>10. \A t \in Threads : Holding(t)' =>
          req'[t].addr = Wrap(head2 + BufLines * Dist(req[t].slot)', M)
  <2>1. ASSUME NEW t \in Threads, Holding(t)'
        PROVE  req'[t].addr = Wrap(head2 + BufLines * Dist(req[t].slot)', M)
    <3>1. Holding(t) /\ req'[t] = req[t]
      BY <1>4, <2>1 DEF Holding
    <3>2. PICK i \in Slots \ {s} : i = req[t].slot /\ i = req'[t].slot /\ InWindow(i)
      BY <1>6, <3>1 DEF Ring, InUseInWindow
    <3>3. req[t].addr = Wrap(head + BufLines * Dist(i), M)
      BY <1>1, <3>1, <3>2 DEF Space
    <3>4. Dist(req[t].slot)' = Dist(i)'
      BY <3>2 DEF Dist
    <3> QED
      BY <1>8, <3>1, <3>2, <3>3, <3>4
  <2> QED
    BY <2>1
<1>11. \A i \in Slots : dsc'[i] # NoDsc => dsc'[i].addr = Wrap(head2 + BufLines * Dist(i)', M)
  <2>1. ASSUME NEW i \in Slots, dsc'[i] # NoDsc
        PROVE  dsc'[i].addr = Wrap(head2 + BufLines * Dist(i)', M)
    <3>1. i # s /\ InWindow(i) /\ dsc[i].addr = Wrap(head + BufLines * Dist(i), M)
      BY <1>1, <1>4, <1>6, <2>1 DEF Space, Ring, InUseInWindow, Busy
    <3> QED
      BY <1>4, <1>8, <3>1
  <2> QED
    BY <2>1
<1>12. Space(head2)'
  BY <1>9, <1>10, <1>11 DEF Space
<1> HIDE DEF head2
<1> QED
  BY <1>3, <1>12 DEF LaidOut

(* The only steps that move the lines are SendReserve and Take.            *)
LEMMA LaidOutNext ==
    ASSUME TypeOK, Ring, Counted, Counted', LaidOut, [Next]_vars
    PROVE  LaidOut'
<1>1. PICK head \in Lines : Space(head)
  BY DEF LaidOut
<1>2. ASSUME NEW t \in Threads, SendWriteDsc(t) PROVE LaidOut'
  <2>1. PICK s \in Slots : s = req[t].slot
    BY Fields
  <2>2. /\ UNCHANGED <<pktWr, dscCnt, dneRd, wpc>> /\ Holding(t) /\ ~Holding(t)'
        /\ dsc'[s].addr = req[t].addr
        /\ \A i \in Slots \ {s} : dsc'[i] = dsc[i]
        /\ \A u \in Threads \ {t} : spc'[u] = spc[u] /\ req'[u] = req[u]
    BY <1>2, <2>1 DEF SendWriteDsc, Goto, TypeOK, Holding, memVars, workVars
  <2>3. dsc'[s].addr = Wrap(head + BufLines * Dist(s), M)
    BY <1>1, <2>1, <2>2 DEF Space
  <2>4. Space(head)'
    BY <1>1, <2>2, <2>3 DEF Space, Holding, Used, Dist
  <2> QED
    BY <2>4 DEF LaidOut
<1>3. ASSUME NEW pkt \in Ports \cup {BadPacket}, Receive(pkt) PROVE LaidOut'
  <2>1. /\ UNCHANGED <<pktWr, dscCnt, dneRd, wpc, spc, req>>
        /\ \A i \in Slots : dsc'[i] # NoDsc => dsc'[i] = dsc[i]
    BY <1>3 DEF Receive, TypeOK, memVars, sendVars, workVars
  <2>2. Space(head)'
    BY <1>1, <2>1 DEF Space, Holding, Used, Dist
  <2> QED
    BY <2>2 DEF LaidOut
<1>4. CASE ~Moving
  <2>1. Quiet /\ dscCnt \in Int
    BY <1>4, QuietSteps DEF Ring, TypeOK
  <2>2. Used' = Used
    BY <2>1 DEF Quiet, Used
  <2>3. Space(head)'
    BY <1>1, <2>1, <2>2 DEF Space, Quiet, Dist
  <2> QED
    BY <2>3 DEF LaidOut
<1> QED
  BY <1>2, <1>3, <1>4, LaidOutReserve, LaidOutTake DEF Moving

(* The packets with a slot lie one after the other in the buffer.          *)
LEMMA SpaceInvariant == Spec => [](Counted /\ LaidOut)
<1>1. Init => Counted /\ LaidOut
  <2> SUFFICES ASSUME Init PROVE Counted /\ LaidOut
    OBVIOUS
  <2>1. Used = 0 /\ pktWr = 0 /\ dscCnt = 0 /\ pktCnt = 0
    BY DEF Init, Used
  <2>2. BufLines * 0 = 0 /\ 0 \in Lines
    BY Sizes
  <2>3. Space(0)
    BY <2>1, <2>2, Sizes DEF Init, Space, Holding, Wrap
  <2> QED
    BY <2>1, <2>2, <2>3, Sizes DEF Counted, LaidOut
<1> QED
  BY <1>1, CountedNext, LaidOutNext, TypeCorrect, RingInvariant, PTL DEF Spec

(* The lines from a on, as many as a receive buffer has.                   *)
LinesOf(a) == {Wrap(a + k, M) : k \in 0..(BufLines - 1)}

(* Places of the buffer that are less than M apart are different lines.    *)
LEMMA LinesApart ==
    ASSUME NEW head \in Lines, NEW a \in Nat, NEW b \in Nat, NEW k \in Nat, NEW l \in Nat,
           a + k < b + l, b + l < M
    PROVE  Wrap(Wrap(head + a, M) + k, M) # Wrap(Wrap(head + b, M) + l, M)
<1>1. M \in Nat /\ head \in 0..(M - 1)
  BY Sizes
<1>2. Wrap(Wrap(head + a, M) + k, M) = Wrap(head + (a + k), M)
  BY <1>1 DEF Wrap
<1>3. Wrap(Wrap(head + b, M) + l, M) = Wrap(head + (b + l), M)
  BY <1>1 DEF Wrap
<1>4. Wrap(head + (a + k), M) # Wrap(head + (b + l), M)
  BY <1>1 DEF Wrap
<1> QED
  BY <1>2, <1>3, <1>4

(* Two slots of the window have different lines.                           *)
LEMMA RegionsApart ==
    ASSUME TypeOK, Ring, Counted, NEW head \in Lines,
           NEW i \in Slots, NEW j \in Slots, i # j, InWindow(i), InWindow(j)
    PROVE  LinesOf(Wrap(head + BufLines * Dist(i), M))
               \cap LinesOf(Wrap(head + BufLines * Dist(j), M)) = {}
<1>1. /\ Dist(i) \in Int /\ Dist(i) >= 0 /\ Dist(i) < Used
      /\ Dist(j) \in Int /\ Dist(j) >= 0 /\ Dist(j) < Used
      /\ Dist(i) # Dist(j) /\ Used \in Int
  BY DistInRing, DistInjective, Sizes DEF InWindow, Ring, Window
<1>2. ASSUME NEW c \in Nat, NEW d \in Nat, c < d, d < Used,
             NEW k \in 0..(BufLines - 1), NEW l \in 0..(BufLines - 1)
      PROVE  Wrap(Wrap(head + BufLines * c, M) + k, M) # Wrap(Wrap(head + BufLines * d, M) + l, M)
  <2>1. /\ BufLines * c \in Int /\ BufLines * d \in Int /\ BufLines * Used \in Int
        /\ BufLines * c + BufLines <= BufLines * d
        /\ BufLines * d + BufLines <= BufLines * Used
    <3>1. PICK u \in Int : u = Used
      BY <1>1
    <3>2. c \in Int /\ d \in Int /\ c < d /\ d < u
      BY <1>2, <3>1
    <3>3. BufLines * c \in Int /\ BufLines * d \in Int /\ BufLines * u \in Int
      BY <3>1, <3>2, Multiples
    <3>4. BufLines * c + BufLines <= BufLines * d
      BY <3>2, Multiples
    <3>5. BufLines * d + BufLines <= BufLines * u
      BY <3>1, <3>2, Multiples
    <3> QED
      BY <3>1, <3>3, <3>4, <3>5
  <2>2. BufLines * 0 <= BufLines * c /\ BufLines * 0 = 0
    BY <1>2, Multiples, Sizes
  <2>3. BufLines * c \in Nat /\ BufLines * d \in Nat
    BY <2>1, <2>2, Sizes
  <2>4. BufLines * c + k < BufLines * d + l /\ BufLines * d + l < M
    BY <2>1, <2>3, Sizes DEF Counted
  <2> QED
    BY <2>3, <2>4, LinesApart
<1>3. CASE Dist(i) < Dist(j)
  <2>1. Dist(i) \in Nat /\ Dist(j) \in Nat
    BY <1>1
  <2> QED
    BY <1>1, <1>2, <1>3, <2>1 DEF LinesOf
<1>4. CASE Dist(j) < Dist(i)
  <2>1. Dist(i) \in Nat /\ Dist(j) \in Nat
    BY <1>1
  <2>2. \A k, l \in 0..(BufLines - 1) :
            Wrap(Wrap(head + BufLines * Dist(i), M) + k, M)
                # Wrap(Wrap(head + BufLines * Dist(j), M) + l, M)
    BY <1>1, <1>2, <1>4, <2>1
  <2> QED
    BY <2>2 DEF LinesOf
<1> QED
  BY <1>1, <1>3, <1>4

(* "... and packet buffer" (line 327): the card never stores two packets   *)
(* that arrive in the same lines, whoever posted their descriptors.        *)
THEOREM RxBuffersAreDisjoint == Spec => []RxBuffersDisjoint
<1>1. ASSUME TypeOK, Ring, Counted, LaidOut
      PROVE  RxBuffersDisjoint
  <2>1. PICK head \in Lines : Space(head)
    BY <1>1 DEF LaidOut
  <2> DEFINE R(i) == LinesOf(Wrap(head + BufLines * Dist(i), M))
  <2>2. ASSUME NEW i \in Slots, NEW j \in Slots, i # j, InWindow(i), InWindow(j)
        PROVE  R(i) \cap R(j) = {}
    BY <1>1, <2>2, RegionsApart
  <2>3. \A i \in Slots : dsc[i] # NoDsc => InWindow(i) /\ LinesOf(dsc[i].addr) = R(i)
    BY <1>1, <2>1 DEF Space, Ring, InUseInWindow, Busy
  <2>4. \A t \in Threads : Holding(t) =>
            /\ req[t].slot \in Slots /\ InWindow(req[t].slot) /\ dsc[req[t].slot] = NoDsc
            /\ LinesOf(req[t].addr) = R(req[t].slot)
    BY <1>1, <2>1, Fields DEF Space, Ring, InUseInWindow, RxSlotExclusive
  <2> HIDE DEF R
  <2>5. \A i, j \in Slots : dsc[i] # NoDsc /\ dsc[j] # NoDsc /\ i # j
            => LinesOf(dsc[i].addr) \cap LinesOf(dsc[j].addr) = {}
    BY <2>2, <2>3
  <2>6. \A t \in Threads, i \in Slots : Holding(t) /\ dsc[i] # NoDsc
            => LinesOf(req[t].addr) \cap LinesOf(dsc[i].addr) = {}
    <3>1. ASSUME NEW t \in Threads, NEW i \in Slots, Holding(t), dsc[i] # NoDsc
          PROVE  req[t].slot # i
      BY <2>4, <3>1
    <3> QED
      BY <2>2, <2>3, <2>4, <3>1
  <2>7. \A t, u \in Threads : Holding(t) /\ Holding(u) /\ t # u
            => LinesOf(req[t].addr) \cap LinesOf(req[u].addr) = {}
    <3>1. ASSUME NEW t \in Threads, NEW u \in Threads, Holding(t), Holding(u), t # u
          PROVE  req[t].slot # req[u].slot
      BY <1>1, <3>1 DEF Ring, RxSlotExclusive
    <3> QED
      BY <2>2, <2>4, <3>1
  <2> QED
    BY <2>5, <2>6, <2>7 DEF RxBuffersDisjoint, LinesOf
<1>2. TypeOK /\ Ring /\ Counted /\ LaidOut => RxBuffersDisjoint
  BY <1>1
<1> QED
  BY <1>2, TypeCorrect, RingInvariant, SpaceInvariant, PTL

(* The unsigned counters never go below zero nor beyond what there is,     *)
(* although the worker subtracts (lines 209-210) without rx_dsc_lock, and  *)
(* they are always in proportion.                                          *)
CountersInRange == dscCnt \in 0..N /\ pktCnt \in 0..M /\ pktCnt = BufLines * dscCnt

(* What the card and the rings have room for is never exceeded (line 328). *)
THEOREM CountersStayInRange == Spec => []CountersInRange
<1>1. ASSUME TypeOK, Ring, Counted PROVE CountersInRange
  <2>1. dscCnt \in 0..N
    BY <1>1, Sizes DEF TypeOK, Ring, Window, Used
  <2>2. BufLines * dscCnt \in Int /\ BufLines * 0 <= BufLines * dscCnt /\ BufLines * 0 = 0
    BY <2>1, Multiples, Sizes
  <2> QED
    BY <1>1, <2>1, <2>2, Sizes DEF Counted, CountersInRange
<1>2. TypeOK /\ Ring /\ Counted => CountersInRange
  BY <1>1
<1> QED
  BY <1>2, TypeCorrect, RingInvariant, SpaceInvariant, PTL

-----------------------------------------------------------------------------
(* The supply of descriptors                                               *)
(*                                                                         *)
(* SupplyKept counts three sets.  Their sizes add up to Used, step by      *)
(* step, for a slot is in one of them only; what is left of the property   *)
(* is about the counter and the calls of nf10priv_send_rx_dsc.             *)

Posted  == {i \in Slots : dsc[i] # NoDsc}
Done    == {i \in Slots : dne[i] # NoDne}
Pending == {t \in Threads : Holding(t)}

Circulating == Cardinality(Posted) + Cardinality(Done) + Cardinality(Pending)

(* The sets that are counted are finite.                                   *)
LEMMA SetsFinite ==
    /\ IsFiniteSet(Posted) /\ Cardinality(Posted) \in Nat
    /\ IsFiniteSet(Done) /\ Cardinality(Done) \in Nat
    /\ IsFiniteSet(Pending) /\ Cardinality(Pending) \in Nat
<1>1. IsFiniteSet(Slots)
  BY FS_Interval, Sizes
<1>2. IsFiniteSet(Threads)
  <2>1. IsFiniteSet({}) /\ Threads = ({} \cup {"probe"}) \cup {"worker"}
    BY FS_EmptySet DEF Threads
  <2> QED
    BY <2>1, FS_AddElement
<1>3. IsFiniteSet(Posted) /\ IsFiniteSet(Done)
  BY <1>1, FS_Subset DEF Posted, Done
<1>4. IsFiniteSet(Pending)
  BY <1>2, FS_Subset DEF Pending
<1> QED
  BY <1>3, <1>4, FS_CardinalityType

(* One more, one less.                                                     *)
LEMMA OneMore ==
    ASSUME NEW S, NEW T, NEW x, IsFiniteSet(S), x \notin S, T = S \cup {x}
    PROVE  Cardinality(T) = Cardinality(S) + 1
  BY FS_AddElement

(* The same with one less.                                                 *)
LEMMA OneLess ==
    ASSUME NEW S, NEW T, NEW x, IsFiniteSet(S), x \in S, T = S \ {x}
    PROVE  Cardinality(T) = Cardinality(S) - 1
  BY FS_RemoveElement

(* A step that moves the window moves one slot into the sets or out of     *)
(* them; any other hands slots on.                                         *)
LEMMA CirculatingNext ==
    ASSUME TypeOK, Ring, Packets, Circulating = Used, [Next]_vars
    PROVE  (Circulating = Used)'
<1>1. /\ dscCnt \in Int /\ Used \in Int /\ Cardinality(Posted) \in Nat
      /\ Cardinality(Done) \in Nat /\ Cardinality(Pending) \in Nat
  BY SetsFinite DEF TypeOK, Used
<1>2. ASSUME NEW t \in Threads, NEW s \in Skbs, SendReserve(t, s) PROVE (Circulating = Used)'
  <2>1. Posted' = Posted /\ Done' = Done /\ t \notin Pending /\ Pending' = Pending \cup {t}
    BY <1>2 DEF SendReserve, Goto, TypeOK, Holding, cardVars, Posted, Done, Pending
  <2>2. Used' = Used + 1
    BY <1>2, WindowReserve
  <2>3. Cardinality(Pending)' = Cardinality(Pending) + 1
    BY <2>1, SetsFinite, OneMore
  <2> QED
    BY <1>1, <2>1, <2>2, <2>3 DEF Circulating
<1>3. ASSUME NEW t \in Threads, SendWriteDsc(t) PROVE (Circulating = Used)'
  <2>1. PICK s \in Slots : s = req[t].slot
    BY Fields
  <2>2. /\ UNCHANGED <<dscCnt, wpc, dne>> /\ Holding(t)
        /\ dsc'[s].skb = req[t].skb
        /\ \A i \in Slots \ {s} : dsc'[i] = dsc[i]
        /\ spc'[t] = "out" /\ \A u \in Threads \ {t} : spc'[u] = spc[u]
    BY <1>3, <2>1 DEF SendWriteDsc, Goto, TypeOK, Holding, memVars, workVars
  <2>3. dsc[s] = NoDsc /\ dsc'[s] # NoDsc
    <3>1. req[t].skb \in Skbs
      BY <2>2 DEF Packets, OneOwner, TypeOK
    <3> QED
      BY <2>1, <2>2, <3>1, RxAssumption DEF Ring, RxSlotExclusive, NoDsc
  <2>4. /\ Done' = Done /\ s \notin Posted /\ Posted' = Posted \cup {s}
        /\ t \in Pending /\ Pending' = Pending \ {t}
    BY <2>2, <2>3 DEF Posted, Done, Pending, Holding
  <2>5. Cardinality(Posted)' = Cardinality(Posted) + 1
    BY <2>4, SetsFinite, OneMore
  <2>6. Cardinality(Pending)' = Cardinality(Pending) - 1
    BY <2>4, SetsFinite, OneLess
  <2> QED
    BY <1>1, <2>2, <2>4, <2>5, <2>6 DEF Circulating, Used
<1>4. CASE Take
  <2>1. PICK s \in Slots : s = dneRd
    BY DEF TypeOK
  <2>2. /\ UNCHANGED <<dsc, spc>> /\ dne[s] # NoDne /\ dne'[s] = NoDne
        /\ \A i \in Slots \ {s} : dne'[i] = dne[i]
    BY <1>4, <2>1 DEF Take, TypeOK, sendVars
  <2>3. Posted' = Posted /\ Pending' = Pending /\ s \in Done /\ Done' = Done \ {s}
    BY <2>2 DEF Posted, Done, Pending, Holding
  <2>4. Cardinality(Done)' = Cardinality(Done) - 1
    BY <2>3, SetsFinite, OneLess
  <2>5. Used' = Used - 1
    BY <1>4, WindowTake
  <2> QED
    BY <1>1, <2>3, <2>4, <2>5 DEF Circulating
<1>5. ASSUME NEW pkt \in Ports \cup {BadPacket}, Receive(pkt) PROVE (Circulating = Used)'
  <2>1. PICK s \in Slots : s = cardRd
    BY DEF TypeOK
  <2>2. /\ UNCHANGED <<dscCnt, wpc, spc>> /\ dsc[s] # NoDsc /\ dsc'[s] = NoDsc
        /\ dne'[s].skb = dsc[s].skb
        /\ \A i \in Slots \ {s} : dsc'[i] = dsc[i] /\ dne'[i] = dne[i]
    BY <1>5, <2>1 DEF Receive, TypeOK, memVars, sendVars, workVars
  <2>3. dne[s] = NoDne /\ dne'[s] # NoDne
    <3>1. dsc[s].skb \in Skbs
      BY <2>2 DEF Packets, BkRight, OneOwner, Busy, TypeOK
    <3> QED
      BY <2>2, <3>1, RxAssumption DEF Ring, OneStage, NoDne
  <2>4. /\ Pending' = Pending /\ s \in Posted /\ Posted' = Posted \ {s}
        /\ s \notin Done /\ Done' = Done \cup {s}
    BY <2>2, <2>3 DEF Posted, Done, Pending, Holding
  <2>5. Cardinality(Posted)' = Cardinality(Posted) - 1
    BY <2>4, SetsFinite, OneLess
  <2>6. Cardinality(Done)' = Cardinality(Done) + 1
    BY <2>4, SetsFinite, OneMore
  <2> QED
    BY <1>1, <2>2, <2>4, <2>5, <2>6 DEF Circulating, Used
<1>6. CASE ~Moving
  <2>1. Quiet
    BY <1>6, QuietSteps DEF Ring
  <2>2. Posted' = Posted /\ Done' = Done /\ Pending' = Pending /\ Used' = Used
    BY <1>1, <2>1 DEF Quiet, Posted, Done, Pending, Used
  <2> QED
    BY <2>2 DEF Circulating
<1> QED
  BY <1>2, <1>3, <1>4, <1>5, <1>6 DEF Moving

(* How many descriptors there is room for, in the ring and in the buffer.  *)
RoomFor == IF N < M \div BufLines THEN N ELSE M \div BufLines

(* The test of lines 328-329 is about the number of descriptors alone.     *)
RoomRight == RoomFor \in Nat /\ dscCnt <= RoomFor /\ (Room <=> dscCnt + 1 <= RoomFor)

LEMMA RoomIsRoomFor ==
    ASSUME TypeOK, Ring, Counted
    PROVE  RoomRight
<1>1. PICK q \in Nat : q = M \div BufLines /\ BufLines * q <= M /\ M < BufLines * q + BufLines
  <2>1. /\ M \div BufLines \in Nat /\ M % BufLines \in 0..(BufLines - 1)
        /\ M = BufLines * (M \div BufLines) + (M % BufLines)
    BY Sizes
  <2> QED
    BY <2>1, Sizes
<1>2. ASSUME NEW x \in Int PROVE BufLines * x <= M <=> x <= q
  <2>1. CASE x <= q
    <3>1. BufLines * x <= BufLines * q /\ BufLines * x \in Int /\ BufLines * q \in Int
      BY <2>1, Multiples
    <3> QED
      BY <1>1, <2>1, <3>1, Sizes
  <2>2. CASE q < x
    <3>1. /\ BufLines * q + BufLines <= BufLines * x
          /\ BufLines * x \in Int /\ BufLines * q \in Int
      BY <2>2, Multiples
    <3> QED
      BY <1>1, <2>2, <3>1, Sizes
  <2> QED
    BY <2>1, <2>2
<1>3. PICK d \in Int : d = dscCnt
  BY DEF TypeOK
<1>4. BufLines * (d + 1) = pktCnt + BufLines /\ BufLines * d <= M /\ d <= N
  BY <1>3, Multiples DEF Counted, Ring, Window
<1>5. d <= q /\ (pktCnt + BufLines <= M <=> d + 1 <= q)
  BY <1>2, <1>4
<1> QED
  BY <1>1, <1>3, <1>4, <1>5, Sizes DEF RoomRight, RoomFor, Room

(* Room for another buffer is room for another descriptor.                 *)
LEMMA RoomInvariant == Spec => []RoomRight
  BY RoomIsRoomFor, TypeCorrect, RingInvariant, SpaceInvariant, PTL

(* The worker has given a descriptor back and there is room for another.   *)
Asking == wpc = "send" /\ spc["worker"] = "lock" /\ Room

(* The descriptors that circulate, and the iterations that probe has done. *)
Current == dscCnt + (IF Asking THEN 1 ELSE 0)
Asked   == Tries - left - (IF spc["probe"] = "lock" THEN 1 ELSE 0)

(* Each iteration of probe leaves one more descriptor in circulation until *)
(* there is no more room, or costs an allocation; the worker replaces what *)
(* it takes, or that costs one.                                            *)
Demand ==
    Current >= (IF Asked < RoomFor THEN Asked ELSE RoomFor) - allocFails

(* A descriptor is given up only for want of room or of memory.            *)
LEMMA DemandNext ==
    ASSUME TypeOK, Ring, RoomRight, RoomRight', Demand, [Next]_vars
    PROVE  Demand'
<1>1. /\ dscCnt \in Int /\ left \in Int /\ allocFails \in Nat /\ Tries \in Int
      /\ RoomFor \in Nat /\ dscCnt <= RoomFor /\ (Room <=> dscCnt + 1 <= RoomFor)
      /\ spc["worker"] # "out" => wpc = "send"
  BY Sizes DEF TypeOK, Ring, WorkerSends, RoomRight
<1>2. dscCnt' <= RoomFor' /\ (Room' <=> dscCnt' + 1 <= RoomFor')
  BY DEF RoomRight
<1>3. RoomFor' = RoomFor
  BY DEF RoomFor
<1> USE DEF Demand, Current, Asked, Asking
<1>4. "worker" \in Threads /\ "probe" \in Threads /\ Threads = {"probe", "worker"}
  BY DEF Threads
<1>5. ASSUME SendNoRoom("probe") PROVE Demand'
  <2>1. /\ UNCHANGED <<dscCnt, left, allocFails, wpc>> /\ ~Room /\ spc["probe"] = "lock"
        /\ spc'["probe"] = "out" /\ spc'["worker"] = spc["worker"]
    BY <1>4, <1>5 DEF SendNoRoom, Goto, TypeOK, memVars, workVars
  <2> QED
    BY <1>1, <1>2, <1>3, <2>1
<1>6. ASSUME SendNoRoom("worker") PROVE Demand'
  <2>1. /\ UNCHANGED <<dscCnt, left, allocFails, wpc>> /\ ~Room
        /\ spc'["worker"] = "out" /\ spc'["probe"] = spc["probe"]
    BY <1>4, <1>6 DEF SendNoRoom, Goto, TypeOK, memVars, workVars
  <2> QED
    BY <1>1, <1>2, <1>3, <2>1
<1>7. ASSUME SendAllocFail("probe") PROVE Demand'
  <2>1. /\ UNCHANGED <<dscCnt, left, wpc>> /\ allocFails' = allocFails + 1
        /\ spc["probe"] = "lock" /\ spc'["probe"] = "out" /\ spc'["worker"] = spc["worker"]
    BY <1>4, <1>7 DEF SendAllocFail, Goto, TypeOK, memVars, workVars
  <2> QED
    BY <1>1, <1>2, <1>3, <2>1
<1>8. ASSUME SendAllocFail("worker") PROVE Demand'
  <2>1. /\ UNCHANGED <<dscCnt, left, wpc>> /\ allocFails' = allocFails + 1
        /\ spc'["worker"] = "out" /\ spc'["probe"] = spc["probe"]
    BY <1>4, <1>8 DEF SendAllocFail, Goto, TypeOK, memVars, workVars
  <2> QED
    BY <1>1, <1>2, <1>3, <2>1
<1>9. ASSUME NEW s \in Skbs, SendReserve("probe", s) PROVE Demand'
  <2>1. /\ dscCnt' = dscCnt + 1 /\ UNCHANGED <<left, allocFails, wpc>> /\ Room
        /\ spc["probe"] = "lock" /\ spc'["probe"] = "bk" /\ spc'["worker"] = spc["worker"]
    BY <1>4, <1>9 DEF SendReserve, Goto, TypeOK, workVars
  <2> QED
    BY <1>1, <1>2, <1>3, <2>1
<1>10. ASSUME NEW s \in Skbs, SendReserve("worker", s) PROVE Demand'
  <2>1. /\ dscCnt' = dscCnt + 1 /\ UNCHANGED <<left, allocFails, wpc>> /\ Room
        /\ spc["worker"] = "lock" /\ spc'["worker"] = "bk" /\ spc'["probe"] = spc["probe"]
    BY <1>4, <1>10 DEF SendReserve, Goto, TypeOK, workVars
  <2> QED
    BY <1>1, <1>2, <1>3, <2>1
<1>11. ASSUME NEW t \in Threads, SendWriteBk(t) \/ SendWriteDsc(t) PROVE Demand'
  <2>1. /\ UNCHANGED <<dscCnt, left, allocFails, wpc>>
        /\ spc["probe"] = "lock" <=> spc'["probe"] = "lock"
        /\ spc["worker"] = "lock" <=> spc'["worker"] = "lock"
    BY <1>4, <1>11 DEF SendWriteBk, SendWriteDsc, Goto, TypeOK, memVars, workVars
  <2> QED
    BY <1>1, <1>2, <1>3, <2>1
<1>12. CASE ProbeSend
  <2>1. /\ UNCHANGED <<dscCnt, allocFails, wpc>> /\ left' = left - 1
        /\ spc["probe"] = "out" /\ spc'["probe"] = "lock" /\ spc'["worker"] = spc["worker"]
    BY <1>4, <1>12 DEF ProbeSend, Goto, TypeOK, memVars, workVars
  <2> QED
    BY <1>1, <1>2, <1>3, <2>1
<1>13. CASE Sub
  <2>1. /\ dscCnt' = dscCnt - 1 /\ UNCHANGED <<left, allocFails>> /\ wpc = "sub" /\ wpc' = "send"
        /\ spc'["worker"] = "lock" /\ spc'["probe"] = spc["probe"]
    BY <1>4, <1>13 DEF Sub, Goto, TypeOK
  <2> QED
    BY <1>1, <1>2, <1>3, <2>1
<1>14. ASSUME \/ Take \/ Decode \/ Deliver \/ Drop \/ UNCHANGED vars
              \/ \E pkt \in Ports \cup {BadPacket} : Receive(pkt)
              \/ \E p \in Ports : Open(p) \/ Stop(p)
       PROVE  Demand'
  <2>1. UNCHANGED <<dscCnt, left, allocFails, spc>>
    BY <1>14 DEF Take, Decode, Deliver, Drop, Receive, Open, Stop, vars, memVars, sendVars
  <2>2. \/ spc["worker"] = "out"
        \/ wpc' = wpc
    BY <1>1, <1>14 DEF Take, Decode, Deliver, Drop, Receive, Open, Stop, vars, workVars
  <2> QED
    BY <1>1, <1>2, <1>3, <2>1, <2>2
<1> QED
  BY <1>4, <1>5, <1>6, <1>7, <1>8, <1>9, <1>10, <1>11, <1>12, <1>13, <1>14 DEF Next, Send

(* What probe asked for is there, but for lack of room or memory.          *)
LEMMA DemandInvariant == Spec => []Demand
<1>1. Init /\ RoomRight => Demand
  <2> SUFFICES ASSUME Init, RoomRight PROVE Demand
    OBVIOUS
  <2>1. dscCnt = 0 /\ left = Tries /\ spc["probe"] = "out" /\ wpc = "poll" /\ allocFails = 0
    BY DEF Init, Threads
  <2>2. RoomFor \in Nat
    BY DEF RoomRight
  <2> QED
    BY <2>1, <2>2, Sizes DEF Demand, Current, Asked, Asking
<1> QED
  BY <1>1, DemandNext, TypeCorrect, RingInvariant, RoomInvariant, PTL DEF Spec

(* Each slot of the window is with the card, reported, or with a thread    *)
(* that is filling it in.                                                  *)
LEMMA CirculatingInvariant == Spec => [](Circulating = Used)
<1>1. Init => Circulating = Used
  <2> SUFFICES ASSUME Init PROVE Circulating = Used
    OBVIOUS
  <2>1. Posted = {} /\ Done = {} /\ Pending = {} /\ Used = 0
    BY DEF Init, Posted, Done, Pending, Holding, Used
  <2> QED
    BY <2>1, FS_EmptySet DEF Circulating
<1> QED
  BY <1>1, CirculatingNext, TypeCorrect, RingInvariant, PacketInvariant, PTL DEF Spec

(* Once nf10iface_probe has posted what it can (lines 198-201), as many    *)
(* descriptors circulate as it asked for and as fit, less one for every    *)
(* allocation that has failed: "give the card a new RX descriptor" (line   *)
(* 212) answers each completion, and the race of probe and worker for the  *)
(* space of line 328 loses none and gains none.                            *)
THEOREM SupplyIsKept == Spec => []SupplyKept
<1>1. ASSUME TypeOK, RoomRight, Demand, Circulating = Used PROVE SupplyKept
  <2>1. /\ dscCnt \in Int /\ allocFails \in Int /\ Tries \in Int
        /\ RoomFor \in Nat /\ dscCnt <= RoomFor /\ (Room <=> dscCnt + 1 <= RoomFor)
    BY <1>1, Sizes DEF TypeOK, RoomRight
  <2>2. InCirculation = Current
    <3>1. InCirculation = Circulating + (IF wpc = "sub" \/ Asking THEN 1 ELSE 0)
      BY DEF InCirculation, Circulating, Posted, Done, Pending, Asking
    <3> QED
      BY <1>1, <2>1, <3>1 DEF Current, Used, Asking
  <2>3. Current <= RoomFor /\ Current \in Int
    BY <2>1 DEF Current, Asking
  <2>4. ASSUME left = 0, spc["probe"] = "out"
        PROVE  InCirculation \in ((IF Tries < RoomFor THEN Tries ELSE RoomFor) - allocFails)..RoomFor
    <3>1. Asked = Tries
      BY <2>1, <2>4 DEF Asked
    <3> QED
      BY <1>1, <2>1, <2>2, <2>3, <3>1 DEF Demand
  <2> QED
    BY <2>4 DEF SupplyKept, RoomFor
<1>2. TypeOK /\ RoomRight /\ Demand /\ Circulating = Used => SupplyKept
  BY <1>1
<1> QED
  BY <1>2, TypeCorrect, RoomInvariant, DemandInvariant, CirculatingInvariant, PTL
=============================================================================
