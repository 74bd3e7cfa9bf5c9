---------------------------- MODULE Nf10TxProofs ----------------------------
(***************************************************************************)
(* Theorems about the transmit path, for any number of ports, packets,     *)
(* descriptors and cache lines: first the slots of the ring, then what     *)
(* they carry: the packets, their lines in the card's packet buffer, the   *)
(* queues that wait for them, the counters, and the queue of packets that  *)
(* the path implements.                                                    *)
(*                                                                         *)
(* A failed mapping moves the pointers without the counters (lines 56-61), *)
(* and most of this is not true after it: the invariants are of the form   *)
(*      mapErrors = 0 => ...                                               *)
(***************************************************************************)
EXTENDS Nf10Tx, Sequences, FiniteSetTheorems, WellFoundedInduction, TLAPS

(* A ring pointer stays inside its ring (lines 46 and 49 of nf10priv.c).   *)
LEMMA WrapInRing ==
    ASSUME NEW size \in Nat, NEW x \in 0..(size - 1), NEW k \in 0..size, size > 0
    PROVE  Wrap(x + k, size) \in 0..(size - 1)
  BY DEF Wrap

(* A transmitter's packet fits in an empty packet buffer.                 *)
LEMMA SizeInBuffer ==
    ASSUME TypeOK, NEW p \in Ports
    PROVE  req[p].size \in 0..M
<1>1. req[p] \in Reqs
  BY DEF TypeOK
<1>2. req[p].size \in Sizes \cup {0}
  BY <1>1 DEF Reqs
<1>3. M \in Nat /\ Sizes \subseteq 1..M
  BY RingAssumption
<1>4. CASE req[p].size = 0
  BY <1>3, <1>4
<1>5. CASE req[p].size \in Sizes
  <2>1. req[p].size \in 1..M
    BY <1>3, <1>5
  <2> QED
    BY <1>3, <2>1
<1> QED
  BY <1>2, <1>4, <1>5

(* Reserving a slot and lines leaves both write pointers in their rings.   *)
LEMMA AdvanceInRing ==
    ASSUME TypeOK, NEW p \in Ports, Advance(req[p].size)
    PROVE  dscWr' \in Slots /\ pktWr' \in Lines
<1>1. /\ dscWr \in 0..(N - 1) /\ pktWr \in 0..(M - 1)
      /\ N \in Nat /\ N > 0 /\ M \in Nat /\ M > 0
  BY RingAssumption DEF TypeOK, Slots, Lines
<1>2. Wrap(dscWr + 1, N) \in 0..(N - 1)
  BY <1>1 DEF Wrap
<1>3. Wrap(pktWr + req[p].size, M) \in 0..(M - 1)
  BY <1>1, SizeInBuffer, WrapInRing
<1> QED
  BY <1>2, <1>3 DEF Advance, Slots, Lines

(* Every variable keeps its type, whatever the interleaving and however    *)
(* many mappings fail.                                                     *)
THEOREM TypeCorrect == Spec => []TypeOK
<1>1. Init => TypeOK
  BY RingAssumption DEF Init, TypeOK, Slots, Lines, Reqs, NoReq, Dscs, NoDsc
<1>2. TypeOK /\ [Next]_vars => TypeOK'
  <2> SUFFICES ASSUME TypeOK, [Next]_vars PROVE TypeOK'
    OBVIOUS
  <2> USE RingAssumption DEF TypeOK
  <2>1. ASSUME NEW p \in Ports, NEW s \in Skbs, NEW c \in Sizes, Xmit(p, s, c)
        PROVE  TypeOK'
    <3>. DEFINE r == [skb |-> s, size |-> c, slot |-> 0, addr |-> 0]
    <3>0. r \in Reqs
      BY DEF Reqs, Slots, Lines
    <3>. HIDE DEF r
    <3>2. req' = [req EXCEPT ![p] = r]
      BY <2>1 DEF Xmit, r
    <3>1. req' \in [Ports -> Reqs]
      BY <3>0, <3>2
    <3> QED
      BY <2>1, <3>1 DEF Xmit, Goto, memVars, cardVars, workVars
  <2>2. ASSUME NEW p \in Ports, NoRoom(p) PROVE TypeOK'
    BY <2>2 DEF NoRoom, Drop, Goto, NoReq, Reqs, Slots, Lines, memVars, cardVars, workVars
  <2>3. ASSUME NEW p \in Ports, Advance(req[p].size)
        PROVE  dscWr' \in Slots /\ pktWr' \in Lines
    BY <2>3, AdvanceInRing
  <2>4. ASSUME NEW p \in Ports PROVE req[p].size \in 0..M
    BY SizeInBuffer
  <2>5. ASSUME NEW p \in Ports, Reserve(p) PROVE TypeOK'
    <3>. DEFINE r == [req[p] EXCEPT !.slot = dscWr, !.addr = pktWr]
    <3>1. r \in Reqs
      BY DEF Reqs
    <3>. HIDE DEF r
    <3>2. req' = [req EXCEPT ![p] = r]
      BY <2>5 DEF Reserve, r
    <3>3. req' \in [Ports -> Reqs]
      BY <3>1, <3>2
    <3>4. dscWr' \in Slots /\ pktWr' \in Lines /\ dscCnt' \in Int /\ pktCnt' \in Int
      BY <2>3, <2>4, <2>5 DEF Reserve, Advance
    <3> QED
      BY <2>5, <3>3, <3>4 DEF Reserve, Goto, cardVars, workVars
  <2>6. ASSUME NEW p \in Ports, MapError(p) PROVE TypeOK'
    <3>1. dscWr' \in Slots /\ pktWr' \in Lines
      BY <2>3, <2>4, <2>6 DEF MapError
    <3>2. mapErrors' \in 0..MaxMapErrors
      BY <2>6 DEF MapError
    <3> QED
      BY <2>6, <3>1, <3>2 DEF MapError, Advance, Drop, Goto, NoReq, Reqs, Slots, Lines,
                              cardVars, workVars
  <2>7. ASSUME NEW p \in Ports, Inside(p) PROVE TypeOK'
    <3>1. CASE Count(p)
      BY <2>4, <3>1 DEF Count, Goto, cardVars, workVars
    <3>2. CASE CheckFull(p)
      BY <3>2 DEF CheckFull, Goto, memVars, cardVars, workVars
    <3>3. CASE StopQueue(p)
      BY <3>3 DEF StopQueue, Goto, memVars, cardVars, workVars
    <3>4. CASE WriteBk(p)
      BY <3>4 DEF WriteBk, Goto, Reqs, memVars, cardVars, workVars
    <3>5. CASE WriteDsc(p)
      BY <3>5 DEF WriteDsc, Goto, Reqs, Dscs, memVars, workVars
    <3>6. CASE Stats(p)
      BY <3>6 DEF Stats, Goto, NoReq, Reqs, Slots, Lines, memVars, cardVars, workVars
    <3> QED
      BY <2>7, <3>1, <3>2, <3>3, <3>4, <3>5, <3>6 DEF Inside
  <2>8. CASE Fetch
    <3>1. cardRd' \in Slots
      BY <2>8, WrapInRing DEF Fetch, Slots
    <3> QED
      BY <2>8, <3>1 DEF Fetch, Dscs, NoDsc, Lines, memVars, txVars, workVars
  <2>9. CASE Complete
    <3>1. cardDne' \in Slots
      BY <2>9, WrapInRing DEF Complete, Slots
    <3> QED
      BY <2>9, <3>1 DEF Complete, Dscs, NoDsc, Lines, memVars, txVars, workVars
  <2>10. CASE Reap
    <3>1. dneRd' \in Slots
      BY <2>10, WrapInRing DEF Reap, Slots
    <3> QED
      BY <2>10, <3>1 DEF Reap, cardVars, txVars
  <2>11. CASE DecDsc
    BY <2>11 DEF DecDsc, cardVars, txVars
  <2>12. CASE Invalidate
    BY <2>12 DEF Invalidate, memVars, txVars
  <2>13. CASE CheckWake
    BY <2>13 DEF CheckWake, memVars, cardVars, txVars
  <2>14. ASSUME NEW p \in Ports, WakePort(p) PROVE TypeOK'
    BY <2>14 DEF WakePort, memVars, cardVars, txVars
  <2>15. CASE UNCHANGED vars
    BY <2>15 DEF vars, memVars, cardVars, txVars, workVars
  <2> QED
    BY <2>1, <2>2, <2>5, <2>6, <2>7, <2>8, <2>9, <2>10, <2>11, <2>12, <2>13, <2>14, <2>15
       DEF Next, Card, Worker, Transmitter
<1> QED
  BY <1>1, <1>2, PTL DEF Spec

-----------------------------------------------------------------------------
(* Nobody else uses a reserved slot                                        *)
(*                                                                         *)
(* Holding, InCard and Reported say which slots are in use; SlotExclusive  *)
(* is not inductive, for nothing in it says that the slot at dscWr is not  *)
(* in use.  The invariant Ring adds that: the slots in use lie among the   *)
(* Used slots that follow dneRd, and dscWr is the first one after those.   *)

Counting == \E p \in Ports : pc[p] = "count"

(* The packets with a slot whose completion is not taken: Outstanding,     *)
(* without the cardinality of a set that has at most one member.           *)
Used == dscCnt + (IF Counting THEN 1 ELSE 0) - (IF wpc = "dec" THEN 1 ELSE 0)

(* How far slot i is from the read pointer.                                *)
Dist(i) == IF i >= dneRd THEN i - dneRd ELSE i - dneRd + N

InWindow(i) == Dist(i) < Used

LockHeld == \A p \in Ports : pc[p] \in {"count", "check", "stop"} => txLock = p

Window ==
    /\ Used \in 0..N
    /\ dscCnt + (IF Counting THEN 1 ELSE 0) <= N
    /\ dscWr = Wrap(dneRd + Used, N)

InUseInWindow ==
    /\ \A p \in Ports : Holding(p) => InWindow(req[p].slot)
    /\ \A i \in Slots : InCard(i) => InWindow(i)
    /\ \A i \in Slots : Reported(i) => InWindow(i)

OneStage ==
    \A i \in Slots :
        /\ ~(dsc[i] # NoDsc /\ sending[i] # NoDsc)
        /\ InCard(i) => ~Reported(i)

Ring == Window /\ InUseInWindow /\ OneStage /\ SlotExclusive

RingInv == LockHeld /\ (mapErrors = 0 => Ring)

(* A transmitter's slot is a slot of the ring.                             *)
LEMMA SlotInRange ==
    ASSUME TypeOK, NEW p \in Ports
    PROVE  req[p].slot \in Slots
<1>1. req[p] \in Reqs
  BY DEF TypeOK
<1> QED
  BY <1>1 DEF Reqs

(* The card has slot i when it is posted or fetched.                       *)
LEMMA InCardDef ==
    ASSUME NEW i \in Slots
    PROVE  InCard(i) <=> dsc[i] # NoDsc \/ sending[i] # NoDsc
  BY DEF InCard, CardDscs

(* A step that moves no slot into, out of or within the window keeps Ring. *)
LEMMA RingKept ==
    ASSUME TypeOK, Ring,
           UNCHANGED <<dneRd, dscWr, dsc, sending>>,
           Used' = Used, dscCnt' + (IF Counting' THEN 1 ELSE 0) <= N,
           \A p \in Ports : Holding(p)' <=> Holding(p),
           \A p \in Ports : Holding(p) => req'[p].slot = req[p].slot,
           \A i \in Slots : Reported(i)' <=> Reported(i)
    PROVE  Ring'
<1>1. Window'
  BY DEF Ring, Window
<1>2. \A i \in Slots : (InCard(i)' <=> InCard(i)) /\ (InWindow(i)' <=> InWindow(i))
  BY DEF InCard, CardDscs, InWindow, Dist
<1>3. \A p \in Ports : Holding(p) => (InWindow(req[p].slot)' <=> InWindow(req[p].slot))
  BY DEF InWindow, Dist
<1>4. InUseInWindow'
  BY <1>2, <1>3 DEF Ring, InUseInWindow
<1>5. OneStage'
  BY <1>2 DEF Ring, OneStage
<1>6. SlotExclusive'
  <2>1. SUFFICES ASSUME NEW p \in Ports, Holding(p)'
                 PROVE  /\ ~InCard(req[p].slot)'
                        /\ ~Reported(req[p].slot)'
                        /\ \A q \in Ports \ {p} : Holding(q)' => req'[q].slot # req'[p].slot
    BY DEF SlotExclusive
  <2>2. Holding(p) /\ req'[p].slot = req[p].slot /\ req[p].slot \in Slots
    BY <2>1, SlotInRange
  <2> QED
    BY <1>2, <2>2 DEF Ring, SlotExclusive
<1> QED
  BY <1>1, <1>4, <1>5, <1>6 DEF Ring

(* A step that changes no pointer, counter or descriptor keeps Ring.       *)
LEMMA RingUntouched ==
    ASSUME TypeOK, Ring,
           UNCHANGED <<dneRd, dscWr, dscCnt, dsc, sending, dne, wpc, wslot>>,
           Counting' <=> Counting,
           \A p \in Ports : /\ Holding(p)' <=> Holding(p)
                            /\ Holding(p) => req'[p].slot = req[p].slot
    PROVE  Ring'
<1>1. Used' = Used /\ dscCnt' + (IF Counting' THEN 1 ELSE 0) <= N
  BY DEF Used, Ring, Window
<1>2. \A i \in Slots : Reported(i)' <=> Reported(i)
  BY DEF Reported
<1> QED
  BY <1>1, <1>2, RingKept

(* A distance in the ring is less than the size of the ring.               *)
LEMMA DistInRing ==
    ASSUME TypeOK, NEW i \in Slots
    PROVE  Dist(i) \in 0..(N - 1)
  BY RingAssumption DEF TypeOK, Slots, Dist

(* Two slots are not equally far from the read pointer.                    *)
LEMMA DistInjective ==
    ASSUME TypeOK, NEW i \in Slots, NEW j \in Slots, Dist(i) = Dist(j)
    PROVE  i = j
  BY RingAssumption DEF TypeOK, Slots, Dist

(* Reservation adds the slot behind the window to it.                      *)
LEMMA WindowReserve ==
    ASSUME TypeOK, LockHeld, Ring, NEW p \in Ports, Reserve(p)
    PROVE  /\ ~Counting /\ Counting'
           /\ Used \in 0..(N - 1) /\ Used' = Used + 1
           /\ Dist(dscWr) = Used /\ ~InWindow(dscWr)
           /\ \A i \in Slots : Dist(i)' = Dist(i)
           /\ \A i \in Slots : InWindow(i)' <=> InWindow(i) \/ i = dscWr
<1>1. N \in Nat /\ N > 0 /\ dscCnt \in Int /\ dneRd \in 0..(N - 1) /\ dscWr \in 0..(N - 1)
  BY RingAssumption DEF TypeOK, Slots
<1>2. ~Counting /\ Counting'
  BY RingAssumption DEF Reserve, LockHeld, Counting, Goto, TypeOK
<1>3. dscCnt + 1 <= N /\ dscCnt' = dscCnt /\ dneRd' = dneRd /\ wpc' = wpc
  BY DEF Reserve, Advance, Room, workVars
<1>4. Used' = Used + 1 /\ Used \in 0..(N - 1)
  BY <1>1, <1>2, <1>3 DEF Used, Ring, Window
<1>5. PICK new \in Slots : new = dscWr
  BY <1>1 DEF Slots
<1>6. Dist(new) = Used
  BY <1>1, <1>4, <1>5 DEF Dist, Ring, Window, Wrap
<1>7. ASSUME NEW i \in Slots
      PROVE  Dist(i)' = Dist(i) /\ (InWindow(i)' <=> InWindow(i) \/ i = new)
  <2>1. Dist(i)' = Dist(i) /\ Dist(i) \in 0..(N - 1)
    BY <1>3, DistInRing DEF Dist
  <2>2. Dist(i) = Used <=> i = new
    BY <1>6, DistInjective
  <2> QED
    BY <1>1, <1>4, <2>1, <2>2 DEF InWindow
<1> QED
  BY <1>1, <1>2, <1>4, <1>5, <1>6, <1>7 DEF InWindow

(* The worker takes the first slot out of the window.                      *)
LEMMA WindowReap ==
    ASSUME TypeOK, Ring, Reap
    PROVE  /\ Used \in 1..N /\ Used' = Used - 1
           /\ InWindow(dneRd) /\ Dist(dneRd) = 0
           /\ \A i \in Slots : InWindow(i)' <=> InWindow(i) /\ i # dneRd
           /\ \A i \in Slots \ {dneRd} : Dist(i)' = Dist(i) - 1
<1>1. N \in Nat /\ N > 0 /\ dscCnt \in Int /\ dneRd \in 0..(N - 1)
  BY RingAssumption DEF TypeOK, Slots
<1>2. PICK s \in Slots : s = dneRd
  BY DEF TypeOK
<1>3. dscCnt' = dscCnt /\ pc' = pc /\ wpc = "poll" /\ wpc' = "dec"
      /\ dneRd' = Wrap(dneRd + 1, N) /\ Reported(s)
  BY <1>2 DEF Reap, txVars, Reported
<1>4. InWindow(s) /\ Dist(s) = 0
  BY <1>1, <1>2, <1>3 DEF Ring, InUseInWindow, Dist
<1>5. Used \in 1..N /\ Used' = Used - 1
  BY <1>1, <1>3, <1>4 DEF Ring, Window, InWindow, Used, Counting
<1>6. Dist(s)' = N - 1 /\ \A i \in Slots \ {s} : Dist(i)' = Dist(i) - 1
  BY <1>1, <1>2, <1>3 DEF Dist, Slots, Wrap
<1>7. \A i \in Slots : InWindow(i)' <=> InWindow(i) /\ i # s
  BY <1>1, <1>5, <1>6, DistInRing DEF InWindow
<1> QED
  BY <1>2, <1>4, <1>5, <1>6, <1>7

(* Reservation takes the slot at the end of the window.                    *)
LEMMA RingReserve ==
    ASSUME TypeOK, TypeOK', LockHeld, Ring, NEW p \in Ports, Reserve(p)
    PROVE  Ring'
<1>1. N \in Nat /\ N > 0 /\ dscCnt \in Int /\ dneRd \in 0..(N - 1) /\ dscWr \in 0..(N - 1)
  BY RingAssumption DEF TypeOK, Slots
<1>2. ~Counting /\ Counting' /\ Used' = Used + 1 /\ Used \in 0..(N - 1)
  BY WindowReserve
<1>3. dscCnt + 1 <= N /\ dscCnt' = dscCnt /\ dneRd' = dneRd /\ wpc' = wpc
  BY DEF Reserve, Advance, Room, workVars
<1>4. dscWr = Wrap(dneRd + Used, N) /\ dscWr' = Wrap(dscWr + 1, N)
  BY DEF Ring, Window, Reserve, Advance
<1>5. Window'
  BY <1>1, <1>2, <1>3, <1>4 DEF Window, Wrap
<1>6. PICK new \in Slots : new = dscWr
  BY <1>1 DEF Slots
<1>7. ~InWindow(new) /\ InWindow(new)'
  BY <1>6, WindowReserve
<1>8. \A i \in Slots : InWindow(i) => InWindow(i)'
  BY WindowReserve
<1>9. /\ Holding(p)' /\ ~Holding(p) /\ req'[p].slot = new
       /\ \A q \in Ports \ {p} : (Holding(q)' <=> Holding(q)) /\ req'[q] = req[q]
  BY <1>6 DEF Reserve, Goto, Holding, TypeOK, Reqs
<1>10. \A i \in Slots : (InCard(i)' <=> InCard(i)) /\ (Reported(i)' <=> Reported(i))
  BY DEF Reserve, InCard, CardDscs, Reported, cardVars, workVars
<1>11. InUseInWindow'
  <2>1. ASSUME NEW q \in Ports, Holding(q)' PROVE InWindow(req[q].slot)'
    <3>1. CASE q = p
      BY <1>7, <1>9, <3>1
    <3>2. CASE q # p
      <4>1. Holding(q) /\ req'[q].slot = req[q].slot /\ req[q].slot \in Slots
        BY <1>9, <2>1, <3>2, SlotInRange
      <4>2. PICK i \in Slots : i = req[q].slot
        BY <4>1
      <4> QED
        BY <1>8, <4>1, <4>2 DEF Ring, InUseInWindow
    <3> QED
      BY <3>1, <3>2
  <2> QED
    BY <1>8, <1>10, <2>1 DEF Ring, InUseInWindow
<1>12. OneStage'
  BY <1>10 DEF Ring, OneStage, Reserve, cardVars
<1>13. SlotExclusive'
  <2>1. /\ \A q \in Ports : Holding(q) => req[q].slot # new
        /\ ~InCard(new) /\ ~Reported(new)
    BY <1>7 DEF Ring, InUseInWindow
  <2>2. ASSUME NEW q \in Ports, Holding(q)'
        PROVE  /\ ~InCard(req[q].slot)' /\ ~Reported(req[q].slot)'
               /\ \A r \in Ports \ {q} : Holding(r)' => req'[r].slot # req'[q].slot
    <3>1. CASE q = p
      BY <1>9, <1>10, <2>1, <3>1
    <3>2. CASE q # p
      <4>1. Holding(q) /\ req'[q].slot = req[q].slot /\ req[q].slot \in Slots
        BY <1>9, <2>2, <3>2, SlotInRange
      <4>2. PICK i \in Slots : i = req[q].slot
        BY <4>1
      <4>3. ~InCard(i)' /\ ~Reported(i)'
        BY <1>10, <4>1, <4>2 DEF Ring, SlotExclusive
      <4>4. ASSUME NEW r \in Ports \ {q}, Holding(r)' PROVE req'[r].slot # i
        BY <1>9, <2>1, <4>1, <4>2, <4>4 DEF Ring, SlotExclusive
      <4> QED
        BY <4>1, <4>2, <4>3, <4>4
    <3> QED
      BY <3>1, <3>2
  <2> QED
    BY <2>2 DEF SlotExclusive
<1> QED
  BY <1>5, <1>11, <1>12, <1>13 DEF Ring

(* Posting hands the slot from the transmitter to the card.                *)
LEMMA RingWriteDsc ==
    ASSUME TypeOK, Ring, NEW p \in Ports, WriteDsc(p)
    PROVE  Ring'
<1>1. PICK s \in Slots : s = req[p].slot
  BY SlotInRange
<1>2. UNCHANGED <<dneRd, dscWr, dscCnt, wpc, wslot, dne, req, sending>>
  BY DEF WriteDsc, memVars, workVars
<1>3. pc[p] = "dsc" /\ Holding(p) /\ ~Holding(p)' /\ ~InCard(s) /\ ~Reported(s) /\ InWindow(s)
  BY <1>1 DEF WriteDsc, Goto, Holding, TypeOK, Ring, SlotExclusive, InUseInWindow
<1>4. \A q \in Ports \ {p} : (pc'[q] = pc[q]) /\ (Holding(q)' <=> Holding(q))
  BY DEF WriteDsc, Goto, Holding, TypeOK
<1>5. Counting' <=> Counting
  BY <1>3, <1>4 DEF Counting, WriteDsc, Goto, TypeOK
<1>6. Used' = Used /\ \A i \in Slots : InWindow(i)' <=> InWindow(i)
  BY <1>2, <1>5 DEF Used, InWindow, Dist
<1>7. \A i \in Slots \ {s} : dsc'[i] = dsc[i]
  BY <1>1 DEF WriteDsc, TypeOK
<1>8. \A i \in Slots : /\ Reported(i)' <=> Reported(i)
                       /\ i # s => (InCard(i)' <=> InCard(i))
  BY <1>2, <1>7 DEF Reported, InCard, CardDscs
<1>9. Window'
  BY <1>2, <1>5, <1>6 DEF Ring, Window
<1>10. ASSUME NEW q \in Ports, Holding(q)'
       PROVE  /\ InWindow(req[q].slot)' /\ ~InCard(req[q].slot)' /\ ~Reported(req[q].slot)'
              /\ \A r \in Ports \ {q} : Holding(r)' => req'[r].slot # req'[q].slot
  <2>1. PICK i \in Slots : i = req[q].slot
    BY SlotInRange
  <2>2. Holding(q) /\ q # p /\ i # s
    BY <1>1, <1>3, <1>4, <1>10, <2>1 DEF Ring, SlotExclusive
  <2>3. InWindow(i) /\ ~InCard(i) /\ ~Reported(i)
    BY <2>1, <2>2 DEF Ring, InUseInWindow, SlotExclusive
  <2>4. \A r \in Ports \ {q} : Holding(r)' => req[r].slot # i
    BY <1>3, <1>4, <2>1, <2>2 DEF Ring, SlotExclusive
  <2> QED
    BY <1>2, <1>6, <1>8, <2>1, <2>2, <2>3, <2>4
<1>11. InUseInWindow'
  BY <1>3, <1>6, <1>8, <1>10 DEF Ring, InUseInWindow
<1>12. OneStage'
  <2>1. sending[s] = NoDsc
    BY <1>3, InCardDef
  <2> QED
    BY <1>2, <1>3, <1>7, <1>8, <2>1 DEF Ring, OneStage
<1>13. SlotExclusive'
  BY <1>10 DEF SlotExclusive
<1> QED
  BY <1>9, <1>11, <1>12, <1>13 DEF Ring

(* Fetching leaves the slot in the card.                                   *)
LEMMA RingFetch ==
    ASSUME TypeOK, Ring, Fetch
    PROVE  Ring'
<1>1. PICK s \in Slots : s = cardRd
  BY DEF TypeOK
<1>2. UNCHANGED <<dneRd, dscWr, dscCnt, wpc, wslot, dne, req, pc>>
  BY DEF Fetch, memVars, workVars, txVars
<1>3. /\ dsc[s] # NoDsc /\ dsc'[s] = NoDsc /\ sending'[s] # NoDsc
      /\ \A i \in Slots \ {s} : dsc'[i] = dsc[i] /\ sending'[i] = sending[i]
  BY <1>1 DEF Fetch, TypeOK
<1>4. \A i \in Slots : InCard(i)' <=> InCard(i)
  BY <1>3 DEF InCard, CardDscs
<1>5. \A i \in Slots : /\ Reported(i)' <=> Reported(i)
                       /\ InWindow(i)' <=> InWindow(i)
  BY <1>2 DEF Reported, InWindow, Dist, Used, Counting
<1>6. \A p \in Ports : req[p].slot \in Slots /\ (Holding(p)' <=> Holding(p))
  BY <1>2, SlotInRange DEF Holding
<1>7. Window'
  BY <1>2 DEF Ring, Window, Used, Counting
<1>8. InUseInWindow'
  <2>1. ASSUME NEW p \in Ports, Holding(p)' PROVE InWindow(req[p].slot)'
    BY <1>2, <1>5, <1>6, <2>1 DEF Ring, InUseInWindow, InWindow, Dist, Used, Counting
  <2> QED
    BY <1>4, <1>5, <2>1 DEF Ring, InUseInWindow
<1>9. OneStage'
  BY <1>3, <1>4, <1>5 DEF Ring, OneStage
<1>10. SlotExclusive'
  <2>1. ASSUME NEW p \in Ports, Holding(p)'
        PROVE  ~InCard(req[p].slot)' /\ ~Reported(req[p].slot)'
    <3>1. PICK i \in Slots : i = req[p].slot
      BY <1>6
    <3> QED
      BY <1>2, <1>4, <1>5, <1>6, <2>1, <3>1 DEF Ring, SlotExclusive
  <2> QED
    BY <1>2, <1>6, <2>1 DEF Ring, SlotExclusive
<1> QED
  BY <1>7, <1>8, <1>9, <1>10 DEF Ring

(* Sending turns a slot that is in the card into a reported one.           *)
LEMMA RingComplete ==
    ASSUME TypeOK, Ring, Complete
    PROVE  Ring'
<1>1. PICK s \in Slots : s = cardDne
  BY DEF TypeOK
<1>2. UNCHANGED <<dneRd, dscWr, dscCnt, wpc, wslot, dsc, req, pc>>
  BY DEF Complete, memVars, workVars, txVars
<1>3. /\ sending[s] # NoDsc /\ sending'[s] = NoDsc
      /\ \A i \in Slots \ {s} : sending'[i] = sending[i] /\ dne'[i] = dne[i]
  BY <1>1 DEF Complete, TypeOK
<1>4. InCard(s) /\ dsc[s] = NoDsc
  BY <1>3, InCardDef DEF Ring, OneStage
<1>5. ~InCard(s)'
  BY <1>2, <1>3, <1>4 DEF InCard, CardDscs
<1>6. \A i \in Slots \ {s} : /\ InCard(i)' <=> InCard(i)
                             /\ Reported(i)' <=> Reported(i)
  BY <1>2, <1>3 DEF InCard, CardDscs, Reported
<1>7. Used' = Used /\ \A i \in Slots : InWindow(i)' <=> InWindow(i)
  BY <1>2 DEF InWindow, Dist, Used, Counting
<1>8. Window'
  BY <1>2, <1>7 DEF Ring, Window, Counting
<1>9. ASSUME NEW p \in Ports, Holding(p)'
      PROVE  /\ InWindow(req[p].slot)' /\ ~InCard(req[p].slot)' /\ ~Reported(req[p].slot)'
             /\ \A q \in Ports \ {p} : Holding(q)' => req'[q].slot # req'[p].slot
  <2>1. PICK i \in Slots : i = req[p].slot
    BY SlotInRange
  <2>2. Holding(p) /\ \A q \in Ports : Holding(q)' => Holding(q)
    BY <1>2, <1>9 DEF Holding
  <2>3. i # s /\ InWindow(i) /\ ~InCard(i) /\ ~Reported(i)
    BY <1>4, <2>1, <2>2 DEF Ring, InUseInWindow, SlotExclusive
  <2>4. \A q \in Ports \ {p} : Holding(q)' => req[q].slot # i
    BY <2>1, <2>2 DEF Ring, SlotExclusive
  <2> QED
    BY <1>2, <1>6, <1>7, <2>1, <2>3, <2>4
<1>10. InUseInWindow'
  <2>1. InWindow(s)
    BY <1>4 DEF Ring, InUseInWindow
  <2> QED
    BY <1>5, <1>6, <1>7, <1>9, <2>1 DEF Ring, InUseInWindow
<1>11. OneStage'
  BY <1>2, <1>3, <1>4, <1>5, <1>6 DEF Ring, OneStage
<1>12. SlotExclusive'
  BY <1>9 DEF SlotExclusive
<1> QED
  BY <1>8, <1>10, <1>11, <1>12 DEF Ring

(* The slot whose completion the worker takes is in nobody's hands.        *)
LEMMA RingReap ==
    ASSUME TypeOK, Ring, Reap
    PROVE  Ring'
<1>1. N \in Nat /\ N > 0 /\ dscCnt \in Int /\ dneRd \in 0..(N - 1) /\ dscWr \in 0..(N - 1)
  BY RingAssumption DEF TypeOK, Slots
<1>2. PICK s \in Slots : s = dneRd
  BY DEF TypeOK
<1>3. UNCHANGED <<dscWr, dscCnt, dsc, sending, dne, req, pc>>
  BY DEF Reap, cardVars, txVars
<1>4. /\ wpc = "poll" /\ wpc' = "dec" /\ wslot' = s /\ Reported(s)
      /\ dneRd' = Wrap(dneRd + 1, N)
  BY <1>2 DEF Reap, Reported
<1>5. InWindow(s) /\ ~InCard(s) /\ \A p \in Ports : Holding(p) => req[p].slot # s
  BY <1>4 DEF Ring, InUseInWindow, OneStage, SlotExclusive
<1>6. Used \in 1..N /\ Used' = Used - 1
  BY WindowReap
<1>7. Window'
  BY <1>1, <1>3, <1>4, <1>6 DEF Ring, Window, Wrap, Counting
<1>8. \A i \in Slots \ {s} : InWindow(i) => InWindow(i)'
  BY <1>2, WindowReap
<1>9. \A i \in Slots : InCard(i)' <=> InCard(i)
  BY <1>3 DEF InCard, CardDscs
<1>10. ~Reported(s)' /\ \A i \in Slots \ {s} : Reported(i)' <=> Reported(i)
  BY <1>3, <1>4 DEF Reported
<1>11. ASSUME NEW p \in Ports, Holding(p)'
       PROVE  /\ InWindow(req[p].slot)' /\ ~InCard(req[p].slot)' /\ ~Reported(req[p].slot)'
              /\ \A q \in Ports \ {p} : Holding(q)' => req'[q].slot # req'[p].slot
  <2>1. PICK i \in Slots : i = req[p].slot
    BY SlotInRange
  <2>2. Holding(p) /\ \A q \in Ports : Holding(q)' => Holding(q)
    BY <1>3, <1>11 DEF Holding
  <2>3. i # s /\ InWindow(i) /\ ~InCard(i) /\ ~Reported(i)
    BY <1>5, <2>1, <2>2 DEF Ring, InUseInWindow, SlotExclusive
  <2>4. \A q \in Ports \ {p} : Holding(q)' => req[q].slot # i
    BY <2>1, <2>2 DEF Ring, SlotExclusive
  <2> QED
    BY <1>3, <1>8, <1>9, <1>10, <2>1, <2>3, <2>4
<1>12. InUseInWindow'
  BY <1>5, <1>8, <1>9, <1>10, <1>11 DEF Ring, InUseInWindow
<1>13. OneStage'
  BY <1>3, <1>9, <1>10 DEF Ring, OneStage
<1>14. SlotExclusive'
  BY <1>11 DEF SlotExclusive
<1> QED
  BY <1>7, <1>12, <1>13, <1>14 DEF Ring

(* The invariant, for any interleaving.                                    *)
LEMMA RingInvariant == Spec => []RingInv
<1>1. Init => RingInv
  <2> SUFFICES ASSUME Init PROVE RingInv
    OBVIOUS
  <2>1. N \in Nat /\ N > 0
    BY RingAssumption
  <2>2. ~Counting /\ \A p \in Ports : ~Holding(p) /\ pc[p] \notin {"count", "check", "stop"}
    BY DEF Init, Counting, Holding
  <2>3. \A i \in Slots : dsc[i] = NoDsc /\ sending[i] = NoDsc /\ ~InCard(i) /\ ~Reported(i)
    BY DEF Init, InCard, CardDscs, Reported
  <2>4. Used = 0 /\ dscCnt = 0 /\ dscWr = 0 /\ dneRd = 0
    BY <2>2 DEF Init, Used
  <2> QED
    BY <2>1, <2>2, <2>3, <2>4
       DEF RingInv, LockHeld, Ring, Window, InUseInWindow, OneStage, SlotExclusive, Wrap
<1>2. TypeOK /\ TypeOK' /\ RingInv /\ [Next]_vars => RingInv'
  <2> SUFFICES ASSUME TypeOK, TypeOK', RingInv, [Next]_vars PROVE RingInv'
    OBVIOUS
  <2>1. LockHeld'
    <3> USE RingAssumption DEF RingInv, LockHeld, TypeOK
    <3>1. ASSUME NEW p \in Ports, Transmitter(p) PROVE LockHeld'
      <4>1. ASSUME NEW s \in Skbs, NEW c \in Sizes, Xmit(p, s, c) PROVE LockHeld'
        BY <4>1 DEF Xmit, Goto
      <4>2. CASE NoRoom(p) \/ MapError(p)
        BY <4>2 DEF NoRoom, MapError, Drop, Goto
      <4>3. CASE Reserve(p)
        BY <4>3 DEF Reserve, Goto
      <4>4. CASE Inside(p)
        BY <4>4 DEF Inside, Count, CheckFull, StopQueue, WriteBk, WriteDsc, Stats, Goto
      <4> QED
        BY <3>1, <4>1, <4>2, <4>3, <4>4 DEF Transmitter
    <3>2. CASE Card \/ Worker \/ UNCHANGED vars
      BY <3>2 DEF Card, Worker, Fetch, Complete, Reap, DecDsc, Invalidate, CheckWake,
                  WakePort, txVars, vars
    <3> QED
      BY <3>1, <3>2 DEF Next
  <2>2. ASSUME mapErrors' = 0 PROVE Ring'
    <3>1. mapErrors \in Nat
      BY RingAssumption DEF TypeOK
    <3>2. ASSUME mapErrors' = mapErrors PROVE Ring
      BY <2>2, <3>2 DEF RingInv
    <3>3. LockHeld /\ N \in Nat /\ dscCnt \in Int
      BY RingAssumption DEF RingInv, TypeOK
    <3>4. ASSUME NEW p \in Ports, NEW s \in Skbs, NEW c \in Sizes, Xmit(p, s, c)
          PROVE  Ring'
      <4>1. Ring
        BY <3>2, <3>4 DEF Xmit
      <4>2. UNCHANGED <<dneRd, dscWr, dscCnt, dsc, sending, dne, wpc, wslot>>
        BY <3>4 DEF Xmit, memVars, cardVars, workVars
      <4>3. /\ Counting' <=> Counting
            /\ \A q \in Ports : /\ Holding(q)' <=> Holding(q)
                                /\ Holding(q) => req'[q].slot = req[q].slot
        BY <3>4 DEF Xmit, Goto, Counting, Holding, TypeOK
      <4> QED
        BY <4>1, <4>2, <4>3, RingUntouched
    <3>5. ASSUME NEW p \in Ports, NoRoom(p) PROVE Ring'
      <4>1. Ring
        BY <3>2, <3>5 DEF NoRoom
      <4>2. UNCHANGED <<dneRd, dscWr, dscCnt, dsc, sending, dne, wpc, wslot>>
        BY <3>5 DEF NoRoom, memVars, cardVars, workVars
      <4>3. /\ Counting' <=> Counting
            /\ \A q \in Ports : /\ Holding(q)' <=> Holding(q)
                                /\ Holding(q) => req'[q].slot = req[q].slot
        BY <3>5 DEF NoRoom, Drop, Goto, Counting, Holding, TypeOK
      <4> QED
        BY <4>1, <4>2, <4>3, RingUntouched
    <3>6. ASSUME NEW p \in Ports, Reserve(p) PROVE Ring'
      BY <3>2, <3>3, <3>6, RingReserve DEF Reserve
    <3>7. ASSUME NEW p \in Ports PROVE ~MapError(p)
      BY <2>2, <3>1 DEF MapError
    <3>8. ASSUME NEW p \in Ports, Count(p) PROVE Ring'
      <4>1. Ring
        BY <3>2, <3>8 DEF Count
      <4>2. UNCHANGED <<dneRd, dscWr, dsc, sending, dne, wpc, wslot, req>> /\ dscCnt' = dscCnt + 1
        BY <3>8 DEF Count, cardVars, workVars
      <4>3. Counting /\ ~Counting' /\ \A q \in Ports : Holding(q)' <=> Holding(q)
        BY <3>3, <3>8 DEF Count, Goto, Counting, Holding, LockHeld, TypeOK
      <4> QED
        BY <3>3, <4>1, <4>2, <4>3, RingKept DEF Used, Reported, Ring, Window
    <3>9. ASSUME NEW p \in Ports, CheckFull(p) \/ StopQueue(p) \/ WriteBk(p) \/ Stats(p)
          PROVE  Ring'
      <4>1. Ring
        BY <3>2, <3>9 DEF CheckFull, StopQueue, WriteBk, Stats
      <4>2. UNCHANGED <<dneRd, dscWr, dscCnt, dsc, sending, dne, wpc, wslot>>
        BY <3>9 DEF CheckFull, StopQueue, WriteBk, Stats, memVars, cardVars, workVars
      <4>3. /\ Counting' <=> Counting
            /\ \A q \in Ports : /\ Holding(q)' <=> Holding(q)
                                /\ Holding(q) => req'[q].slot = req[q].slot
        BY <3>9 DEF CheckFull, StopQueue, WriteBk, Stats, Goto, Counting, Holding, TypeOK
      <4> QED
        BY <4>1, <4>2, <4>3, RingUntouched
    <3>10. ASSUME NEW p \in Ports, WriteDsc(p) PROVE Ring'
      BY <3>2, <3>10, RingWriteDsc DEF WriteDsc
    <3>11. CASE Fetch
      BY <3>2, <3>11, RingFetch DEF Fetch
    <3>12. CASE Complete
      BY <3>2, <3>12, RingComplete DEF Complete
    <3>13. CASE Reap
      BY <3>2, <3>13, RingReap DEF Reap
    <3>14. CASE DecDsc
      <4>1. Ring
        BY <3>2, <3>14 DEF DecDsc
      <4>2. /\ UNCHANGED <<dneRd, dscWr, dsc, sending, dne, wslot, req, pc>>
            /\ dscCnt' = dscCnt - 1 /\ wpc = "dec" /\ wpc' = "invalidate"
        BY <3>14 DEF DecDsc, cardVars, txVars
      <4> QED
        BY <3>3, <4>1, <4>2, RingKept DEF Used, Counting, Holding, Reported, Ring, Window
    <3>15. CASE Invalidate
      <4>1. Ring
        BY <3>2, <3>15 DEF Invalidate
      <4>2. /\ UNCHANGED <<dneRd, dscWr, dscCnt, dsc, sending, wslot, req, pc>>
            /\ wpc = "invalidate" /\ wpc' = "check"
            /\ dne'[wslot] = NoSkb /\ \A i \in Slots : i # wslot => dne'[i] = dne[i]
        BY <3>15 DEF Invalidate, memVars, txVars, TypeOK
      <4>3. \A i \in Slots : Reported(i)' <=> Reported(i)
        BY <4>2 DEF Reported
      <4> QED
        BY <4>1, <4>2, <4>3, RingKept DEF Used, Counting, Holding, Ring, Window
    <3>16. ASSUME CheckWake \/ UNCHANGED vars \/ \E p \in Ports : WakePort(p)
           PROVE  Ring'
      <4>1. Ring
        BY <3>2, <3>16 DEF CheckWake, WakePort, vars
      <4>2. /\ UNCHANGED <<dneRd, dscWr, dscCnt, dsc, sending, dne, wslot, req, pc>>
            /\ wpc' = wpc \/ (wpc \notin {"dec", "invalidate"} /\ wpc' \notin {"dec", "invalidate"})
        BY <3>16 DEF CheckWake, WakePort, vars, memVars, cardVars, txVars, workVars
      <4> QED
        BY <4>1, <4>2, RingKept DEF Used, Counting, Holding, Reported, Ring, Window
    <3> QED
      BY <3>4, <3>5, <3>6, <3>7, <3>8, <3>9, <3>10, <3>11, <3>12, <3>13, <3>14, <3>15, <3>16
         DEF Next, Card, Worker, Transmitter, Inside
  <2> QED
    BY <2>1, <2>2 DEF RingInv
<1> QED
  BY <1>1, <1>2, TypeCorrect, PTL DEF Spec

(* As long as no mapping has failed, the slot that a transmitter fills in  *)
(* outside the lock is used by nobody else: "make sure we fit in the       *)
(* descriptor ring" (line 40).                                             *)
THEOREM SlotsAreExclusive == Spec => [](mapErrors = 0 => SlotExclusive)
<1>1. RingInv => (mapErrors = 0 => SlotExclusive)
  BY DEF RingInv, Ring
<1> QED
  BY <1>1, RingInvariant, PTL

-----------------------------------------------------------------------------
(* The pointers and the counter                                            *)
(*                                                                         *)
(* PointersAgree holds however many mappings fail.  Remainders by N are    *)
(* not linear arithmetic, so the facts about them come first.              *)

(* Quotient and remainder.                                                 *)
LEMMA Division ==
    ASSUME NEW n \in Nat \ {0}, NEW x \in Int
    PROVE  \E q \in Int, r \in 0..(n - 1) : r = x % n /\ x = n * q + r
<1>1. x % n \in 0..(n - 1)
  OBVIOUS
<1>2. x = n * (x \div n) + (x % n) /\ x \div n \in Int
  OBVIOUS
<1> QED
  BY <1>1, <1>2

(* A number has one remainder.                                             *)
LEMMA RemainderUnique ==
    ASSUME NEW n \in Nat \ {0}, NEW a \in Int, NEW b \in Int,
           NEW r \in 0..(n - 1), NEW s \in 0..(n - 1), n * a + r = n * b + s
    PROVE  r = s
<1>1. CASE a = b
  BY <1>1
<1>2. CASE a < b
  <2>1. n * (b - a) = r - s
    OBVIOUS
  <2>2. n * (b - a) >= n
    BY <1>2
  <2> QED
    BY <2>1, <2>2
<1>3. CASE b < a
  <2>1. n * (a - b) = s - r
    OBVIOUS
  <2>2. n * (a - b) >= n
    BY <1>3
  <2> QED
    BY <2>1, <2>2
<1> QED
  BY <1>1, <1>2, <1>3

(* Wrap is the remainder (the masks of lines 46 and 164).                  *)
LEMMA WrapIsRemainder ==
    ASSUME NEW n \in Nat \ {0}, NEW x \in Int
    PROVE  Wrap((x % n) + 1, n) = (x + 1) % n
<1>1. PICK q \in Int, r \in 0..(n - 1) : r = x % n /\ x = n * q + r
  BY Division
<1>2. PICK u \in Int, s \in 0..(n - 1) : s = (x + 1) % n /\ x + 1 = n * u + s
  BY Division
<1>3. CASE r + 1 < n
  <2>1. n * q + (r + 1) = n * u + s
    BY <1>1, <1>2
  <2>2. r + 1 = s
    BY <1>3, <2>1, RemainderUnique
  <2> QED
    BY <1>1, <1>2, <1>3, <2>2 DEF Wrap
<1>4. CASE r + 1 = n
  <2>1. n * (q + 1) + 0 = n * u + s
    BY <1>1, <1>2, <1>4
  <2>2. 0 = s
    BY <2>1, RemainderUnique
  <2>3. Wrap(r + 1, n) = 0
    BY <1>4 DEF Wrap
  <2> QED
    BY <1>1, <1>2, <2>2, <2>3
<1> QED
  BY <1>3, <1>4

(* Once round the ring changes no remainder.                               *)
LEMMA RemainderRound ==
    ASSUME NEW n \in Nat \ {0}, NEW x \in Int
    PROVE  (x - n) % n = x % n
<1>1. PICK q \in Int, r \in 0..(n - 1) : r = x % n /\ x = n * q + r
  BY Division
<1>2. PICK y \in Int : y = x - n
  OBVIOUS
<1>3. PICK u \in Int, s \in 0..(n - 1) : s = y % n /\ y = n * u + s
  BY Division
<1>4. n * (q - 1) + r = n * u + s
  BY <1>1, <1>2, <1>3
<1>5. r = s
  BY <1>4, RemainderUnique
<1> QED
  BY <1>1, <1>2, <1>3, <1>5

(* At most one transmitter is between Reserve and Count.                   *)
LEMMA OutstandingIsUsed ==
    ASSUME TypeOK, LockHeld
    PROVE  Outstanding = Used
<1> DEFINE C == {p \in Ports : pc[p] = "count"}
<1>1. CASE Counting
  <2>1. PICK p \in Ports : pc[p] = "count"
    BY <1>1 DEF Counting
  <2>2. C = {p}
    BY <2>1 DEF LockHeld
  <2>3. Cardinality(C) = 1
    BY <2>2, FS_Singleton
  <2> QED
    BY <1>1, <2>3 DEF Outstanding, Used
<1>2. CASE ~Counting
  <2>1. C = {}
    BY <1>2 DEF Counting
  <2>2. Cardinality(C) = 0
    BY <2>1, FS_EmptySet
  <2> QED
    BY <1>2, <2>2 DEF Outstanding, Used
<1> QED
  BY <1>1, <1>2

(* Only Reserve and Reap change the window.                                *)
LEMMA UsedKept ==
    ASSUME TypeOK, LockHeld, [Next]_vars, ~Reap, \A p \in Ports : ~Reserve(p)
    PROVE  Used' = Used /\ dneRd' = dneRd
<1>1. dscCnt \in Int
  BY DEF TypeOK
<1>2. ASSUME NEW p \in Ports, Count(p) PROVE Used' = Used /\ dneRd' = dneRd
  <2>1. Counting /\ ~Counting' /\ dscCnt' = dscCnt + 1 /\ UNCHANGED <<wpc, dneRd>>
    BY <1>2 DEF Count, Goto, Counting, LockHeld, TypeOK, workVars
  <2> QED
    BY <1>1, <2>1 DEF Used
<1>3. ASSUME NEW p \in Ports, Transmitter(p), ~Count(p) PROVE Used' = Used /\ dneRd' = dneRd
  <2>1. UNCHANGED <<dscCnt, wpc, dneRd>>
    BY <1>3 DEF Transmitter, Inside, Xmit, NoRoom, MapError, Advance, CheckFull, StopQueue,
                WriteBk, WriteDsc, Stats, memVars, workVars
  <2>2. /\ pc[p] # "count" /\ pc'[p] # "count"
        /\ \A q \in Ports \ {p} : pc'[q] = pc[q]
    BY <1>3 DEF Transmitter, Inside, Xmit, NoRoom, MapError, Drop, CheckFull, StopQueue,
                WriteBk, WriteDsc, Stats, Goto, TypeOK
  <2> QED
    BY <2>1, <2>2 DEF Used, Counting
<1>4. CASE DecDsc
  BY <1>1, <1>4 DEF DecDsc, Used, Counting, txVars
<1>5. ASSUME Card \/ Invalidate \/ CheckWake \/ UNCHANGED vars \/ \E p \in Ports : WakePort(p)
      PROVE  Used' = Used /\ dneRd' = dneRd
  <2>1. UNCHANGED <<dscCnt, pc, dneRd>> /\ (wpc = "dec" <=> wpc' = "dec")
    BY <1>5 DEF Card, Fetch, Complete, Invalidate, CheckWake, WakePort, vars, memVars,
                txVars, workVars
  <2> QED
    BY <2>1 DEF Used, Counting
<1> QED
  BY <1>2, <1>3, <1>4, <1>5 DEF Next, Worker

(* Where dscWr would be if the ring did not wrap.                          *)
Reach == dneRd + Used + mapErrors

Agree == dscWr = Reach % N

(* dscWr stays where the read pointer, the packets in the window and the   *)
(* failed mappings put it.                                                 *)
LEMMA AgreeNext ==
    ASSUME TypeOK, RingInv, Agree, [Next]_vars
    PROVE  Agree'
<1>1. /\ N \in Nat \ {0} /\ dscCnt \in Int /\ mapErrors \in Int
      /\ dneRd \in 0..(N - 1) /\ LockHeld
  BY RingAssumption DEF TypeOK, RingInv, Slots
<1>2. Reach \in Int /\ Used \in Int
  BY <1>1 DEF Reach, Used
<1>3. ASSUME NEW p \in Ports, Reserve(p) PROVE Agree'
  <2>1. /\ dscWr' = Wrap(dscWr + 1, N)
        /\ UNCHANGED <<dscCnt, dneRd, wpc, mapErrors>>
    BY <1>3 DEF Reserve, Advance, workVars
  <2>2. ~Counting /\ Counting'
    BY <1>1, <1>3, RingAssumption DEF LockHeld, Reserve, Counting, Goto, TypeOK
  <2>3. Reach' = Reach + 1
    BY <1>1, <2>1, <2>2 DEF Reach, Used
  <2> QED
    BY <1>1, <1>2, <2>1, <2>3, WrapIsRemainder DEF Agree
<1>4. ASSUME NEW p \in Ports, MapError(p) PROVE Agree'
  <2>1. dscWr' = Wrap(dscWr + 1, N) /\ mapErrors' = mapErrors + 1
    BY <1>4 DEF MapError, Advance
  <2>2. /\ ~Reap /\ \A q \in Ports : ~Reserve(q)
    BY <1>1, <1>4 DEF MapError, Reap, Reserve
  <2>3. Reach' = Reach + 1
    BY <1>1, <1>2, <2>1, <2>2, UsedKept DEF Reach
  <2> QED
    BY <1>1, <1>2, <2>1, <2>3, WrapIsRemainder DEF Agree
<1>5. CASE Reap
  <2>1. /\ UNCHANGED <<dscWr, dscCnt, mapErrors, pc>> /\ wpc = "poll" /\ wpc' = "dec"
        /\ dneRd' = Wrap(dneRd + 1, N)
    BY <1>5 DEF Reap, txVars
  <2>2. Used' = Used - 1
    BY <1>1, <2>1 DEF Used, Counting
  <2>3. Reach' = Reach \/ Reach' = Reach - N
    BY <1>1, <1>2, <2>1, <2>2 DEF Reach, Wrap
  <2> QED
    BY <1>1, <1>2, <2>1, <2>3, RemainderRound DEF Agree
<1>6. ASSUME ~Reap, \A p \in Ports : ~Reserve(p) /\ ~MapError(p) PROVE Agree'
  <2>1. UNCHANGED <<dscWr, mapErrors>>
    <3>1. ASSUME NEW p \in Ports, Transmitter(p) PROVE UNCHANGED <<dscWr, mapErrors>>
      BY <1>6, <3>1 DEF Transmitter, Xmit, NoRoom, Inside, Count, CheckFull, StopQueue, WriteBk,
                        WriteDsc, Stats, memVars
    <3>2. ASSUME Card \/ Worker \/ UNCHANGED vars PROVE UNCHANGED <<dscWr, mapErrors>>
      BY <1>6, <3>2 DEF Card, Fetch, Complete, Worker, DecDsc, Invalidate, CheckWake, WakePort,
                        vars, memVars
    <3> QED
      BY <3>1, <3>2 DEF Next
  <2>2. Used' = Used /\ dneRd' = dneRd
    BY <1>1, <1>6, UsedKept
  <2> QED
    BY <2>1, <2>2 DEF Agree, Reach
<1> QED
  BY <1>3, <1>4, <1>5, <1>6

(* However many mappings fail, the write pointer is ahead of the read      *)
(* pointer by the packets that have a slot and one more for each failure   *)
(* (lines 45-61): the counter never makes good for the slots that a        *)
(* failure skips.                                                          *)
THEOREM PointersAlwaysAgree == Spec => []PointersAgree
<1>1. Init => Agree
  <2> SUFFICES ASSUME Init PROVE Agree
    OBVIOUS
  <2>1. Reach = 0 /\ dscWr = 0
    BY DEF Init, Reach, Used, Counting
  <2>2. 0 % N = 0
    BY RingAssumption
  <2> QED
    BY <2>1, <2>2 DEF Agree
<1>2. Spec => []Agree
  BY <1>1, AgreeNext, TypeCorrect, RingInvariant, PTL DEF Spec
<1>3. TypeOK /\ RingInv /\ Agree => PointersAgree
  BY OutstandingIsUsed DEF RingInv, Agree, Reach, PointersAgree
<1> QED
  BY <1>2, <1>3, TypeCorrect, RingInvariant, PTL

-----------------------------------------------------------------------------
(* Whose each packet is                                                    *)
(*                                                                         *)
(* CompletionMatches speaks of reported slots only.  The invariant follows *)
(* the packet from the transmitter through the bookkeeping, the posted and *)
(* the fetched descriptor to the completion ring, and says that the card's *)
(* copies agree with the bookkeeping and that a packet is in one place.    *)

(* The driver has given this packet to nf10priv_xmit, not yet to the card. *)
Carrying(p) == pc[p] \notin {"idle", "stats"}

(* The bookkeeping of slot i is in use.                                    *)
Busy(i) == InCard(i) \/ Reported(i)

(* What the bookkeeping says of a slot is what the card has for it.        *)
BkRight ==
    /\ \A p \in Ports : pc[p] = "dsc" =>
           /\ bk[req[p].slot].skb = req[p].skb
           /\ bk[req[p].slot].size = req[p].size
    /\ \A i \in Slots :
           /\ dsc[i] # NoDsc => dsc[i].skb = bk[i].skb /\ dsc[i].size = bk[i].size
           /\ sending[i] # NoDsc => sending[i].skb = bk[i].skb /\ sending[i].size = bk[i].size
           /\ Reported(i) => dne[i] = bk[i].skb

(* A packet is with one transmitter or in one slot, and it is not freed.   *)
OneOwner ==
    /\ \A p \in Ports : Carrying(p) =>
           /\ req[p].skb \in owned
           /\ \A q \in Ports \ {p} : Carrying(q) => req[q].skb # req[p].skb
           /\ \A i \in Slots : Busy(i) => bk[i].skb # req[p].skb
    /\ \A i \in Slots : Busy(i) =>
           /\ bk[i].skb \in owned
           /\ \A j \in Slots \ {i} : Busy(j) => bk[j].skb # bk[i].skb

Packets == BkRight /\ OneOwner

PacketInv == mapErrors = 0 => Packets

(* As long as no mapping has failed, none failed before.                   *)
LEMMA NoErrorYet ==
    ASSUME TypeOK, [Next]_vars, mapErrors' = 0
    PROVE  mapErrors = 0 /\ \A p \in Ports : ~MapError(p)
<1>1. mapErrors \in Nat
  BY RingAssumption DEF TypeOK
<1>2. \A p \in Ports : ~MapError(p)
  BY <1>1 DEF MapError
<1>3. ASSUME NEW p \in Ports, Transmitter(p) PROVE mapErrors' = mapErrors
  BY <1>2, <1>3 DEF Transmitter, Xmit, NoRoom, Reserve, Inside, Count, CheckFull, StopQueue,
                    WriteBk, WriteDsc, Stats
<1>4. ASSUME Card \/ Worker \/ UNCHANGED vars PROVE mapErrors' = mapErrors
  BY <1>4 DEF Card, Fetch, Complete, Worker, Reap, DecDsc, Invalidate, CheckWake, WakePort, vars
<1> QED
  BY <1>2, <1>3, <1>4 DEF Next

(* Steps that move no packet.                                              *)
LEMMA PacketsKept ==
    ASSUME TypeOK, Packets,
           UNCHANGED <<bk, dsc, sending, owned>>,
           \A i \in Slots : Reported(i)' => Reported(i) /\ dne'[i] = dne[i],
           \A p \in Ports : /\ Carrying(p)' => Carrying(p)
                            /\ pc'[p] = "dsc" => pc[p] = "dsc" /\ req'[p].slot = req[p].slot
                            /\ Carrying(p)' => /\ req'[p].skb = req[p].skb
                                               /\ req'[p].size = req[p].size
    PROVE  Packets'
<1>1. \A i \in Slots : Busy(i)' => Busy(i)
  BY DEF Busy, InCard, CardDscs
<1>2. BkRight'
  BY DEF Packets, BkRight, Carrying
<1>3. OneOwner'
  BY <1>1 DEF Packets, OneOwner
<1> QED
  BY <1>2, <1>3 DEF Packets

(* A new packet is in nobody else's hands.                                 *)
LEMMA PacketsXmit ==
    ASSUME TypeOK, Packets, NEW p \in Ports, NEW s \in Skbs, NEW c \in Sizes, Xmit(p, s, c)
    PROVE  Packets'
<1>1. /\ UNCHANGED <<bk, dsc, sending, dne, wpc, wslot>>
      /\ s \notin owned /\ owned' = owned \cup {s}
  BY DEF Xmit, cardVars, workVars
<1>2. /\ req'[p].skb = s /\ pc'[p] = "xmit" /\ ~Carrying(p)
      /\ \A q \in Ports \ {p} : pc'[q] = pc[q] /\ req'[q] = req[q]
  BY DEF Xmit, Goto, TypeOK, Carrying
<1>3. \A i \in Slots : (Busy(i)' <=> Busy(i)) /\ (Reported(i)' <=> Reported(i))
  BY <1>1 DEF Busy, InCard, CardDscs, Reported
<1>4. BkRight'
  BY <1>1, <1>2, <1>3 DEF Packets, BkRight
<1>5. OneOwner'
  BY <1>1, <1>2, <1>3 DEF Packets, OneOwner, Carrying
<1> QED
  BY <1>4, <1>5 DEF Packets

(* A packet that finds no room is freed.                                   *)
LEMMA PacketsNoRoom ==
    ASSUME TypeOK, Packets, NEW p \in Ports, NoRoom(p)
    PROVE  Packets'
<1>1. /\ UNCHANGED <<bk, dsc, sending, dne, wpc, wslot>>
      /\ owned' = owned \ {req[p].skb} /\ Carrying(p)
  BY DEF NoRoom, Drop, cardVars, workVars, Carrying
<1>2. /\ pc'[p] = "idle"
      /\ \A q \in Ports \ {p} : pc'[q] = pc[q] /\ req'[q] = req[q]
  BY DEF NoRoom, Drop, Goto, TypeOK
<1>3. \A i \in Slots : (Busy(i)' <=> Busy(i)) /\ (Reported(i)' <=> Reported(i))
  BY <1>1 DEF Busy, InCard, CardDscs, Reported
<1>4. BkRight'
  BY <1>1, <1>2, <1>3 DEF Packets, BkRight
<1>5. OneOwner'
  BY <1>1, <1>2, <1>3 DEF Packets, OneOwner, Carrying
<1> QED
  BY <1>4, <1>5 DEF Packets

(* Nothing under way is found through the entry that is overwritten.       *)
LEMMA PacketsWriteBk ==
    ASSUME TypeOK, Ring, Packets, NEW p \in Ports, WriteBk(p)
    PROVE  Packets'
<1>1. PICK s \in Slots : s = req[p].slot
  BY SlotInRange
<1>2. UNCHANGED <<dsc, sending, dne, wpc, wslot, req, owned>>
  BY DEF WriteBk, cardVars, workVars
<1>3. /\ bk'[s].skb = req[p].skb /\ bk'[s].size = req[p].size
      /\ \A i \in Slots \ {s} : bk'[i] = bk[i]
  BY <1>1 DEF WriteBk, TypeOK
<1>4. /\ pc[p] = "bk" /\ pc'[p] = "dsc" /\ \A q \in Ports \ {p} : pc'[q] = pc[q]
      /\ \A q \in Ports : Carrying(q)' <=> Carrying(q)
  BY DEF WriteBk, Goto, TypeOK, Carrying
<1>5. /\ ~Busy(s)
      /\ \A q \in Ports \ {p} : pc[q] = "dsc" => req[q].slot \in Slots \ {s}
  BY <1>1, <1>4, SlotInRange DEF Ring, SlotExclusive, Holding, Busy
<1>6. \A i \in Slots : (Busy(i)' <=> Busy(i)) /\ (Reported(i)' <=> Reported(i))
  BY <1>2 DEF Busy, InCard, CardDscs, Reported
<1>7. BkRight'
  <2>1. dsc[s] = NoDsc /\ sending[s] = NoDsc /\ ~Reported(s)
    BY <1>5, InCardDef DEF Busy
  <2> QED
    BY <1>1, <1>2, <1>3, <1>4, <1>5, <1>6, <2>1 DEF Packets, BkRight
<1>8. OneOwner'
  BY <1>2, <1>3, <1>4, <1>5, <1>6 DEF Packets, OneOwner
<1> QED
  BY <1>7, <1>8 DEF Packets

(* The packet goes from the transmitter to the card.                       *)
LEMMA PacketsWriteDsc ==
    ASSUME TypeOK, Ring, Packets, NEW p \in Ports, WriteDsc(p)
    PROVE  Packets'
<1>1. PICK s \in Slots : s = req[p].slot
  BY SlotInRange
<1>2. UNCHANGED <<bk, sending, dne, wpc, wslot, req, owned>>
  BY DEF WriteDsc, workVars
<1>3. /\ dsc'[s].skb = req[p].skb /\ dsc'[s].size = req[p].size
      /\ \A i \in Slots \ {s} : dsc'[i] = dsc[i]
  BY <1>1 DEF WriteDsc, TypeOK
<1>4. /\ pc[p] = "dsc" /\ pc'[p] = "stats" /\ \A q \in Ports \ {p} : pc'[q] = pc[q]
      /\ Carrying(p) /\ ~Carrying(p)' /\ \A q \in Ports \ {p} : Carrying(q)' <=> Carrying(q)
  BY DEF WriteDsc, Goto, TypeOK, Carrying
<1>5. /\ bk[s].skb = req[p].skb /\ bk[s].size = req[p].size
  BY <1>1, <1>4 DEF Packets, BkRight
<1>6. \A i \in Slots : /\ Reported(i)' <=> Reported(i)
                       /\ i # s => (Busy(i)' <=> Busy(i))
  BY <1>2, <1>3 DEF Busy, InCard, CardDscs, Reported
<1>7. BkRight'
  BY <1>2, <1>3, <1>4, <1>5, <1>6 DEF Packets, BkRight
<1>8. OneOwner'
  BY <1>2, <1>4, <1>5, <1>6 DEF Packets, OneOwner
<1> QED
  BY <1>7, <1>8 DEF Packets

(* The card fetches what the transmitter posted.                           *)
LEMMA PacketsFetch ==
    ASSUME TypeOK, Packets, Fetch
    PROVE  Packets'
<1>1. PICK s \in Slots : s = cardRd
  BY DEF TypeOK
<1>2. UNCHANGED <<bk, dne, wpc, wslot, req, pc, owned>>
  BY DEF Fetch, workVars, txVars
<1>3. /\ dsc[s] # NoDsc /\ dsc'[s] = NoDsc /\ sending'[s] = dsc[s]
      /\ \A i \in Slots \ {s} : dsc'[i] = dsc[i] /\ sending'[i] = sending[i]
  BY <1>1 DEF Fetch, TypeOK
<1>4. \A i \in Slots : /\ Reported(i)' <=> Reported(i)
                       /\ Busy(i)' <=> Busy(i)
  BY <1>2, <1>3 DEF Busy, InCard, CardDscs, Reported
<1>5. BkRight'
  BY <1>2, <1>3, <1>4 DEF Packets, BkRight
<1>6. OneOwner'
  BY <1>2, <1>4 DEF Packets, OneOwner, Carrying
<1> QED
  BY <1>5, <1>6 DEF Packets

(* The card reports what it fetched, for the slot it fetched it from.      *)
LEMMA PacketsComplete ==
    ASSUME TypeOK, Ring, Packets, Complete
    PROVE  Packets'
<1>1. PICK s \in Slots : s = cardDne
  BY DEF TypeOK
<1>2. UNCHANGED <<bk, dsc, wpc, wslot, req, pc, owned>>
  BY DEF Complete, workVars, txVars
<1>3. /\ sending[s] # NoDsc /\ sending'[s] = NoDsc /\ dne'[s] = sending[s].skb
      /\ \A i \in Slots \ {s} : sending'[i] = sending[i] /\ dne'[i] = dne[i]
  BY <1>1 DEF Complete, TypeOK
<1>4. InCard(s)
  BY <1>3, InCardDef
<1>5. \A i \in Slots \ {s} : /\ Reported(i)' <=> Reported(i)
                             /\ Busy(i)' <=> Busy(i)
  BY <1>2, <1>3 DEF Busy, InCard, CardDscs, Reported
<1>6. \A i \in Slots : Busy(i)' => Busy(i)
  BY <1>4, <1>5 DEF Busy
<1>7. BkRight'
  BY <1>2, <1>3, <1>5 DEF Packets, BkRight
<1>8. OneOwner'
  BY <1>2, <1>6 DEF Packets, OneOwner, Carrying
<1> QED
  BY <1>7, <1>8 DEF Packets

(* The packet that is freed is found in no other place.                    *)
LEMMA PacketsReap ==
    ASSUME TypeOK, Ring, Packets, Reap
    PROVE  Packets'
<1>1. PICK s \in Slots : s = dneRd
  BY DEF TypeOK
<1>2. /\ UNCHANGED <<bk, dsc, sending, dne, req, pc>>
      /\ wpc = "poll" /\ wpc' = "dec" /\ wslot' = s /\ Reported(s)
      /\ owned' = owned \ {bk[s].skb}
  BY <1>1 DEF Reap, cardVars, txVars, Reported
<1>3. ~Reported(s)' /\ \A i \in Slots \ {s} : Reported(i)' <=> Reported(i)
  BY <1>2 DEF Reported
<1>4. Busy(s) /\ ~InCard(s)
  BY <1>2 DEF Busy, Ring, OneStage
<1>5. ~Busy(s)' /\ \A i \in Slots \ {s} : Busy(i)' <=> Busy(i)
  BY <1>2, <1>3, <1>4 DEF Busy, InCard, CardDscs
<1>6. BkRight'
  BY <1>2, <1>3 DEF Packets, BkRight
<1>7. OneOwner'
  BY <1>2, <1>4, <1>5 DEF Packets, OneOwner, Carrying
<1> QED
  BY <1>6, <1>7 DEF Packets

(* Any step of the system keeps the packets in their places.               *)
LEMMA PacketsNext ==
    ASSUME TypeOK, RingInv, PacketInv, [Next]_vars
    PROVE  PacketInv'
<1> SUFFICES ASSUME mapErrors' = 0 PROVE Packets'
  BY DEF PacketInv
<1>1. mapErrors = 0 /\ \A p \in Ports : ~MapError(p)
  BY NoErrorYet
<1>2. Ring /\ Packets
  BY <1>1 DEF RingInv, PacketInv
<1>3. ASSUME NEW p \in Ports,
             Reserve(p) \/ Count(p) \/ CheckFull(p) \/ StopQueue(p) \/ Stats(p)
      PROVE  Packets'
  <2>1. UNCHANGED <<bk, dsc, sending, dne, wpc, wslot, owned>>
    BY <1>3 DEF Reserve, Count, CheckFull, StopQueue, Stats, cardVars, workVars
  <2>2. \A i \in Slots : Reported(i)' <=> Reported(i)
    BY <2>1 DEF Reported
  <2>3. /\ pc'[p] # "dsc" /\ (Carrying(p)' => Carrying(p))
        /\ Carrying(p)' => req'[p].skb = req[p].skb /\ req'[p].size = req[p].size
        /\ \A q \in Ports \ {p} : pc'[q] = pc[q] /\ req'[q] = req[q]
    BY <1>3 DEF Reserve, Count, CheckFull, StopQueue, Stats, Goto, TypeOK, Reqs, Carrying
  <2>4. \A q \in Ports \ {p} : Carrying(q)' <=> Carrying(q)
    BY <2>3 DEF Carrying
  <2> QED
    BY <1>2, <2>1, <2>2, <2>3, <2>4, PacketsKept
<1>4. ASSUME DecDsc \/ Invalidate \/ CheckWake \/ UNCHANGED vars
             \/ \E p \in Ports : WakePort(p)
      PROVE  Packets'
  <2>1. UNCHANGED <<bk, dsc, sending, owned, pc, req, wslot>>
    BY <1>4 DEF DecDsc, Invalidate, CheckWake, WakePort, vars, cardVars, txVars, workVars
  <2>2. \A i \in Slots : Reported(i)' => Reported(i) /\ dne'[i] = dne[i]
    <3>1. CASE Invalidate
      BY <3>1 DEF Invalidate, Reported, TypeOK
    <3>2. CASE DecDsc
      BY <3>2 DEF DecDsc, Reported, cardVars
    <3>3. CASE CheckWake \/ UNCHANGED vars \/ \E p \in Ports : WakePort(p)
      BY <3>3 DEF CheckWake, WakePort, vars, Reported, cardVars, workVars
    <3> QED
      BY <1>4, <3>1, <3>2, <3>3
  <2> QED
    BY <1>2, <2>1, <2>2, PacketsKept DEF Carrying
<1> QED
  BY <1>1, <1>2, <1>3, <1>4, PacketsXmit, PacketsNoRoom, PacketsWriteBk, PacketsWriteDsc,
     PacketsFetch, PacketsComplete, PacketsReap
     DEF Next, Card, Worker, Transmitter, Inside

(* Bookkeeping, card and completion ring agree on the packet of each slot, *)
(* and nobody has a packet that another one has.                           *)
LEMMA PacketInvariant == Spec => []PacketInv
<1>1. Init => PacketInv
  <2> SUFFICES ASSUME Init PROVE Packets
    BY DEF PacketInv
  <2>1. \A p \in Ports : pc[p] = "idle" /\ ~Carrying(p)
    BY DEF Init, Carrying
  <2>2. \A i \in Slots : dsc[i] = NoDsc /\ sending[i] = NoDsc /\ ~Busy(i) /\ ~Reported(i)
    BY DEF Init, InCard, CardDscs, Reported, Busy
  <2> QED
    BY <2>1, <2>2 DEF Packets, BkRight, OneOwner
<1> QED
  BY <1>1, PacketsNext, TypeCorrect, RingInvariant, PTL DEF Spec

(* As long as no mapping has failed, the packet that work_handler finds in *)
(* the bookkeeping by the index of a completion and frees (lines 171-173)  *)
(* is the one that the card sent, and the driver still has it. It holds    *)
(* for any card that takes the slots in order, the slow one and the fast   *)
(* one.                                                                    *)
THEOREM CompletionsMatch == Spec => [](mapErrors = 0 => CompletionMatches)
<1>1. PacketInv => (mapErrors = 0 => CompletionMatches)
  BY DEF PacketInv, Packets, BkRight, OneOwner, Busy, CompletionMatches
<1> QED
  BY <1>1, PacketInvariant, PTL

-----------------------------------------------------------------------------
(* No packet and no slot is lost                                           *)
(*                                                                         *)
(* When the card is slow enough, the converse holds too: what the driver   *)
(* has and what the counters count is in somebody's hands.                 *)

(* Slot i carries packet s: a transmitter is filling it in, or the card    *)
(* has it or has reported it.                                              *)
Carries(i, s) ==
    \/ \E p \in Ports : Holding(p) /\ req[p].slot = i /\ req[p].skb = s
    \/ Busy(i) /\ bk[i].skb = s

Somewhere(s) ==
    \/ \E p \in Ports : pc[p] = "xmit" /\ req[p].skb = s
    \/ \E i \in Slots : Carries(i, s)

(* The entry that the worker will invalidate has left the window.          *)
Behind == wpc \in {"dec", "invalidate"} => dneRd = Wrap(wslot + 1, N)

NoneLost ==
    /\ Behind
    /\ \A s \in owned : Somewhere(s)
    /\ \A i \in Slots : InWindow(i) => \E s \in Skbs : Carries(i, s)

KeptInv == SlowCard /\ mapErrors = 0 => NoneLost

(* A slot that is posted has a valid descriptor.                           *)
LEMMA PostedIsValid ==
    ASSUME TypeOK, Packets, NEW p \in Ports, WriteDsc(p), NEW s \in Slots, s = req[p].slot
    PROVE  dsc'[s] # NoDsc
<1>1. pc[p] = "dsc" /\ req[p].skb \in Skbs
  BY DEF WriteDsc, Packets, OneOwner, Carrying, TypeOK
<1> QED
  BY <1>1, RingAssumption DEF WriteDsc, TypeOK, NoDsc

(* The slot that is completed is not the one that the worker is about to   *)
(* invalidate: that one has left the window.                               *)
LEMMA CompleteIsReported ==
    ASSUME TypeOK, Ring, Packets, Behind, SlowCard, Complete, NEW s \in Slots, s = cardDne
    PROVE  Reported(s)'
<1>1. /\ UNCHANGED <<wpc, wslot>> /\ sending[s] # NoDsc /\ dne'[s] = sending[s].skb
      /\ ~(wpc = "invalidate" /\ wslot = s)
  BY DEF Complete, TypeOK, workVars
<1>2. InCard(s) /\ Busy(s)
  BY <1>1, InCardDef DEF Busy
<1>3. sending[s].skb \in Skbs
  BY <1>1, <1>2 DEF Packets, BkRight, OneOwner, TypeOK
<1>4. ~(wpc = "dec" /\ wslot = s)
  <2> SUFFICES ASSUME wpc = "dec", wslot = s PROVE FALSE
    OBVIOUS
  <2>1. InWindow(s)
    BY <1>2 DEF Ring, InUseInWindow
  <2>2. Used <= N - 1
    BY RingAssumption DEF Ring, Window, Used, TypeOK
  <2>3. Dist(s) = N - 1
    BY RingAssumption DEF Behind, Dist, Wrap, Slots, TypeOK
  <2> QED
    BY <2>1, <2>2, <2>3, RingAssumption DEF InWindow, Used, TypeOK
<1> QED
  BY <1>1, <1>3, <1>4, RingAssumption DEF Reported

(* A slot carries its packet until the worker takes its completion.        *)
LEMMA CarriesOn ==
    ASSUME TypeOK, Ring, Packets, Behind, SlowCard, [Next]_vars, \A p \in Ports : ~MapError(p),
           ~Reap, NEW i \in Slots, NEW s \in Skbs, Carries(i, s)
    PROVE  Carries(i, s)'
<1>1. ASSUME NEW p \in Ports, Transmitter(p), ~WriteBk(p), ~WriteDsc(p) PROVE Carries(i, s)'
  <2>1. UNCHANGED <<bk, dsc, sending, dne, wpc, wslot>>
    BY <1>1 DEF Transmitter, Xmit, NoRoom, Reserve, Inside, Count, CheckFull, StopQueue,
                Stats, cardVars, workVars
  <2>2. Busy(i)' <=> Busy(i)
    BY <2>1 DEF Busy, InCard, CardDscs, Reported
  <2>3. /\ Holding(p) => Holding(p)' /\ req'[p] = req[p]
        /\ \A q \in Ports \ {p} : pc'[q] = pc[q] /\ req'[q] = req[q]
    BY <1>1 DEF Transmitter, Xmit, NoRoom, Drop, Reserve, Inside, Count, CheckFull,
                StopQueue, Stats, Goto, Holding, TypeOK
  <2> QED
    BY <2>1, <2>2, <2>3 DEF Carries, Holding
<1>2. ASSUME NEW p \in Ports, WriteBk(p) PROVE Carries(i, s)'
  <2>1. UNCHANGED <<dsc, sending, dne, wpc, wslot, req>>
    BY <1>2 DEF WriteBk, cardVars, workVars
  <2>2. Busy(i)' <=> Busy(i)
    BY <2>1 DEF Busy, InCard, CardDscs, Reported
  <2>3. \A q \in Ports : Holding(q)' <=> Holding(q)
    BY <1>2 DEF WriteBk, Goto, Holding, TypeOK
  <2>4. Busy(i) => bk'[i] = bk[i]
    <3>1. ~Busy(req[p].slot)
      BY <1>2 DEF WriteBk, Ring, SlotExclusive, Holding, Busy
    <3> QED
      BY <1>2, <3>1 DEF WriteBk, TypeOK
  <2> QED
    BY <2>1, <2>2, <2>3, <2>4 DEF Carries
<1>3. ASSUME NEW p \in Ports, WriteDsc(p) PROVE Carries(i, s)'
  <2>1. PICK new \in Slots : new = req[p].slot
    BY SlotInRange
  <2>2. UNCHANGED <<bk, sending, dne, wpc, wslot, req>>
    BY <1>3 DEF WriteDsc, workVars
  <2>3. dsc'[new] # NoDsc /\ \A j \in Slots \ {new} : dsc'[j] = dsc[j]
    BY <1>3, <2>1, PostedIsValid DEF WriteDsc, TypeOK
  <2>4. pc[p] = "dsc" /\ \A q \in Ports \ {p} : pc'[q] = pc[q]
    BY <1>3 DEF WriteDsc, Goto, TypeOK
  <2>5. Busy(new)' /\ bk[new].skb = req[p].skb
    BY <1>3, <2>1, <2>3, <2>4 DEF Busy, InCard, CardDscs, Packets, BkRight
  <2>6. Busy(i) => Busy(i)'
    BY <2>2, <2>3, <2>5 DEF Busy, InCard, CardDscs, Reported
  <2> QED
    BY <2>1, <2>2, <2>4, <2>5, <2>6 DEF Carries, Holding
<1>4. CASE Card
  <2>1. UNCHANGED <<bk, pc, req, wpc, wslot>>
    BY <1>4 DEF Card, Fetch, Complete, txVars, workVars
  <2>2. Busy(i) => Busy(i)'
    <3>1. CASE Fetch
      BY <3>1 DEF Fetch, Busy, InCard, CardDscs, Reported, TypeOK, workVars
    <3>2. CASE Complete /\ i = cardDne
      BY <3>2, CompleteIsReported DEF Busy
    <3>3. CASE Complete /\ i # cardDne
      BY <3>3 DEF Complete, Busy, InCard, CardDscs, Reported, TypeOK, workVars
    <3> QED
      BY <1>4, <3>1, <3>2, <3>3 DEF Card
  <2> QED
    BY <2>1, <2>2 DEF Carries, Holding
<1>5. ASSUME DecDsc \/ Invalidate \/ CheckWake \/ UNCHANGED vars
             \/ \E p \in Ports : WakePort(p)
      PROVE  Carries(i, s)'
  <2>1. UNCHANGED <<bk, dsc, sending, pc, req, wslot>>
    BY <1>5 DEF DecDsc, Invalidate, CheckWake, WakePort, vars, cardVars, txVars, workVars
  <2>2. Reported(i) => Reported(i)'
    BY <1>5 DEF DecDsc, Invalidate, CheckWake, WakePort, vars, Reported, cardVars, workVars, TypeOK
  <2> QED
    BY <2>1, <2>2 DEF Carries, Busy, InCard, CardDscs, Holding
<1> QED
  BY <1>1, <1>2, <1>3, <1>4, <1>5 DEF Next, Worker

(* The slot that is reserved carries the transmitter's packet.             *)
LEMMA KeptReserve ==
    ASSUME TypeOK, LockHeld, Ring, Packets, NoneLost, SlowCard, NEW p \in Ports, Reserve(p)
    PROVE  NoneLost'
<1>1. UNCHANGED <<wpc, wslot, dneRd, owned>>
  BY DEF Reserve, workVars
<1>2. /\ pc[p] = "xmit" /\ pc'[p] = "count" /\ req'[p].slot = dscWr /\ req'[p].skb = req[p].skb
      /\ \A q \in Ports \ {p} : pc'[q] = pc[q] /\ req'[q] = req[q]
  BY DEF Reserve, Goto, TypeOK, Reqs
<1>3. PICK new \in Slots : new = dscWr
  BY DEF TypeOK
<1>4. PICK t \in Skbs : t = req[p].skb /\ Carries(new, t)'
  BY <1>2, <1>3 DEF Carries, Holding, Packets, OneOwner, Carrying, TypeOK
<1>5. ASSUME NEW i \in Slots, NEW s \in Skbs, Carries(i, s) PROVE Carries(i, s)'
  <2>1. ~Reap /\ \A q \in Ports : ~MapError(q)
    BY RingAssumption DEF Reserve, Reap, MapError, TypeOK, workVars
  <2>2. [Next]_vars
    BY DEF Next, Transmitter
  <2> QED
    BY <1>5, <2>1, <2>2, CarriesOn DEF NoneLost
<1>6. ASSUME NEW s \in owned' PROVE Somewhere(s)'
  <2>1. Somewhere(s) /\ s \in Skbs
    BY <1>1, <1>6 DEF NoneLost, TypeOK
  <2> QED
    BY <1>2, <1>4, <1>5, <2>1 DEF Somewhere
<1>7. ASSUME NEW i \in Slots, InWindow(i)' PROVE \E s \in Skbs : Carries(i, s)'
  <2>1. InWindow(i) \/ i = new
    BY <1>3, <1>7, WindowReserve
  <2> QED
    BY <1>4, <1>5, <2>1 DEF NoneLost
<1> QED
  BY <1>1, <1>6, <1>7 DEF NoneLost, Behind

(* The packet whose completion is taken is freed with its slot.            *)
LEMMA KeptReap ==
    ASSUME TypeOK, Ring, NoneLost, Reap
    PROVE  NoneLost'
<1>1. PICK s \in Slots : s = dneRd
  BY DEF TypeOK
<1>2. /\ UNCHANGED <<bk, dsc, sending, dne, req, pc>>
      /\ wpc = "poll" /\ wpc' = "dec" /\ wslot' = s /\ Reported(s)
      /\ owned' = owned \ {bk[s].skb} /\ dneRd' = Wrap(s + 1, N)
  BY <1>1 DEF Reap, cardVars, txVars, Reported
<1>3. \A p \in Ports : Holding(p) => req[p].slot # s
  BY <1>2 DEF Ring, SlotExclusive
<1>4. \A i \in Slots \ {s} : Busy(i)' <=> Busy(i)
  BY <1>2 DEF Busy, InCard, CardDscs, Reported
<1>5. \A i \in Slots \ {s}, t \in Skbs : Carries(i, t) => Carries(i, t)'
  BY <1>2, <1>4 DEF Carries, Holding
<1>6. ASSUME NEW t \in owned' PROVE Somewhere(t)'
  <2>1. Somewhere(t) /\ t \in Skbs /\ ~Carries(s, t)
    BY <1>2, <1>3, <1>6 DEF NoneLost, Carries, TypeOK
  <2> QED
    BY <1>2, <1>5, <2>1 DEF Somewhere
<1>7. ASSUME NEW i \in Slots, InWindow(i)' PROVE \E t \in Skbs : Carries(i, t)'
  <2>1. InWindow(i) /\ i # s
    BY <1>1, <1>7, WindowReap
  <2> QED
    BY <1>5, <2>1 DEF NoneLost
<1> QED
  BY <1>2, <1>6, <1>7 DEF NoneLost, Behind

(* No step drops a packet or leaves a slot of the window empty.            *)
LEMMA KeptNext ==
    ASSUME TypeOK, RingInv, PacketInv, KeptInv, [Next]_vars
    PROVE  KeptInv'
<1> SUFFICES ASSUME SlowCard, mapErrors' = 0, ~Reap, \A p \in Ports : ~Reserve(p)
             PROVE  NoneLost'
  BY NoErrorYet, KeptReserve, KeptReap DEF KeptInv, RingInv, PacketInv
<1>1. mapErrors = 0 /\ \A p \in Ports : ~MapError(p)
  BY NoErrorYet
<1>2. Ring /\ LockHeld /\ Packets /\ NoneLost
  BY <1>1 DEF RingInv, PacketInv, KeptInv
<1>3. \A i \in Slots, s \in Skbs : Carries(i, s) => Carries(i, s)'
  BY <1>1, <1>2, CarriesOn DEF NoneLost
<1>4. dneRd' = dneRd /\ \A i \in Slots : InWindow(i)' <=> InWindow(i)
  BY <1>2, UsedKept DEF InWindow, Dist
<1>5. Behind'
  <2>1. wpc' \in {"dec", "invalidate"} => wpc \in {"dec", "invalidate"} /\ wslot' = wslot
    <3>1. ASSUME NEW p \in Ports, Transmitter(p) PROVE UNCHANGED <<wpc, wslot>>
      BY <1>1, <3>1 DEF Transmitter, Xmit, NoRoom, Reserve, Inside, Count, CheckFull, StopQueue,
                        WriteBk, WriteDsc, Stats, workVars
    <3>2. ASSUME Card \/ UNCHANGED vars PROVE UNCHANGED <<wpc, wslot>>
      BY <3>2 DEF Card, Fetch, Complete, vars, workVars
    <3>3. CASE Worker
      BY <3>3 DEF Worker, DecDsc, Invalidate, CheckWake, WakePort
    <3> QED
      BY <3>1, <3>2, <3>3 DEF Next
  <2> QED
    BY <1>2, <1>4, <2>1 DEF NoneLost, Behind
<1>6. ASSUME NEW s \in owned' PROVE Somewhere(s)'
  <2>1. ASSUME s \in owned,
               \A p \in Ports : pc[p] = "xmit" /\ req[p].skb = s => pc'[p] = "xmit" /\ req'[p] = req[p]
        PROVE  Somewhere(s)'
    <3>1. Somewhere(s) /\ s \in Skbs
      BY <1>2, <2>1 DEF NoneLost, TypeOK
    <3> QED
      BY <1>3, <2>1, <3>1 DEF Somewhere
  <2>2. ASSUME NEW p \in Ports, NEW t \in Skbs, NEW c \in Sizes, Xmit(p, t, c)
        PROVE  Somewhere(s)'
    <3>1. CASE s = t
      BY <2>2, <3>1 DEF Xmit, Goto, Somewhere, TypeOK
    <3>2. CASE s # t
      BY <1>6, <2>1, <2>2, <3>2 DEF Xmit, Goto, TypeOK
    <3> QED
      BY <3>1, <3>2
  <2>3. ASSUME NEW p \in Ports, NoRoom(p) \/ Inside(p)
        PROVE  Somewhere(s)'
    BY <1>6, <2>1, <2>3 DEF NoRoom, Drop, Inside, Count, CheckFull, StopQueue, WriteBk, WriteDsc,
                            Stats, Goto, TypeOK
  <2>4. ASSUME Card \/ Worker \/ UNCHANGED vars PROVE Somewhere(s)'
    BY <1>6, <2>1, <2>4 DEF Card, Fetch, Complete, Worker, DecDsc, Invalidate, CheckWake, WakePort,
                            vars, txVars
  <2> QED
    BY <1>1, <2>2, <2>3, <2>4 DEF Next, Transmitter
<1>7. ASSUME NEW i \in Slots, InWindow(i)' PROVE \E s \in Skbs : Carries(i, s)'
  BY <1>2, <1>3, <1>4, <1>7 DEF NoneLost
<1> QED
  BY <1>5, <1>6, <1>7 DEF NoneLost

(* What the driver has is somewhere, and what is counted is carried.       *)
LEMMA KeptInvariant == Spec => []KeptInv
<1>1. Init => KeptInv
  <2> SUFFICES ASSUME Init PROVE NoneLost
    BY DEF KeptInv
  <2>1. Used = 0 /\ owned = {} /\ wpc = "poll"
    BY DEF Init, Used, Counting
  <2>2. ASSUME NEW i \in Slots PROVE ~InWindow(i)
    BY <2>1, RingAssumption DEF Init, InWindow, Dist, Slots
  <2> QED
    BY <2>1, <2>2 DEF NoneLost, Behind
<1> QED
  BY <1>1, KeptNext, TypeCorrect, RingInvariant, PacketInvariant, PTL DEF Spec

(* As long as no mapping has failed, and with a card that completes a slot *)
(* again only after the worker has invalidated its previous completion, a  *)
(* packet that nf10i_tx was given and that is not freed is with its        *)
(* transmitter, in the card, or reported and still to be read (lines       *)
(* 101-110 of nf10priv_xmit, lines 159-178 of work_handler).  A faster     *)
(* card's new completion may be erased by the invalidation of line 178.    *)
THEOREM NoPacketLost == SlowCard => (Spec => [](mapErrors = 0 => NoSkbLost))
<1> SUFFICES ASSUME SlowCard PROVE Spec => [](mapErrors = 0 => NoSkbLost)
  OBVIOUS
<1>1. ASSUME TypeOK, PacketInv, KeptInv, mapErrors = 0
      PROVE  NoSkbLost
  <2>1. SUFFICES ASSUME NEW s \in owned
                 PROVE  \/ \E p \in Ports : Carrying(p) /\ req[p].skb = s
                        \/ \E i \in Slots : \E d \in CardDscs(i) : d.skb = s
                        \/ \E i \in Slots : Reported(i) /\ dne[i] = s
    BY DEF NoSkbLost, Carrying
  <2>2. Somewhere(s)
    BY <1>1 DEF KeptInv, NoneLost
  <2>3. ASSUME NEW i \in Slots, InCard(i), bk[i].skb = s
        PROVE  \E d \in CardDscs(i) : d.skb = s
    BY <1>1, <2>3 DEF PacketInv, Packets, BkRight, InCard, CardDscs
  <2>4. ASSUME NEW i \in Slots, Reported(i), bk[i].skb = s
        PROVE  dne[i] = s
    BY <1>1, <2>4 DEF PacketInv, Packets, BkRight
  <2> QED
    BY <2>2, <2>3, <2>4 DEF Somewhere, Carries, Busy, Holding, Carrying
<1> QED
  BY <1>1, TypeCorrect, PacketInvariant, KeptInvariant, PTL

-----------------------------------------------------------------------------
(* The packet buffer                                                       *)
(*                                                                         *)
(* BuffersDisjoint says nothing of the lines at pktWr.  The invariant lays *)
(* the slots of the window out one after the other in the buffer: slot i   *)
(* has the lines from st[i] up to en[i], counted from where the packet at  *)
(* dneRd begins, and they end at pktWr.                                    *)

(* The lines of the packets that have a slot: pktCnt lags behind in Reserve*)
(* but not in Reap, which gives the lines back with the completion.        *)
PktUsed == pktCnt + (IF Counting THEN req[txLock].size ELSE 0)

Stacked(st, en) ==
    \A i \in Slots : InWindow(i) =>
        /\ 0 <= st[i] /\ st[i] <= en[i] /\ en[i] <= PktUsed
        /\ Dist(i) = 0 => st[i] = 0
        /\ Dist(i) = Used - 1 => en[i] = PktUsed
        /\ \A j \in Slots : InWindow(j) =>
               /\ Dist(i) < Dist(j) => en[i] <= st[j]
               /\ Dist(j) = Dist(i) + 1 => st[j] = en[i]

Space(head) ==
    /\ pktWr = Wrap(head + PktUsed, M)
    /\ PktUsed \in 0..M
    /\ Used = 0 => PktUsed = 0

Placed(head, st, en) ==
    /\ \A p \in Ports : Holding(p) =>
           /\ req[p].addr = Wrap(head + st[req[p].slot], M)
           /\ req[p].size = en[req[p].slot] - st[req[p].slot]
    /\ \A i \in Slots :
           /\ Busy(i) => bk[i].size = en[i] - st[i]
           /\ \A d \in CardDscs(i) : d.addr = Wrap(head + st[i], M)

Layout(head, st, en) == Space(head) /\ Stacked(st, en) /\ Placed(head, st, en)

LaidOut == \E head \in Lines, st \in [Slots -> Int], en \in [Slots -> Int] : Layout(head, st, en)

SpaceInv == mapErrors = 0 => LaidOut

(* Steps that neither take lines nor give any back.                        *)
LEMMA LaidOutKept ==
    ASSUME TypeOK, LaidOut,
           UNCHANGED <<pktWr, dneRd>>, PktUsed' = PktUsed, Used' = Used,
           \A p \in Ports : Holding(p)' => Holding(p) /\ req'[p] = req[p],
           \A i \in Slots : /\ Busy(i)' => Busy(i) /\ bk'[i].size = bk[i].size
                            /\ CardDscs(i)' \subseteq CardDscs(i)
    PROVE  LaidOut'
<1>1. PICK head \in Lines, st \in [Slots -> Int], en \in [Slots -> Int] : Layout(head, st, en)
  BY DEF LaidOut
<1>2. Space(head)'
  BY <1>1 DEF Layout, Space
<1>3. Stacked(st, en)'
  <2>1. \A i \in Slots : Dist(i)' = Dist(i)
    BY DEF Dist
  <2>2. \A i \in Slots : InWindow(i)' <=> InWindow(i)
    BY <2>1 DEF InWindow
  <2> QED
    BY <1>1, <2>1, <2>2 DEF Layout, Stacked
<1>4. Placed(head, st, en)'
  BY <1>1 DEF Layout, Placed
<1> QED
  BY <1>2, <1>3, <1>4 DEF Layout, LaidOut

(* The lines that are reserved follow those in use.                        *)
LEMMA LaidOutReserve ==
    ASSUME TypeOK, LockHeld, Ring, LaidOut, NEW p \in Ports, Reserve(p)
    PROVE  LaidOut'
<1>1. PICK head \in Lines, st \in [Slots -> Int], en \in [Slots -> Int] : Layout(head, st, en)
  BY DEF LaidOut
<1>2. PICK new \in Slots : new = dscWr
  BY DEF TypeOK
<1>3. PICK c \in 0..M : c = req[p].size
  BY SizeInBuffer
<1>4. PICK u \in 0..M : u = PktUsed
  BY <1>1 DEF Layout, Space
<1> DEFINE st2 == [st EXCEPT ![new] = u]
           en2 == [en EXCEPT ![new] = u + c]
<1>5. /\ UNCHANGED <<bk, dsc, sending, dne, wpc, wslot, dneRd, pktCnt>>
      /\ pktWr' = Wrap(pktWr + c, M) /\ pktCnt + c <= M
  BY <1>3 DEF Reserve, Advance, Room, cardVars, workVars
<1>6. /\ Holding(p)' /\ ~Holding(p) /\ req'[p].slot = new /\ req'[p].addr = pktWr
      /\ req'[p].size = c /\ txLock' = p
      /\ \A q \in Ports \ {p} : (Holding(q)' <=> Holding(q)) /\ req'[q] = req[q]
  BY <1>2, <1>3 DEF Reserve, Goto, Holding, TypeOK, Reqs
<1>7. ~Counting /\ Counting' /\ Used' = Used + 1 /\ Used \in 0..(N - 1)
  BY WindowReserve
<1>8. PktUsed' = u + c /\ PktUsed' \in 0..M
  BY <1>3, <1>4, <1>5, <1>6, <1>7, RingAssumption DEF PktUsed, TypeOK
<1>9. M \in Nat /\ N \in Nat /\ head \in 0..(M - 1) /\ pktWr \in 0..(M - 1)
  BY RingAssumption DEF Lines, TypeOK
<1>10. st2 \in [Slots -> Int] /\ en2 \in [Slots -> Int]
  BY <1>9
<1>11. /\ st2[new] = u /\ en2[new] = u + c
       /\ \A i \in Slots \ {new} : st2[i] = st[i] /\ en2[i] = en[i]
  BY <1>9
<1>12. Space(head)'
  BY <1>1, <1>3, <1>4, <1>5, <1>7, <1>8, <1>9 DEF Layout, Space, Wrap
<1>13. Stacked(st2, en2)'
  <2>1. Dist(new) = Used /\ ~InWindow(new)
    BY <1>2, WindowReserve
  <2>2. \A i \in Slots : Dist(i)' = Dist(i)
    BY WindowReserve
  <2>3. \A i \in Slots : InWindow(i)' <=> InWindow(i) \/ i = new
    BY <1>2, WindowReserve
  <2>4. ASSUME NEW i \in Slots, InWindow(i)'
        PROVE  /\ 0 <= st2[i] /\ st2[i] <= en2[i] /\ en2[i] <= PktUsed'
               /\ Dist(i) = 0 => st2[i] = 0
               /\ Dist(i) = Used => en2[i] = PktUsed'
    <3>1. CASE i = new
      <4>1. Used = 0 => u = 0
        BY <1>1, <1>4 DEF Layout, Space
      <4> QED
        BY <1>7, <1>8, <1>11, <2>1, <3>1, <4>1
    <3>2. CASE i # new
      <4>1. InWindow(i) /\ Dist(i) # Used
        BY <2>1, <2>3, <2>4, <3>2, DistInjective
      <4>2. /\ 0 <= st[i] /\ st[i] <= en[i] /\ en[i] <= u
            /\ Dist(i) = 0 => st[i] = 0
        BY <1>1, <1>4, <4>1 DEF Layout, Stacked
      <4> QED
        BY <1>8, <1>11, <3>2, <4>1, <4>2
    <3> QED
      BY <3>1, <3>2
  <2>5. ASSUME NEW i \in Slots, InWindow(i)', NEW j \in Slots, InWindow(j)'
        PROVE  /\ Dist(i) < Dist(j) => en2[i] <= st2[j]
               /\ Dist(j) = Dist(i) + 1 => st2[j] = en2[i]
    <3>1. Dist(i) \in 0..(N - 1) /\ Dist(j) \in 0..(N - 1)
      BY DistInRing
    <3>2. \A k \in Slots : InWindow(k) => Dist(k) < Used
      BY DEF InWindow
    <3>3. CASE i = new
      <4>1. Dist(j) <= Used
        BY <1>7, <2>1, <2>3, <2>5, <3>1, <3>2
      <4> QED
        BY <1>7, <2>1, <3>1, <3>3, <4>1
    <3>4. CASE i # new /\ j = new
      <4>1. InWindow(i)
        BY <2>3, <2>5, <3>4
      <4>2. en[i] <= u /\ (Dist(i) = Used - 1 => en[i] = u)
        BY <1>1, <1>4, <4>1 DEF Layout, Stacked
      <4> QED
        BY <1>7, <1>11, <2>1, <3>1, <3>4, <4>2
    <3>5. CASE i # new /\ j # new
      <4>1. InWindow(i) /\ InWindow(j)
        BY <2>3, <2>5, <3>5
      <4> QED
        BY <1>1, <1>11, <3>5, <4>1 DEF Layout, Stacked
    <3> QED
      BY <3>3, <3>4, <3>5
  <2>6. Used' - 1 = Used
    BY <1>7
  <2> QED
    BY <2>2, <2>4, <2>5, <2>6 DEF Stacked
<1>14. Placed(head, st2, en2)'
  <2>1. ASSUME NEW q \in Ports, Holding(q)'
        PROVE  /\ req'[q].addr = Wrap(head + st2[req'[q].slot], M)
               /\ req'[q].size = en2[req'[q].slot] - st2[req'[q].slot]
    <3>1. CASE q = p
      BY <1>1, <1>4, <1>6, <1>9, <1>11, <3>1 DEF Layout, Space
    <3>2. CASE q # p
      <4>1. Holding(q) /\ req'[q] = req[q]
        BY <1>6, <2>1, <3>2
      <4>2. PICK i \in Slots : i = req[q].slot
        BY SlotInRange
      <4>3. i # new
        BY <1>2, <4>1, <4>2, WindowReserve DEF Ring, InUseInWindow
      <4> QED
        BY <1>1, <1>11, <4>1, <4>2, <4>3 DEF Layout, Placed
    <3> QED
      BY <3>1, <3>2
  <2>2. ASSUME NEW i \in Slots
        PROVE  /\ Busy(i)' => bk'[i].size = en2[i] - st2[i]
               /\ \A d \in CardDscs(i)' : d.addr = Wrap(head + st2[i], M)
    <3>1. (Busy(i)' <=> Busy(i)) /\ CardDscs(i)' = CardDscs(i)
      BY <1>5 DEF Busy, InCard, CardDscs, Reported
    <3>2. CASE i = new
      <4>1. ~Busy(i) /\ CardDscs(i) = {}
        BY <1>2, <3>2, WindowReserve DEF Ring, InUseInWindow, Busy, InCard
      <4> QED
        BY <3>1, <4>1
    <3>3. CASE i # new
      BY <1>1, <1>5, <1>11, <3>1, <3>3 DEF Layout, Placed
    <3> QED
      BY <3>2, <3>3
  <2> QED
    BY <2>1, <2>2 DEF Placed
<1> QED
  BY <1>10, <1>12, <1>13, <1>14 DEF Layout, LaidOut

(* The descriptor that is posted has the lines of its slot.                *)
LEMMA LaidOutWriteDsc ==
    ASSUME TypeOK, Ring, Packets, LaidOut, NEW p \in Ports, WriteDsc(p)
    PROVE  LaidOut'
<1>1. PICK head \in Lines, st \in [Slots -> Int], en \in [Slots -> Int] : Layout(head, st, en)
  BY DEF LaidOut
<1>2. PICK s \in Slots : s = req[p].slot
  BY SlotInRange
<1>3. UNCHANGED <<pktWr, pktCnt, dscCnt, dneRd, bk, sending, dne, wpc, wslot, req, txLock>>
  BY DEF WriteDsc, workVars, memVars, txVars
<1>4. pc[p] = "dsc" /\ pc'[p] = "stats" /\ \A q \in Ports \ {p} : pc'[q] = pc[q]
  BY DEF WriteDsc, Goto, TypeOK
<1>5. (Counting' <=> Counting) /\ \A q \in Ports : Holding(q)' => Holding(q)
  BY <1>4 DEF Counting, Holding
<1>6. PktUsed' = PktUsed /\ Used' = Used
  BY <1>3, <1>5 DEF PktUsed, Used
<1>7. Space(head)'
  BY <1>1, <1>3, <1>6 DEF Layout, Space
<1>8. Stacked(st, en)'
  <2>1. \A i \in Slots : Dist(i)' = Dist(i)
    BY <1>3 DEF Dist
  <2>2. \A i \in Slots : InWindow(i)' <=> InWindow(i)
    BY <1>6, <2>1 DEF InWindow
  <2> QED
    BY <1>1, <1>6, <2>1, <2>2 DEF Layout, Stacked
<1>9. /\ dsc'[s].addr = req[p].addr /\ \A i \in Slots \ {s} : dsc'[i] = dsc[i]
      /\ sending'[s] = NoDsc
  BY <1>2, <1>3, <1>4, InCardDef DEF WriteDsc, TypeOK, Ring, SlotExclusive, Holding
<1>10. Placed(head, st, en)'
  <2>1. /\ req[p].addr = Wrap(head + st[s], M) /\ req[p].size = en[s] - st[s]
        /\ bk[s].size = req[p].size
    BY <1>1, <1>2, <1>4 DEF Layout, Placed, Packets, BkRight, Holding
  <2>2. CardDscs(s)' \subseteq {dsc'[s]}
    BY <1>9 DEF CardDscs
  <2>3. \A i \in Slots \ {s} : (Busy(i)' <=> Busy(i)) /\ CardDscs(i)' = CardDscs(i)
    BY <1>3, <1>9 DEF Busy, InCard, CardDscs, Reported
  <2> QED
    BY <1>1, <1>3, <1>5, <1>9, <2>1, <2>2, <2>3 DEF Layout, Placed
<1> QED
  BY <1>7, <1>8, <1>10 DEF Layout, LaidOut

(* The lines that are given back are the first ones in use.                *)
LEMMA LaidOutReap ==
    ASSUME TypeOK, LockHeld, Ring, LaidOut, Reap
    PROVE  LaidOut'
<1>1. PICK head \in Lines, st \in [Slots -> Int], en \in [Slots -> Int] : Layout(head, st, en)
  BY DEF LaidOut
<1>2. PICK s \in Slots : s = dneRd
  BY DEF TypeOK
<1>3. /\ UNCHANGED <<pktWr, dscCnt, bk, dsc, sending, dne, req, pc, txLock>>
      /\ wpc = "poll" /\ wpc' = "dec" /\ wslot' = s /\ Reported(s)
      /\ pktCnt' = pktCnt - bk[s].size
  BY <1>2 DEF Reap, cardVars, txVars, Reported
<1>4. /\ Used \in 1..N /\ Used' = Used - 1 /\ InWindow(s) /\ Dist(s) = 0
      /\ \A i \in Slots : InWindow(i)' <=> InWindow(i) /\ i # s
      /\ \A i \in Slots \ {s} : Dist(i)' = Dist(i) - 1
  BY <1>2, WindowReap
<1>5. PICK d \in Int : d = en[s]
  OBVIOUS
<1>6. /\ st[s] = 0 /\ 0 <= d /\ d <= PktUsed /\ bk[s].size = d
      /\ Used = 1 => d = PktUsed
  BY <1>1, <1>3, <1>4, <1>5 DEF Layout, Stacked, Placed, Busy
<1>7. PktUsed \in 0..M /\ PktUsed' = PktUsed - d
  <2>1. PktUsed \in 0..M
    BY <1>1 DEF Layout, Space
  <2>2. Counting' <=> Counting
    BY <1>3 DEF Counting
  <2>3. CASE Counting
    <3>1. req[txLock].size \in 0..M
      BY <2>3, SizeInBuffer DEF Counting, LockHeld
    <3> QED
      BY <1>3, <1>6, <2>1, <2>2, <2>3, <3>1, RingAssumption DEF PktUsed, TypeOK
  <2>4. CASE ~Counting
    BY <1>3, <1>6, <2>1, <2>2, <2>4 DEF PktUsed, TypeOK
  <2> QED
    BY <2>1, <2>3, <2>4
<1>8. M \in Nat /\ N \in Nat /\ head \in 0..(M - 1) /\ pktWr \in 0..(M - 1)
  BY RingAssumption DEF Lines, TypeOK
<1> DEFINE head2 == Wrap(head + d, M)
           st2 == [i \in Slots |-> st[i] - d]
           en2 == [i \in Slots |-> en[i] - d]
<1>9. head2 \in Lines /\ st2 \in [Slots -> Int] /\ en2 \in [Slots -> Int]
  BY <1>5, <1>6, <1>7, <1>8 DEF Wrap, Lines
<1>10. \A x \in d..M : Wrap(head2 + (x - d), M) = Wrap(head + x, M)
  BY <1>5, <1>6, <1>7, <1>8 DEF Wrap
<1>11. \A i \in Slots : InWindow(i)' =>
           /\ i # s /\ InWindow(i) /\ d <= st[i] /\ st[i] <= en[i] /\ en[i] <= PktUsed
           /\ Dist(i) \in 1..(N - 1)
  <2>1. ASSUME NEW i \in Slots, InWindow(i)' PROVE Dist(i) \in 1..(N - 1)
    BY <1>4, <1>8, <2>1, DistInRing, DistInjective
  <2> QED
    BY <1>1, <1>4, <1>5, <2>1 DEF Layout, Stacked
<1>12. Space(head2)'
  BY <1>1, <1>3, <1>4, <1>5, <1>6, <1>7, <1>8, <1>10 DEF Layout, Space
<1>13. Stacked(st2, en2)'
  <2>1. ASSUME NEW i \in Slots, InWindow(i)'
        PROVE  /\ 0 <= st2[i] /\ st2[i] <= en2[i] /\ en2[i] <= PktUsed'
               /\ Dist(i)' = 0 => st2[i] = 0
               /\ Dist(i)' = Used' - 1 => en2[i] = PktUsed'
    <3>1. Dist(i)' = Dist(i) - 1
      BY <1>4, <1>11, <2>1
    <3>2. Dist(i) = Dist(s) + 1 => st[i] = en[s]
      BY <1>1, <1>4, <1>11, <2>1 DEF Layout, Stacked
    <3>3. Dist(i) = Used - 1 => en[i] = PktUsed
      BY <1>1, <1>11, <2>1 DEF Layout, Stacked
    <3> QED
      BY <1>4, <1>5, <1>7, <1>11, <2>1, <3>1, <3>2, <3>3
  <2>2. ASSUME NEW i \in Slots, InWindow(i)', NEW j \in Slots, InWindow(j)'
        PROVE  /\ Dist(i)' < Dist(j)' => en2[i] <= st2[j]
               /\ Dist(j)' = Dist(i)' + 1 => st2[j] = en2[i]
    <3>1. Dist(i)' = Dist(i) - 1 /\ Dist(j)' = Dist(j) - 1
      BY <1>4, <1>11, <2>2
    <3>2. /\ Dist(i) < Dist(j) => en[i] <= st[j]
          /\ Dist(j) = Dist(i) + 1 => st[j] = en[i]
      BY <1>1, <1>11, <2>2 DEF Layout, Stacked
    <3> QED
      BY <1>5, <1>11, <2>2, <3>1, <3>2
  <2> QED
    BY <2>1, <2>2 DEF Stacked
<1>14. Placed(head2, st2, en2)'
  <2>1. \A i \in Slots : CardDscs(i)' = CardDscs(i)
    BY <1>3 DEF CardDscs
  <2>2. ASSUME NEW i \in Slots, InWindow(i), i # s
        PROVE  /\ Wrap(head2 + st2[i], M) = Wrap(head + st[i], M)
               /\ en2[i] - st2[i] = en[i] - st[i]
    <3>1. InWindow(i)'
      BY <1>4, <2>2
    <3>2. st[i] \in d..M
      BY <1>5, <1>7, <1>8, <1>11, <3>1
    <3> QED
      BY <1>5, <1>10, <3>2
  <2>3. ASSUME NEW q \in Ports, Holding(q)'
        PROVE  /\ req'[q].addr = Wrap(head2 + st2[req'[q].slot], M)
               /\ req'[q].size = en2[req'[q].slot] - st2[req'[q].slot]
    <3>1. PICK i \in Slots : i = req[q].slot
      BY SlotInRange
    <3>2. Holding(q) /\ InWindow(i) /\ i # s
      BY <1>3, <2>3, <3>1 DEF Holding, Ring, InUseInWindow, SlotExclusive
    <3> QED
      BY <1>1, <1>3, <2>2, <3>1, <3>2 DEF Layout, Placed
  <2>4. ASSUME NEW i \in Slots, Busy(i)'
        PROVE  bk'[i].size = en2[i] - st2[i]
    <3>1. i # s /\ Busy(i)
      BY <1>3, <2>1, <2>4 DEF Busy, InCard, Reported, Ring, OneStage
    <3>2. InWindow(i)
      BY <3>1 DEF Busy, Ring, InUseInWindow
    <3> QED
      BY <1>1, <1>3, <2>2, <3>1, <3>2 DEF Layout, Placed
  <2>5. ASSUME NEW i \in Slots, NEW x \in CardDscs(i)
        PROVE  x.addr = Wrap(head2 + st2[i], M)
    <3>1. InCard(i)
      BY <2>5 DEF InCard
    <3>2. InWindow(i) /\ i # s
      BY <1>3, <3>1 DEF Ring, InUseInWindow, OneStage
    <3> QED
      BY <1>1, <2>2, <2>5, <3>2 DEF Layout, Placed
  <2> QED
    BY <2>1, <2>3, <2>4, <2>5 DEF Placed
<1> QED
  BY <1>9, <1>12, <1>13, <1>14 DEF Layout, LaidOut

(* The only steps that move the lines are Reserve and Reap.                *)
LEMMA SpaceNext ==
    ASSUME TypeOK, TypeOK', RingInv, PacketInv, SpaceInv, [Next]_vars
    PROVE  SpaceInv'
<1> SUFFICES ASSUME mapErrors' = 0 PROVE LaidOut'
  BY DEF SpaceInv
<1>1. mapErrors = 0 /\ \A p \in Ports : ~MapError(p)
  BY NoErrorYet
<1>2. Ring /\ LockHeld /\ Packets /\ LaidOut /\ dscCnt \in Int /\ pktCnt \in Int
  BY <1>1 DEF RingInv, PacketInv, SpaceInv, TypeOK
<1>3. ASSUME NEW p \in Ports, (\E s \in Skbs, c \in Sizes : Xmit(p, s, c)) \/ NoRoom(p)
      PROVE  LaidOut'
  <2>1. UNCHANGED <<bk, dsc, sending, dne, wpc, wslot, dneRd, dscCnt, pktCnt, pktWr, txLock>>
    BY <1>3 DEF Xmit, NoRoom, Drop, cardVars, workVars, memVars
  <2>2. /\ pc[p] \in {"idle", "xmit"} /\ pc'[p] \in {"idle", "xmit"}
        /\ \A q \in Ports \ {p} : pc'[q] = pc[q] /\ req'[q] = req[q]
    BY <1>3 DEF Xmit, NoRoom, Drop, Goto, TypeOK
  <2>3. \A q \in Ports : (Holding(q)' <=> Holding(q)) /\ (Holding(q)' => req'[q] = req[q])
    BY <2>2 DEF Holding
  <2>4. Counting' <=> Counting
    BY <2>2 DEF Counting
  <2>5. Counting => req'[txLock'] = req[txLock]
    BY <1>2, <2>1, <2>2 DEF Counting, LockHeld
  <2>6. PktUsed' = PktUsed /\ Used' = Used
    BY <2>1, <2>4, <2>5 DEF PktUsed, Used
  <2>7. \A i \in Slots : (Busy(i)' <=> Busy(i)) /\ CardDscs(i)' = CardDscs(i)
    BY <2>1 DEF Busy, InCard, CardDscs, Reported
  <2> QED
    BY <1>2, <2>1, <2>3, <2>6, <2>7, LaidOutKept
<1>4. ASSUME NEW p \in Ports, Count(p) PROVE LaidOut'
  <2>1. /\ UNCHANGED <<bk, dsc, sending, dne, wpc, wslot, dneRd, pktWr, req, txLock>>
        /\ dscCnt' = dscCnt + 1 /\ pktCnt' = pktCnt + req[p].size
    BY <1>4 DEF Count, cardVars, workVars
  <2>2. Counting /\ ~Counting' /\ txLock = p
    BY <1>2, <1>4 DEF Count, Goto, Counting, LockHeld, TypeOK
  <2>3. req[p].size \in Int
    BY SizeInBuffer
  <2>4. PktUsed' = PktUsed /\ Used' = Used
    BY <1>2, <2>1, <2>2, <2>3 DEF PktUsed, Used
  <2>5. \A i \in Slots : (Busy(i)' <=> Busy(i)) /\ CardDscs(i)' = CardDscs(i)
    BY <2>1 DEF Busy, InCard, CardDscs, Reported
  <2>6. \A q \in Ports : Holding(q)' <=> Holding(q)
    BY <1>4 DEF Count, Goto, Holding, TypeOK
  <2> QED
    BY <1>2, <2>1, <2>4, <2>5, <2>6, LaidOutKept
<1>5. ASSUME NEW p \in Ports, CheckFull(p) \/ StopQueue(p) \/ WriteBk(p) \/ Stats(p)
      PROVE  LaidOut'
  <2>1. UNCHANGED <<dsc, sending, dne, wpc, wslot, dneRd, dscCnt, pktCnt, pktWr>>
    BY <1>5 DEF CheckFull, StopQueue, WriteBk, Stats, cardVars, workVars, memVars
  <2>2. /\ pc[p] \in {"check", "stop", "bk", "stats"} /\ pc'[p] \in {"stop", "bk", "dsc", "idle"}
        /\ pc[p] = "stats" => pc'[p] = "idle"
        /\ \A q \in Ports \ {p} : pc'[q] = pc[q] /\ req'[q] = req[q]
        /\ pc[p] # "stats" => req'[p] = req[p]
    BY <1>5 DEF CheckFull, StopQueue, WriteBk, Stats, Goto, TypeOK
  <2>3. \A q \in Ports : Holding(q)' => Holding(q) /\ req'[q] = req[q]
    BY <2>2 DEF Holding
  <2>4. Counting' <=> Counting
    BY <2>2 DEF Counting
  <2>5. Counting => req'[txLock'] = req[txLock]
    <3> SUFFICES ASSUME NEW q \in Ports, pc[q] = "count" PROVE req'[txLock'] = req[txLock]
      BY DEF Counting
    <3>1. txLock = q /\ q # p
      BY <1>2, <2>2 DEF LockHeld
    <3>2. txLock' = txLock
      BY <1>2, <1>5, <3>1 DEF LockHeld, CheckFull, StopQueue, WriteBk, Stats
    <3> QED
      BY <2>2, <3>1, <3>2
  <2>6. PktUsed' = PktUsed /\ Used' = Used
    BY <2>1, <2>4, <2>5 DEF PktUsed, Used
  <2>7. \A i \in Slots : (Busy(i)' <=> Busy(i)) /\ CardDscs(i)' = CardDscs(i)
    BY <2>1 DEF Busy, InCard, CardDscs, Reported
  <2>8. \A i \in Slots : Busy(i) => bk'[i] = bk[i]
    <3>1. CASE WriteBk(p)
      <4>1. ~Busy(req[p].slot)
        BY <1>2, <3>1 DEF WriteBk, Ring, SlotExclusive, Holding, Busy
      <4> QED
        BY <3>1, <4>1 DEF WriteBk, TypeOK
    <3>2. CASE CheckFull(p) \/ StopQueue(p) \/ Stats(p)
      BY <3>2 DEF CheckFull, StopQueue, Stats
    <3> QED
      BY <1>5, <3>1, <3>2
  <2> QED
    BY <1>2, <2>1, <2>3, <2>6, <2>7, <2>8, LaidOutKept
<1>6. ASSUME Fetch \/ Complete PROVE LaidOut'
  <2>1. UNCHANGED <<bk, wpc, wslot, dneRd, dscCnt, pktCnt, pktWr, req, txLock, pc>>
    BY <1>6 DEF Fetch, Complete, workVars, memVars, txVars
  <2>2. PktUsed' = PktUsed /\ Used' = Used
    BY <2>1 DEF PktUsed, Used, Counting
  <2>3. \A i \in Slots : (Busy(i)' => Busy(i)) /\ CardDscs(i)' \subseteq CardDscs(i)
    <3>1. CASE Fetch
      BY <3>1 DEF Fetch, Busy, InCard, CardDscs, Reported, TypeOK, workVars
    <3>2. CASE Complete
      BY <3>2 DEF Complete, Busy, InCard, CardDscs, Reported, TypeOK, workVars
    <3> QED
      BY <1>6, <3>1, <3>2
  <2> QED
    BY <1>2, <2>1, <2>2, <2>3, LaidOutKept DEF Holding
<1>7. ASSUME DecDsc \/ Invalidate \/ CheckWake \/ UNCHANGED vars
             \/ \E p \in Ports : WakePort(p)
      PROVE  LaidOut'
  <2>1. UNCHANGED <<bk, dsc, sending, pc, req, wslot, dneRd, txLock, pktCnt, pktWr>>
    BY <1>7 DEF DecDsc, Invalidate, CheckWake, WakePort, vars, cardVars, txVars, workVars, memVars
  <2>2. (\A i \in Slots : Reported(i)' => Reported(i)) /\ Used' = Used
    <3>1. CASE Invalidate
      BY <3>1 DEF Invalidate, Reported, TypeOK, Used, Counting, memVars, txVars
    <3>2. CASE DecDsc
      BY <1>2, <3>2 DEF DecDsc, Reported, cardVars, Used, Counting, txVars
    <3>3. CASE CheckWake \/ UNCHANGED vars \/ \E p \in Ports : WakePort(p)
      BY <3>3 DEF CheckWake, WakePort, vars, Reported, cardVars, workVars, Used, Counting,
                  txVars, memVars
    <3> QED
      BY <1>7, <3>1, <3>2, <3>3
  <2>3. PktUsed' = PktUsed
    BY <2>1 DEF PktUsed, Counting
  <2>4. \A i \in Slots : (Busy(i)' => Busy(i)) /\ CardDscs(i)' = CardDscs(i)
    BY <2>1, <2>2 DEF Busy, InCard, CardDscs
  <2> QED
    BY <1>2, <2>1, <2>2, <2>3, <2>4, LaidOutKept DEF Holding
<1> QED
  BY <1>1, <1>2, <1>3, <1>4, <1>5, <1>6, <1>7, LaidOutReserve, LaidOutWriteDsc, LaidOutReap
     DEF Next, Card, Worker, Transmitter, Inside

(* The packets with a slot lie one after the other in the buffer.          *)
LEMMA SpaceInvariant == Spec => []SpaceInv
<1>1. Init => SpaceInv
  <2> SUFFICES ASSUME Init PROVE LaidOut
    BY DEF SpaceInv
  <2> DEFINE z == [i \in Slots |-> 0]
  <2>1. z \in [Slots -> Int] /\ 0 \in Lines /\ M \in Nat /\ M > 0
    BY RingAssumption DEF Lines
  <2>2. ~Counting /\ \A p \in Ports : ~Holding(p)
    BY DEF Init, Counting, Holding
  <2>3. Used = 0 /\ PktUsed = 0 /\ pktWr = 0
    BY <2>2 DEF Init, Used, PktUsed
  <2>4. \A i \in Slots : ~Busy(i) /\ CardDscs(i) = {}
    BY DEF Init, Busy, InCard, CardDscs, Reported
  <2>5. \A i \in Slots : ~InWindow(i)
    BY <2>3, RingAssumption DEF Init, InWindow, Dist, Slots
  <2>6. Space(0) /\ Stacked(z, z) /\ Placed(0, z, z)
    BY <2>1, <2>2, <2>3, <2>4, <2>5 DEF Space, Stacked, Placed, Wrap
  <2> QED
    BY <2>1, <2>6 DEF LaidOut, Layout
<1> QED
  BY <1>1, SpaceNext, TypeCorrect, RingInvariant, PacketInvariant, PTL DEF Spec

(* Lines at different distances from the head are different lines.         *)
LEMMA LinesApart ==
    ASSUME NEW head \in Lines, NEW a \in Nat, NEW b \in Nat, NEW k \in Nat, NEW l \in Nat,
           a + k < b + l, b + l < M
    PROVE  Wrap(Wrap(head + a, M) + k, M) # Wrap(Wrap(head + b, M) + l, M)
<1>1. M \in Nat /\ head \in 0..(M - 1)
  BY RingAssumption DEF Lines
<1>2. Wrap(Wrap(head + a, M) + k, M) = Wrap(head + (a + k), M)
  BY <1>1 DEF Wrap
<1>3. Wrap(Wrap(head + b, M) + l, M) = Wrap(head + (b + l), M)
  BY <1>1 DEF Wrap
<1> QED
  BY <1>1, <1>2, <1>3 DEF Wrap

(* The lines of a packet that lies at addr (the Region of BuffersDisjoint).*)
LinesOf(addr, size) == {Wrap(addr + k, M) : k \in 0..(size - 1)}

(* The lines of two slots of the window are disjoint.                      *)
LEMMA RegionsApart ==
    ASSUME TypeOK, NEW head \in Lines, NEW st \in [Slots -> Int], NEW en \in [Slots -> Int],
           Space(head), Stacked(st, en),
           NEW i \in Slots, NEW j \in Slots, i # j, InWindow(i), InWindow(j)
    PROVE  LinesOf(Wrap(head + st[i], M), en[i] - st[i])
               \cap LinesOf(Wrap(head + st[j], M), en[j] - st[j]) = {}
<1>1. M \in Nat /\ PktUsed \in 0..M
  BY RingAssumption DEF Space
<1>2. ASSUME NEW u \in Slots, NEW v \in Slots, InWindow(u), InWindow(v), Dist(u) < Dist(v),
             NEW k \in 0..(en[u] - st[u] - 1), NEW l \in 0..(en[v] - st[v] - 1)
      PROVE  Wrap(Wrap(head + st[u], M) + k, M) # Wrap(Wrap(head + st[v], M) + l, M)
  <2>1. /\ 0 <= st[u] /\ en[u] <= st[v] /\ en[v] <= PktUsed
        /\ st[u] <= en[u] /\ st[v] <= en[v]
    BY <1>2 DEF Stacked
  <2>2. /\ st[u] \in Nat /\ st[v] \in Nat /\ k \in Nat /\ l \in Nat
        /\ st[u] + k < st[v] + l /\ st[v] + l < M
    BY <1>1, <2>1
  <2> QED
    BY <2>2, LinesApart
<1>3. Dist(i) < Dist(j) \/ Dist(j) < Dist(i)
  BY DistInRing, DistInjective, RingAssumption
<1> QED
  BY <1>2, <1>3 DEF LinesOf

(* As long as no mapping has failed, no two packets on their way share a   *)
(* line of the card's packet buffer: "make sure we fit in the ... packet   *)
(* buffer" (line 40), although the lines come back in the order of the     *)
(* completions and are counted apart from the pointer.                     *)
THEOREM BuffersAreDisjoint == Spec => [](mapErrors = 0 => BuffersDisjoint)
<1>1. ASSUME TypeOK, RingInv, PacketInv, SpaceInv, mapErrors = 0
      PROVE  BuffersDisjoint
  <2>1. PICK head \in Lines, st \in [Slots -> Int], en \in [Slots -> Int] :
            Space(head) /\ Stacked(st, en) /\ Placed(head, st, en)
    BY <1>1 DEF SpaceInv, LaidOut, Layout
  <2>2. Ring /\ Packets
    BY <1>1 DEF RingInv, PacketInv
  <2> DEFINE R(i) == LinesOf(Wrap(head + st[i], M), en[i] - st[i])
  <2>3. ASSUME NEW i \in Slots, NEW j \in Slots, i # j, InWindow(i), InWindow(j)
        PROVE  R(i) \cap R(j) = {}
    BY <1>1, <2>1, <2>3, RegionsApart
  <2>4. ASSUME NEW p \in Ports, Holding(p)
        PROVE  /\ req[p].slot \in Slots /\ InWindow(req[p].slot) /\ ~InCard(req[p].slot)
               /\ LinesOf(req[p].addr, req[p].size) = R(req[p].slot)
    BY <1>1, <2>1, <2>2, <2>4, SlotInRange DEF Placed, Ring, InUseInWindow, SlotExclusive
  <2>5. ASSUME NEW i \in Slots, InCard(i)
        PROVE  /\ InWindow(i)
               /\ \A d \in CardDscs(i) : LinesOf(d.addr, d.size) = R(i)
    <3>1. \A d \in CardDscs(i) : d.addr = Wrap(head + st[i], M)
      BY <2>1 DEF Placed
    <3>2. \A d \in CardDscs(i) : d.size = bk[i].size
      BY <2>2 DEF CardDscs, Packets, BkRight
    <3>3. bk[i].size = en[i] - st[i]
      BY <2>1, <2>5 DEF Placed, Busy
    <3> QED
      BY <2>2, <2>5, <3>1, <3>2, <3>3 DEF Ring, InUseInWindow
  <2>6. \A p, q \in Ports : p # q /\ Holding(p) /\ Holding(q)
            => LinesOf(req[p].addr, req[p].size) \cap LinesOf(req[q].addr, req[q].size) = {}
    <3>1. ASSUME NEW p \in Ports, NEW q \in Ports, p # q, Holding(p), Holding(q)
          PROVE  req[p].slot # req[q].slot
      BY <2>2, <3>1 DEF Ring, SlotExclusive
    <3> QED
      BY <2>3, <2>4, <3>1
  <2> DEFINE S(i) == UNION {LinesOf(d.addr, d.size) : d \in CardDscs(i)}
  <2>7. ASSUME NEW i \in Slots, InCard(i) PROVE S(i) \subseteq R(i)
    BY <2>5, <2>7
  <2>8. \A p \in Ports, i \in Slots : Holding(p) /\ InCard(i)
            => LinesOf(req[p].addr, req[p].size) \cap S(i) = {}
    <3>1. ASSUME NEW p \in Ports, NEW i \in Slots, Holding(p), InCard(i)
          PROVE  R(req[p].slot) \cap R(i) = {}
      BY <2>3, <2>4, <2>5, <3>1
    <3> QED
      BY <2>4, <2>7, <3>1
  <2>9. \A i, j \in Slots : i # j /\ InCard(i) /\ InCard(j) => S(i) \cap S(j) = {}
    <3>1. ASSUME NEW i \in Slots, NEW j \in Slots, i # j, InCard(i), InCard(j)
          PROVE  R(i) \cap R(j) = {}
      BY <2>3, <2>5, <3>1
    <3> QED
      BY <2>7, <3>1
  <2> QED
    BY <2>6, <2>8, <2>9 DEF BuffersDisjoint, LinesOf
<1>2. TypeOK /\ RingInv /\ PacketInv /\ SpaceInv => (mapErrors = 0 => BuffersDisjoint)
  BY <1>1
<1> QED
  BY <1>2, TypeCorrect, RingInvariant, PacketInvariant, SpaceInvariant, PTL

(* The counters of lines 63-64 and 174-175 are unsigned in the code: a     *)
(* subtraction for a packet that was not counted, or before it is counted, *)
(* would leave a huge number, and no packet would ever fit again.          *)
CountersInRange == dscCnt \in 0..N /\ pktCnt \in 0..M

(* As long as no mapping has failed the counters neither go below zero nor *)
(* beyond the size of the ring and of the buffer, although the worker      *)
(* subtracts (lines 174-175) without taking the lock of lines 63-64.       *)
THEOREM CountersStayInRange == Spec => [](mapErrors = 0 => CountersInRange)
<1>1. ASSUME TypeOK, RingInv, SpaceInv, mapErrors = 0
      PROVE  CountersInRange
  <2>1. PICK head \in Lines, st \in [Slots -> Int], en \in [Slots -> Int] :
            Space(head) /\ Stacked(st, en) /\ Placed(head, st, en)
    BY <1>1 DEF SpaceInv, LaidOut, Layout
  <2>2. /\ dscCnt \in Int /\ pktCnt \in Int /\ N \in Nat /\ M \in Nat /\ PktUsed \in 0..M
        /\ Used \in 0..N /\ dscCnt + (IF Counting THEN 1 ELSE 0) <= N
    BY <1>1, <2>1, RingAssumption DEF TypeOK, RingInv, Ring, Window, Space
  <2>3. CASE ~Counting
    BY <2>2, <2>3 DEF CountersInRange, Used, PktUsed
  <2>4. CASE Counting
    <3>1. PICK p \in Ports : pc[p] = "count"
      BY <2>4 DEF Counting
    <3>2. txLock = p /\ Holding(p) /\ req[p].slot \in Slots /\ InWindow(req[p].slot)
      BY <1>1, <3>1, SlotInRange DEF RingInv, LockHeld, Ring, InUseInWindow, Holding
    <3>3. Used > 0
      <4>1. req[p].slot \in 0..(N - 1) /\ dneRd \in 0..(N - 1)
        BY <1>1, <3>2 DEF TypeOK, Slots
      <4> QED
        BY <2>2, <3>2, <4>1 DEF InWindow, Dist
    <3>4. req[p].size \in 0..PktUsed
      <4>1. req[p].size = en[req[p].slot] - st[req[p].slot]
        BY <2>1, <3>2 DEF Placed
      <4>2. /\ st[req[p].slot] \in Int /\ en[req[p].slot] \in Int
            /\ 0 <= st[req[p].slot] /\ st[req[p].slot] <= en[req[p].slot]
            /\ en[req[p].slot] <= PktUsed
        BY <2>1, <3>2 DEF Stacked
      <4> QED
        BY <2>2, <4>1, <4>2
    <3> QED
      BY <2>2, <2>4, <3>2, <3>3, <3>4 DEF CountersInRange, Used, PktUsed
  <2> QED
    BY <2>3, <2>4
<1>2. TypeOK /\ RingInv /\ SpaceInv => (mapErrors = 0 => CountersInRange)
  BY <1>1
<1> QED
  BY <1>2, TypeCorrect, RingInvariant, SpaceInvariant, PTL

-----------------------------------------------------------------------------
(* Stopped queues                                                          *)
(*                                                                         *)
(* StoppedHasWaker is inductive once it is known that the test of lines    *)
(* 181-182 succeeds when no packet is under way.                           *)

(* Some packet has a slot, and its completion is still to be taken.        *)
UnderWay == (\E q \in Ports : Holding(q)) \/ (\E i \in Slots : Busy(i))

(* With no packet under way both counters are zero, so the test of lines   *)
(* 181-182 succeeds.                                                       *)
LEMMA IdleCanWake ==
    ASSUME TypeOK, Ring, NoneLost, LaidOut, ~UnderWay, wpc # "dec"
    PROVE  CanWake
<1>1. N \in Nat /\ N > 0 /\ dneRd \in Slots /\ dscCnt \in Int /\ pktCnt \in Int
  BY RingAssumption DEF TypeOK
<1>2. ~InWindow(dneRd)
  BY <1>1 DEF NoneLost, Carries, UnderWay
<1>3. ~Counting
  BY DEF UnderWay, Holding, Counting
<1>4. Used = 0 /\ dscCnt = 0
  BY <1>1, <1>2, <1>3 DEF InWindow, Dist, Slots, Ring, Window, Used
<1>5. pktCnt = 0
  BY <1>1, <1>3, <1>4 DEF LaidOut, Layout, Space, PktUsed
<1> QED
  BY <1>4, <1>5, RingAssumption DEF CanWake

IdleWakes == SlowCard /\ mapErrors = 0 /\ ~UnderWay /\ wpc # "dec" => CanWake

(* With no packet under way the test of lines 181-182 succeeds.            *)
LEMMA IdleAlwaysWakes == Spec => []IdleWakes
<1>1. TypeOK /\ RingInv /\ KeptInv /\ SpaceInv => IdleWakes
  BY IdleCanWake DEF RingInv, KeptInv, SpaceInv, IdleWakes
<1> QED
  BY <1>1, TypeCorrect, RingInvariant, KeptInvariant, SpaceInvariant, PTL

WakerInv == SlowCard /\ mapErrors = 0 => StoppedHasWaker

(* A packet under way stays under way until the worker takes it.           *)
LEMMA StaysUnderWay ==
    ASSUME TypeOK, RingInv, PacketInv, KeptInv, SlowCard, mapErrors' = 0, UnderWay, [Next]_vars
    PROVE  UnderWay' \/ Reap
<1> SUFFICES ASSUME ~Reap PROVE UnderWay'
  OBVIOUS
<1>1. mapErrors = 0 /\ \A p \in Ports : ~MapError(p)
  BY NoErrorYet
<1>2. Ring /\ Packets /\ Behind
  BY <1>1 DEF RingInv, PacketInv, KeptInv, NoneLost
<1>3. PICK i \in Slots, s \in Skbs : Carries(i, s)
  <2>1. CASE \E p \in Ports : Holding(p)
    <3>1. PICK p \in Ports : Holding(p)
      BY <2>1
    <3>2. req[p].slot \in Slots /\ req[p].skb \in Skbs
      BY <1>2, <3>1, SlotInRange DEF Packets, OneOwner, Carrying, Holding, TypeOK
    <3> QED
      BY <3>1, <3>2 DEF Carries
  <2>2. CASE \E i \in Slots : Busy(i)
    BY <1>2, <2>2 DEF Packets, OneOwner, Carries, TypeOK
  <2> QED
    BY <2>1, <2>2 DEF UnderWay
<1>4. Carries(i, s)'
  BY <1>1, <1>2, <1>3, CarriesOn
<1> QED
  BY <1>4 DEF Carries, UnderWay

(* Whoever could restart a stopped queue stays, or hands that on.          *)
LEMMA WakerNext ==
    ASSUME TypeOK, RingInv, PacketInv, KeptInv, WakerInv, IdleWakes', [Next]_vars
    PROVE  WakerInv'
<1> SUFFICES ASSUME SlowCard, mapErrors' = 0, NEW p \in stopped'
             PROVE  \/ UnderWay'
                    \/ wpc' \in {"dec", "invalidate"}
                    \/ wpc' = "check" /\ CanWake'
                    \/ wpc' = "wake" /\ p \in toWake'
  BY DEF WakerInv, StoppedHasWaker, UnderWay, Busy
<1> SUFFICES ASSUME ~UnderWay', wpc' \notin {"dec", "invalidate"}
             PROVE  wpc' = "check" \/ (wpc' = "wake" /\ p \in toWake')
  BY DEF IdleWakes
<1>1. mapErrors = 0 /\ \A q \in Ports : ~MapError(q)
  BY NoErrorYet
<1>2. ~UnderWay
  <2>1. Reap => wpc' = "dec"
    BY DEF Reap
  <2> QED
    BY <2>1, StaysUnderWay
<1>3. p \in stopped
  <2>1. ASSUME NEW q \in Ports PROVE ~StopQueue(q)
    BY <1>2 DEF StopQueue, UnderWay, Holding
  <2> QED
    BY <1>1, <2>1 DEF Next, Card, Worker, Transmitter, Inside, Xmit, NoRoom, Reserve, Count, CheckFull,
                  WriteBk, WriteDsc, Stats, Fetch, Complete, Reap, DecDsc, Invalidate,
                  CheckWake, WakePort, vars
<1>4. \/ wpc \in {"dec", "invalidate"}
      \/ wpc = "check" /\ CanWake
      \/ wpc = "wake" /\ p \in toWake
  BY <1>1, <1>2, <1>3 DEF WakerInv, StoppedHasWaker, UnderWay, Busy
<1>5. CASE DecDsc \/ Invalidate
  BY <1>5 DEF DecDsc, Invalidate
<1>6. CASE CheckWake
  BY <1>3, <1>4, <1>6 DEF CheckWake, TypeOK
<1>7. ASSUME NEW q \in Ports, WakePort(q)
      PROVE  wpc' = "wake" /\ p \in toWake'
  <2>1. p # q /\ p \in toWake
    BY <1>4, <1>7 DEF WakePort, TypeOK
  <2> QED
    BY <1>7, <2>1 DEF WakePort
<1>8. CASE UNCHANGED <<wpc, toWake>>
  BY <1>4, <1>8
<1>9. ~Reap
  BY DEF Reap
<1>10. ASSUME NEW q \in Ports, Transmitter(q) PROVE UNCHANGED <<wpc, toWake>>
  BY <1>1, <1>10 DEF Transmitter, Inside, Xmit, NoRoom, Reserve, Count, CheckFull, StopQueue,
                     WriteBk, WriteDsc, Stats, workVars
<1>11. ASSUME Card \/ UNCHANGED vars PROVE UNCHANGED <<wpc, toWake>>
  BY <1>11 DEF Card, Fetch, Complete, vars, workVars
<1> QED
  BY <1>5, <1>6, <1>7, <1>8, <1>9, <1>10, <1>11 DEF Next, Worker

(* As long as no mapping has failed, and with the slow card, a queue that  *)
(* line 70 stopped has something left that can restart it: a packet whose  *)
(* completion is still to come, or a worker on its way to lines 180-189    *)
(* whose test will succeed.                                                *)
THEOREM StoppedQueuesHaveWaker == SlowCard => (Spec => [](mapErrors = 0 => StoppedHasWaker))
<1> SUFFICES ASSUME SlowCard PROVE Spec => [](mapErrors = 0 => StoppedHasWaker)
  OBVIOUS
<1>1. Init => WakerInv
  BY DEF Init, WakerInv, StoppedHasWaker
<1>2. Spec => []WakerInv
  BY <1>1, WakerNext, TypeCorrect, RingInvariant, PacketInvariant, KeptInvariant, IdleAlwaysWakes, PTL
     DEF Spec
<1>3. WakerInv => (mapErrors = 0 => StoppedHasWaker)
  BY DEF WakerInv
<1> QED
  BY <1>2, <1>3, PTL

-----------------------------------------------------------------------------
(* Sums over finite sets.  CHOOSE picks the order in which the elements    *)
(* are added; the lemmas say that it makes no difference.                  *)

(* A set of natural numbers that is not empty has a least member.          *)
LEMMA Least ==
    ASSUME NEW T, T \subseteq Nat, T # {}
    PROVE  \E x \in T : \A y \in T : x <= y
<1>. DEFINE R == {ss \in Nat \X Nat : ss[1] < ss[2]}
<1>1. IsWellFoundedOn(R, Nat)
  BY NatLessThanWellFounded DEF OpToRel
<1>2. PICK x \in T : \A y \in T : ~(<<y, x>> \in R)
  BY <1>1, WFMin
<1>3. ASSUME NEW y \in T PROVE x <= y
  <2>1. x \in Nat /\ y \in Nat /\ <<y, x>> \in Nat \X Nat /\ <<y, x>> \notin R
    BY <1>2, <1>3
  <2>2. ~(y < x)
    BY <2>1
  <2> QED
    BY <2>1, <2>2
<1> QED
  BY <1>3

(* A set that contains zero and with a number the next one contains all.   *)
LEMMA Induct ==
    ASSUME NEW T, 0 \in T, \A n \in Nat : n \in T => n + 1 \in T
    PROVE  Nat \subseteq T
<1>. DEFINE U == Nat \ T
<1>1. SUFFICES ASSUME U # {} PROVE FALSE
  OBVIOUS
<1>2. PICK x \in U : \A y \in U : x <= y
  BY <1>1, Least
<1>3. x # 0 /\ x - 1 \in Nat /\ x - 1 \notin U
  BY <1>2
<1>4. x - 1 \in T => (x - 1) + 1 \in T
  BY <1>3
<1> QED
  BY <1>2, <1>3, <1>4

(* The element that is added next.                                         *)
Pick(s) == CHOOSE x \in s : TRUE

(* What SumFunctionOnSet(f, S) chooses.                                    *)
Sums(g, f, S) ==
    g = [s \in SUBSET S |-> IF s = {} THEN 0 ELSE f[Pick(s)] + g[s \ {Pick(s)}]]

(* It is the choice of such a function.                                   *)
LEMMA SumDef ==
    ASSUME NEW f, NEW S
    PROVE  SumFunctionOnSet(f, S) = (CHOOSE g : Sums(g, f, S))[S]
  BY DEF SumFunctionOnSet, FoldFunctionOnSet, MapThenFoldSet, Sums, Pick

(* A subset without one of its elements is one smaller.                    *)
LEMMA OneLess ==
    ASSUME NEW S, IsFiniteSet(S), NEW s \in SUBSET S, NEW x \in s
    PROVE  /\ s \ {x} \in SUBSET S
           /\ Cardinality(s) \in Nat /\ Cardinality(s \ {x}) \in Nat
           /\ Cardinality(s \ {x}) = Cardinality(s) - 1
<1>1. IsFiniteSet(s)
  BY FS_Subset
<1>2. Cardinality(s) \in Nat /\ IsFiniteSet(s \ {x}) /\ Cardinality(s \ {x}) = Cardinality(s) - 1
  BY <1>1, FS_CardinalityType, FS_RemoveElement
<1>3. Cardinality(s \ {x}) \in Nat
  BY <1>2, FS_CardinalityType
<1> QED
  BY <1>2, <1>3

(* What holds of the empty set, and of a set if it holds of those that are *)
(* one smaller, holds of all finite sets.                                  *)
LEMMA BySize ==
    ASSUME NEW S, IsFiniteSet(S), NEW G, {} \in G,
           \A s \in SUBSET S : s # {} /\ (\A x \in s : s \ {x} \in G) => s \in G
    PROVE  SUBSET S \subseteq G
<1>. DEFINE T == {n \in Nat : \A s \in SUBSET S : Cardinality(s) = n => s \in G}
<1>1. 0 \in T
  <2>1. ASSUME NEW s \in SUBSET S, Cardinality(s) = 0 PROVE s = {}
    BY <2>1, FS_Subset, FS_EmptySet
  <2> QED
    BY <2>1
<1>2. ASSUME NEW n \in Nat, n \in T PROVE n + 1 \in T
  <2>1. ASSUME NEW s \in SUBSET S, Cardinality(s) = n + 1 PROVE s \in G
    <3>1. s # {}
      BY <2>1, FS_EmptySet
    <3>2. ASSUME NEW x \in s PROVE s \ {x} \in G
      <4>1. s \ {x} \in SUBSET S /\ Cardinality(s \ {x}) = Cardinality(s) - 1
        BY OneLess
      <4>2. Cardinality(s \ {x}) = n
        BY <2>1, <4>1
      <4> QED
        BY <1>2, <4>1, <4>2
    <3> QED
      BY <3>1, <3>2
  <2> QED
    BY <2>1
<1>3. Nat \subseteq T
  <2>. HIDE DEF T
  <2> QED
    BY <1>1, <1>2, Induct
<1>4. ASSUME NEW s \in SUBSET S PROVE s \in G
  <2>1. Cardinality(s) \in Nat
    BY FS_Subset, FS_CardinalityType
  <2> QED
    BY <1>3, <2>1
<1> QED
  BY <1>4

(* g gives the sums of f over the subsets of S that have up to n elements. *)
UpTo(g, f, S, n) ==
    \A s \in SUBSET S : Cardinality(s) <= n =>
        /\ g[s] \in Int
        /\ g[s] = IF s = {} THEN 0 ELSE f[Pick(s)] + g[s \ {Pick(s)}]

(* There is such a function for each number of elements.                   *)
LEMMA SumsUpTo ==
    ASSUME NEW S, IsFiniteSet(S), NEW f, \A x \in S : f[x] \in Int
    PROVE  \A n \in Nat : \E g : UpTo(g, f, S, n)
<1>. DEFINE T == {n \in Nat : \E g : UpTo(g, f, S, n)}
<1>1. 0 \in T
  <2>. DEFINE g == [s \in SUBSET S |-> 0]
  <2>1. ASSUME NEW s \in SUBSET S, Cardinality(s) <= 0 PROVE s = {}
    <3>1. IsFiniteSet(s) /\ Cardinality(s) \in Nat
      BY FS_Subset, FS_CardinalityType
    <3> QED
      BY <2>1, <3>1, FS_EmptySet
  <2>2. UpTo(g, f, S, 0)
    BY <2>1 DEF UpTo
  <2> QED
    BY <2>2
<1>2. ASSUME NEW n \in Nat, n \in T PROVE n + 1 \in T
  <2>1. PICK g : UpTo(g, f, S, n)
    BY <1>2
  <2>. DEFINE h == [s \in SUBSET S |-> IF s = {} THEN 0 ELSE f[Pick(s)] + g[s \ {Pick(s)}]]
  <2>2. ASSUME NEW s \in SUBSET S, Cardinality(s) <= n + 1, s # {}
        PROVE  h[s] \in Int /\ h[s] = f[Pick(s)] + h[s \ {Pick(s)}]
    <3>. DEFINE t == s \ {Pick(s)}
    <3>1. Pick(s) \in s
      BY <2>2 DEF Pick
    <3>2. t \in SUBSET S /\ Cardinality(t) \in Nat /\ Cardinality(t) = Cardinality(s) - 1
          /\ Cardinality(s) \in Nat
      BY <3>1, OneLess
    <3>3. Cardinality(t) <= n
      BY <2>2, <3>2
    <3>4. g[t] \in Int /\ g[t] = IF t = {} THEN 0 ELSE f[Pick(t)] + g[t \ {Pick(t)}]
      BY <2>1, <3>2, <3>3 DEF UpTo
    <3>5. h[t] = g[t]
      BY <3>2, <3>4
    <3>6. h[s] = f[Pick(s)] + g[t]
      BY <2>2
    <3>7. f[Pick(s)] \in Int
      BY <3>1
    <3> QED
      BY <3>4, <3>5, <3>6, <3>7
  <2>3. h[{}] = 0
    OBVIOUS
  <2>4. UpTo(h, f, S, n + 1)
    <3>. HIDE DEF h
    <3> QED
      BY <2>2, <2>3 DEF UpTo
  <2> QED
    BY <2>4
<1>3. Nat \subseteq T
  <2>. HIDE DEF T
  <2> QED
    BY <1>1, <1>2, Induct
<1> QED
  BY <1>3

(* The function that gives the sums adds the elements in any order.        *)
Adds(g, f, S) ==
    /\ \A s \in SUBSET S : g[s] \in Int
    /\ g[{}] = 0
    /\ \A s \in SUBSET S : \A x \in s : g[s] = f[x] + g[s \ {x}]

(* The function that is chosen does.                                       *)
LEMMA SumsAdd ==
    ASSUME NEW S, IsFiniteSet(S), NEW f, \A x \in S : f[x] \in Int
    PROVE  Adds(CHOOSE g : Sums(g, f, S), f, S)
<1>1. \E g : Sums(g, f, S)
  <2>1. Cardinality(S) \in Nat
    BY FS_CardinalityType
  <2>2. PICK g : UpTo(g, f, S, Cardinality(S))
    BY <2>1, SumsUpTo
  <2>. DEFINE h == [s \in SUBSET S |-> g[s]]
  <2>3. ASSUME NEW s \in SUBSET S
        PROVE  h[s] = IF s = {} THEN 0 ELSE f[Pick(s)] + h[s \ {Pick(s)}]
    <3>1. Cardinality(s) <= Cardinality(S)
      BY FS_Subset
    <3>2. g[s] = IF s = {} THEN 0 ELSE f[Pick(s)] + g[s \ {Pick(s)}]
      BY <2>2, <3>1 DEF UpTo
    <3> QED
      BY <3>2
  <2>4. Sums(h, f, S)
    BY <2>3 DEF Sums
  <2> QED
    BY <2>4
<1>2. PICK g : g = (CHOOSE h : Sums(h, f, S)) /\ Sums(g, f, S)
  BY <1>1
<1>3. \A s \in SUBSET S : g[s] = IF s = {} THEN 0 ELSE f[Pick(s)] + g[s \ {Pick(s)}]
  BY <1>2 DEF Sums
<1>4. \A s \in SUBSET S : s # {} => Pick(s) \in s
  BY DEF Pick
<1>. DEFINE G == {s \in SUBSET S : /\ g[s] \in Int
                                  /\ \A x \in s : /\ g[s \ {x}] \in Int
                                                 /\ g[s] = f[x] + g[s \ {x}]}
<1>5. {} \in G
  <2>1. {} \in SUBSET S
    OBVIOUS
  <2>2. g[{}] = 0
    BY <1>3, <2>1
  <2> QED
    BY <2>1, <2>2
<1>6. ASSUME NEW s \in SUBSET S, s # {}, \A x \in s : s \ {x} \in G
      PROVE  s \in G
  <2>. DEFINE c == Pick(s)
  <2>1. c \in s /\ f[c] \in Int /\ g[s] = f[c] + g[s \ {c}] /\ g[s \ {c}] \in Int
    BY <1>3, <1>4, <1>6
  <2>2. ASSUME NEW x \in s, x # c PROVE g[s] = f[x] + g[s \ {x}]
    <3>1. s \ {c} \in G /\ s \ {x} \in G /\ x \in s \ {c} /\ c \in s \ {x}
      BY <1>6, <2>1, <2>2
    <3>2. g[s \ {c}] = f[x] + g[(s \ {c}) \ {x}] /\ g[s \ {x}] = f[c] + g[(s \ {x}) \ {c}]
      BY <3>1
    <3>3. (s \ {c}) \ {x} = (s \ {x}) \ {c}
      OBVIOUS
    <3>4. f[x] \in Int /\ g[(s \ {c}) \ {x}] \in Int
      BY <3>1
    <3>. HIDE DEF G, c
    <3>5. PICK a \in Int, b \in Int, d \in Int : a = f[c] /\ b = f[x] /\ d = g[(s \ {c}) \ {x}]
      BY <2>1, <3>4
    <3>6. g[(s \ {x}) \ {c}] = d
      BY <3>3, <3>5
    <3>7. g[s \ {c}] = b + d /\ g[s \ {x}] = a + d
      BY <3>2, <3>5, <3>6
    <3>8. g[s] = a + (b + d)
      BY <2>1, <3>5, <3>7
    <3> QED
      BY <3>5, <3>7, <3>8
  <2>3. g[s] \in Int
    BY <2>1
  <2>4. \A x \in s : g[s \ {x}] \in Int
    BY <1>6
  <2> QED
    BY <2>1, <2>2, <2>3, <2>4
<1>7. SUBSET S \subseteq G
  <2>. HIDE DEF G
  <2> QED
    BY <1>5, <1>6, BySize
<1> QED
  BY <1>2, <1>3, <1>7 DEF Adds

(* There is one such function only.                                        *)
LEMMA SumsAgree ==
    ASSUME NEW S, IsFiniteSet(S), NEW f, NEW h, NEW a, NEW b, Adds(a, f, S),
           NEW R, S \subseteq R, Adds(b, h, R), \A x \in S : f[x] = h[x]
    PROVE  \A s \in SUBSET S : a[s] = b[s]
<1>. DEFINE G == {s \in SUBSET S : a[s] = b[s]}
<1>1. {} \in G
  BY DEF Adds
<1>2. ASSUME NEW s \in SUBSET S, s # {}, \A x \in s : s \ {x} \in G
      PROVE  s \in G
  <2>1. PICK x \in s : TRUE
    BY <1>2
  <2>2. a[s] = f[x] + a[s \ {x}]
    BY DEF Adds
  <2>3. b[s] = h[x] + b[s \ {x}]
    <3>1. s \in SUBSET R
      OBVIOUS
    <3> QED
      BY <3>1 DEF Adds
  <2>4. f[x] = h[x] /\ a[s \ {x}] = b[s \ {x}]
    BY <1>2
  <2> QED
    BY <2>2, <2>3, <2>4
<1>3. SUBSET S \subseteq G
  <2>. HIDE DEF G
  <2> QED
    BY <1>1, <1>2, BySize
<1> QED
  BY <1>3

(* One function gives the sums over all subsets.                           *)
LEMMA SumRule ==
    ASSUME NEW S, IsFiniteSet(S), NEW f, \A x \in S : f[x] \in Int
    PROVE  \E g : Adds(g, f, S) /\ \A s \in SUBSET S : SumFunctionOnSet(f, s) = g[s]
<1>1. PICK g : g = (CHOOSE h : Sums(h, f, S)) /\ Adds(g, f, S)
  BY SumsAdd
<1>2. ASSUME NEW s \in SUBSET S PROVE SumFunctionOnSet(f, s) = g[s]
  <2>1. IsFiniteSet(s)
    BY FS_Subset
  <2>2. PICK a : a = (CHOOSE h : Sums(h, f, s)) /\ Adds(a, f, s)
    BY <2>1, SumsAdd
  <2>3. a[s] = g[s]
    BY <1>1, <2>1, <2>2, SumsAgree
  <2> QED
    BY <2>2, <2>3, SumDef
<1> QED
  BY <1>1, <1>2

(* A sum is that of one element and of the others.                         *)
LEMMA SumWith ==
    ASSUME NEW S, IsFiniteSet(S), NEW f, \A y \in S : f[y] \in Int, NEW x \in S
    PROVE  /\ SumFunctionOnSet(f, S) = f[x] + SumFunctionOnSet(f, S \ {x})
           /\ SumFunctionOnSet(f, S) \in Int /\ SumFunctionOnSet(f, S \ {x}) \in Int
<1>1. PICK g : Adds(g, f, S) /\ \A s \in SUBSET S : SumFunctionOnSet(f, s) = g[s]
  BY SumRule
<1>2. S \in SUBSET S /\ S \ {x} \in SUBSET S
  OBVIOUS
<1> QED
  BY <1>1, <1>2 DEF Adds

(* The sum over no elements is zero, and that over any is an integer.      *)
LEMMA SumType ==
    ASSUME NEW S, IsFiniteSet(S), NEW f, \A y \in S : f[y] \in Int
    PROVE  SumFunctionOnSet(f, S) \in Int /\ SumFunctionOnSet(f, {}) = 0
<1>1. PICK g : Adds(g, f, S) /\ \A s \in SUBSET S : SumFunctionOnSet(f, s) = g[s]
  BY SumRule
<1>2. S \in SUBSET S /\ {} \in SUBSET S
  OBVIOUS
<1> QED
  BY <1>1, <1>2 DEF Adds

(* It depends on the values at these elements only.                        *)
LEMMA SumSame ==
    ASSUME NEW S, IsFiniteSet(S), NEW f, NEW h, \A y \in S : f[y] \in Int /\ h[y] = f[y]
    PROVE  SumFunctionOnSet(f, S) = SumFunctionOnSet(h, S)
<1>1. PICK a : Adds(a, f, S) /\ \A s \in SUBSET S : SumFunctionOnSet(f, s) = a[s]
  BY SumRule
<1>2. PICK b : Adds(b, h, S) /\ \A s \in SUBSET S : SumFunctionOnSet(h, s) = b[s]
  BY SumRule
<1>3. a[S] = b[S]
  BY <1>1, <1>2, SumsAgree
<1>4. S \in SUBSET S
  OBVIOUS
<1> QED
  BY <1>1, <1>2, <1>3, <1>4

(* What can be summed up.                                                  *)
Sized(S, f) == IsFiniteSet(S) /\ \A x \in S : f[x] \in Int

(* T has one element more than S, and its sum is larger by v.              *)
Exceeds(T, g, S, f, v) ==
    /\ Cardinality(S) \in Int /\ Cardinality(T) = Cardinality(S) + 1
    /\ SumFunctionOnSet(f, S) \in Int /\ v \in Int
    /\ SumFunctionOnSet(g, T) = SumFunctionOnSet(f, S) + v

(* With x it is larger by the value of x.                                  *)
LEMMA SumOneMore ==
    ASSUME NEW S, NEW f, NEW g, NEW x, Sized(S, f), x \notin S,
           \A y \in S : g[y] = f[y], g[x] \in Int
    PROVE  Exceeds(S \cup {x}, g, S, f, g[x])
<1>. USE DEF Sized
<1>. DEFINE U == S \cup {x}
<1>1. IsFiniteSet(U) /\ Cardinality(S) \in Int /\ Cardinality(U) = Cardinality(S) + 1
  BY FS_AddElement, FS_CardinalityType
<1>2. x \in U /\ U \ {x} = S /\ \A y \in U : g[y] \in Int
  OBVIOUS
<1>3. /\ SumFunctionOnSet(g, U) = g[x] + SumFunctionOnSet(g, S)
      /\ SumFunctionOnSet(g, S) \in Int
  <2>. HIDE DEF U
  <2> QED
    BY <1>1, <1>2, SumWith
<1>4. SumFunctionOnSet(f, S) = SumFunctionOnSet(g, S)
  BY SumSame
<1> QED
  BY <1>1, <1>3, <1>4 DEF Exceeds

(* Without x the sum is smaller by the value of x.                         *)
LEMMA SumOneFewer ==
    ASSUME NEW S, NEW f, NEW g, NEW x \in S, Sized(S, f), \A y \in S \ {x} : g[y] = f[y]
    PROVE  Exceeds(S, f, S \ {x}, g, f[x])
<1>. USE DEF Sized
<1>. DEFINE U == S \ {x}
<1>1. IsFiniteSet(U) /\ Cardinality(U) \in Int /\ Cardinality(S) = Cardinality(U) + 1
  <2>1. IsFiniteSet(U) /\ Cardinality(U) = Cardinality(S) - 1
    BY FS_RemoveElement
  <2>2. Cardinality(S) \in Nat
    BY FS_CardinalityType
  <2> QED
    BY <2>1, <2>2
<1>2. /\ SumFunctionOnSet(f, S) = f[x] + SumFunctionOnSet(f, U)
      /\ SumFunctionOnSet(f, S) \in Int /\ SumFunctionOnSet(f, U) \in Int
  BY SumWith
<1>3. SumFunctionOnSet(f, U) = SumFunctionOnSet(g, U)
  <2>1. \A y \in U : f[y] \in Int /\ g[y] = f[y]
    OBVIOUS
  <2>. HIDE DEF U
  <2> QED
    BY <1>1, <2>1, SumSame
<1> QED
  BY <1>1, <1>2, <1>3 DEF Exceeds

-----------------------------------------------------------------------------
(* The counters are exact                                                  *)
(*                                                                         *)
(* A packet with a slot is counted in one of three sets: the transmitters  *)
(* that have not given theirs to the card, the slots of the card, and the  *)
(* completions that are still to be read.  Each step leaves the sets as    *)
(* they are, adds to one, takes from one, or moves one member to the next. *)

Filling == {p \in Ports : Holding(p) /\ pc[p] # "count"}
Posted  == {i \in Slots : InCard(i)}
Back    == {i \in Slots : Reported(i)}

ReqSize  == [p \in Ports |-> req[p].size]
CardSize == [i \in Slots |-> dsc[i].size + sending[i].size]
BkSize   == [i \in Slots |-> bk[i].size]

(* The packet whose slot the worker has taken and is still to count.       *)
Taken == IF wpc = "dec" THEN 1 ELSE 0

(* d and c are what the counters of slots and lines should be.             *)
Tally(d, c, t, P, f, C, g, B, h) ==
    /\ d = Cardinality(P) + Cardinality(C) + Cardinality(B) + t
    /\ c = SumFunctionOnSet(f, P) + SumFunctionOnSet(g, C) + SumFunctionOnSet(h, B)

Exact == Tally(dscCnt, pktCnt, Taken, Filling, ReqSize, Posted, CardSize, Back, BkSize)

(* The sizes are numbers.                                                  *)
LEMMA SizesAreNumbers ==
    ASSUME TypeOK
    PROVE  /\ \A p \in Ports : req[p].size \in Int
           /\ \A i \in Slots : dsc[i].size \in Int /\ sending[i].size \in Int /\ bk[i].size \in Int
<1>1. Sizes \cup {0} \subseteq Int
  BY RingAssumption
<1>2. \A p \in Ports : req[p].size \in Sizes \cup {0}
  BY DEF TypeOK, Reqs
<1>3. \A i \in Slots : /\ dsc[i].size \in Sizes \cup {0} /\ sending[i].size \in Sizes \cup {0}
                       /\ bk[i].size \in Sizes \cup {0}
  BY DEF TypeOK, Dscs
<1> QED
  BY <1>1, <1>2, <1>3

(* What is counted can be.                                                 *)
LEMMA SizedTally ==
    ASSUME TypeOK
    PROVE  /\ Sized(Filling, ReqSize) /\ Sized(Posted, CardSize) /\ Sized(Back, BkSize)
           /\ dscCnt \in Int /\ pktCnt \in Int /\ Taken \in Int
<1>1. IsFiniteSet(Ports) /\ IsFiniteSet(Slots)
  BY RingAssumption, FS_Interval DEF Slots
<1>2. IsFiniteSet(Filling) /\ IsFiniteSet(Posted) /\ IsFiniteSet(Back)
  BY <1>1, FS_Subset DEF Filling, Posted, Back
<1>4. \A p \in Ports : ReqSize[p] \in Int
  BY SizesAreNumbers DEF ReqSize
<1>6. \A i \in Slots : CardSize[i] \in Int /\ BkSize[i] \in Int
  BY SizesAreNumbers DEF CardSize, BkSize
<1> QED
  BY <1>2, <1>4, <1>6 DEF Sized, Filling, Posted, Back, TypeOK, Taken

(* Nothing is moved.                                                       *)
LEMMA TallySame ==
    ASSUME NEW d, NEW c, NEW t, NEW P, NEW f, NEW C, NEW g, NEW B, NEW h,
           Sized(P, f), Sized(C, g), Sized(B, h), d \in Int, t \in Int,
           Tally(d, c, t, P, f, C, g, B, h),
           NEW f2, NEW g2, NEW h2, NEW d2, NEW t2, d2 \in Int, t2 \in Int, d2 - t2 = d - t,
           \A x \in P : f2[x] = f[x], \A x \in C : g2[x] = g[x], \A x \in B : h2[x] = h[x]
    PROVE  Tally(d2, c, t2, P, f2, C, g2, B, h2)
<1>1. /\ SumFunctionOnSet(f2, P) = SumFunctionOnSet(f, P)
      /\ SumFunctionOnSet(g2, C) = SumFunctionOnSet(g, C)
      /\ SumFunctionOnSet(h2, B) = SumFunctionOnSet(h, B)
  BY SumSame DEF Sized
<1>2. Cardinality(P) \in Int /\ Cardinality(C) \in Int /\ Cardinality(B) \in Int
  BY FS_CardinalityType DEF Sized
<1> QED
  BY <1>1, <1>2 DEF Tally

(* A transmitter has counted its packet (lines 63-64).                     *)
LEMMA TallyCount ==
    ASSUME NEW d, NEW c, NEW t, NEW P, NEW f, NEW C, NEW g, NEW B, NEW h,
           Sized(P, f), Sized(C, g), Sized(B, h), c \in Int, t \in Int,
           Tally(d, c, t, P, f, C, g, B, h),
           NEW x, x \notin P, f[x] \in Int
    PROVE  Tally(d + 1, c + f[x], t, P \cup {x}, f, C, g, B, h)
<1>1. Exceeds(P \cup {x}, f, P, f, f[x])
  <2>1. f[x] \in Int
    BY DEF Sized
  <2> QED
    BY <2>1, SumOneMore
<1>2. Cardinality(C) \in Int /\ Cardinality(B) \in Int
  BY FS_CardinalityType DEF Sized
<1>3. SumFunctionOnSet(g, C) \in Int /\ SumFunctionOnSet(h, B) \in Int
  BY SumType DEF Sized
<1> QED
  BY <1>1, <1>2, <1>3 DEF Tally, Exceeds

(* It gives the packet to the card, which has it in slot i.                *)
LEMMA TallyPost ==
    ASSUME NEW d, NEW c, NEW t, NEW P, NEW f, NEW C, NEW g, NEW B, NEW h,
           Sized(P, f), Sized(C, g), Sized(B, h), t \in Int,
           Tally(d, c, t, P, f, C, g, B, h),
           NEW x \in P, NEW i, i \notin C, NEW g2, \A y \in C : g2[y] = g[y], g2[i] = f[x]
    PROVE  Tally(d, c, t, P \ {x}, f, C \cup {i}, g2, B, h)
<1>1. Exceeds(P, f, P \ {x}, f, f[x])
  BY SumOneFewer
<1>2. Exceeds(C \cup {i}, g2, C, g, g2[i])
  <2>1. g2[i] \in Int
    BY DEF Sized
  <2> QED
    BY <2>1, SumOneMore
<1>3. Cardinality(B) \in Int /\ SumFunctionOnSet(h, B) \in Int /\ f[x] \in Int
  BY FS_CardinalityType, SumType DEF Sized
<1> QED
  BY <1>1, <1>2, <1>3 DEF Tally, Exceeds

(* The card reports slot i.                                                *)
LEMMA TallyComplete ==
    ASSUME NEW d, NEW c, NEW t, NEW P, NEW f, NEW C, NEW g, NEW B, NEW h,
           Sized(P, f), Sized(C, g), Sized(B, h), t \in Int,
           Tally(d, c, t, P, f, C, g, B, h),
           NEW i \in C, i \notin B, h[i] = g[i], NEW g2, \A y \in C \ {i} : g2[y] = g[y]
    PROVE  Tally(d, c, t, P, f, C \ {i}, g2, B \cup {i}, h)
<1>1. Exceeds(C, g, C \ {i}, g2, g[i])
  BY SumOneFewer
<1>2. Exceeds(B \cup {i}, h, B, h, h[i])
  <2>1. h[i] \in Int
    BY DEF Sized
  <2> QED
    BY <2>1, SumOneMore
<1>3. Cardinality(P) \in Int /\ SumFunctionOnSet(f, P) \in Int /\ g[i] \in Int
  BY FS_CardinalityType, SumType DEF Sized
<1> QED
  BY <1>1, <1>2, <1>3 DEF Tally, Exceeds

(* The worker takes the completion of slot i and its lines off the count;  *)
(* the slot follows in line 175.                                           *)
LEMMA TallyReap ==
    ASSUME NEW d, NEW c, NEW P, NEW f, NEW C, NEW g, NEW B, NEW h,
           Sized(P, f), Sized(C, g), Sized(B, h),
           Tally(d, c, 0, P, f, C, g, B, h), NEW i \in B
    PROVE  Tally(d, c - h[i], 1, P, f, C, g, B \ {i}, h)
<1>1. Exceeds(B, h, B \ {i}, h, h[i])
  BY SumOneFewer
<1>2. Cardinality(P) \in Int /\ Cardinality(C) \in Int
  BY FS_CardinalityType DEF Sized
<1>3. SumFunctionOnSet(g, C) \in Int /\ SumFunctionOnSet(f, P) \in Int /\ h[i] \in Int
  BY SumType DEF Sized
<1> QED
  BY <1>1, <1>2, <1>3 DEF Tally, Exceeds

(* Steps that leave the three sets as they are, and the sizes in them.     *)
LEMMA ExactKept ==
    ASSUME TypeOK, TypeOK', Exact,
           Filling' = Filling, Posted' = Posted, Back' = Back,
           pktCnt' = pktCnt, dscCnt' - Taken' = dscCnt - Taken,
           \A p \in Filling : req'[p].size = req[p].size,
           \A i \in Posted : dsc'[i].size + sending'[i].size = dsc[i].size + sending[i].size,
           \A i \in Back : bk'[i].size = bk[i].size
    PROVE  Exact'
<1>1. PICK f2, g2, h2, d2, t2 :
          /\ f2 = ReqSize' /\ g2 = CardSize' /\ h2 = BkSize' /\ d2 = dscCnt' /\ t2 = Taken'
  OBVIOUS
<1>2. /\ \A p \in Filling : f2[p] = ReqSize[p]
      /\ \A i \in Posted : g2[i] = CardSize[i]
      /\ \A i \in Back : h2[i] = BkSize[i]
  BY <1>1 DEF ReqSize, CardSize, BkSize, Filling, Posted, Back
<1>3. d2 \in Int /\ t2 \in Int /\ d2 - t2 = dscCnt - Taken
  <2>1. TypeOK' => dscCnt' \in Int /\ Taken' \in Int
    BY DEF TypeOK, Taken
  <2> QED
    BY <1>1, <2>1
<1>4. Tally(d2, pktCnt, t2, Filling, f2, Posted, g2, Back, h2)
  BY <1>2, <1>3, SizedTally, TallySame DEF Exact
<1> QED
  BY <1>1, <1>4 DEF Exact

(* Lines 63-64 count the packet of a transmitter.                          *)
LEMMA ExactCount ==
    ASSUME TypeOK, Exact, NEW p \in Ports, Count(p)
    PROVE  Exact'
<1>1. p \notin Filling /\ ReqSize[p] = req[p].size /\ ReqSize[p] \in Int
  BY SizesAreNumbers DEF Count, Filling, ReqSize
<1>2. Filling' = Filling \cup {p}
  BY DEF Count, Goto, Filling, Holding, TypeOK
<1>3. Tally(dscCnt + 1, pktCnt + ReqSize[p], Taken, Filling \cup {p}, ReqSize,
            Posted, CardSize, Back, BkSize)
  BY <1>1, SizedTally, TallyCount DEF Exact
<1>4. /\ dscCnt' = dscCnt + 1 /\ pktCnt' = pktCnt + ReqSize[p]
      /\ UNCHANGED <<Taken, ReqSize, Posted, CardSize, Back, BkSize>>
  BY <1>1 DEF Count, cardVars, workVars, Taken, ReqSize, Posted, CardSize, Back, BkSize,
              InCard, CardDscs, Reported
<1> QED
  BY <1>2, <1>3, <1>4 DEF Exact

(* Lines 109-110 give it to the card.                                      *)
LEMMA ExactWriteDsc ==
    ASSUME TypeOK, TypeOK', Ring, Packets, Exact, NEW p \in Ports, WriteDsc(p)
    PROVE  Exact'
<1>1. PICK i \in Slots : i = req[p].slot
  BY SlotInRange
<1>2. /\ p \in Filling /\ i \notin Posted /\ dsc[i] = NoDsc /\ sending[i] = NoDsc
  BY <1>1, InCardDef DEF WriteDsc, Filling, Holding, Posted, Ring, SlotExclusive
<1>3. dsc'[i] # NoDsc
  BY <1>1, PostedIsValid
<1>4. PICK g2 : g2 = CardSize'
  OBVIOUS
<1>5. \A k \in Posted : g2[k] = CardSize[k]
  BY <1>1, <1>2, <1>4 DEF WriteDsc, CardSize, Posted, TypeOK
<1>6. g2[i] = ReqSize[p]
  <2>1. dsc'[i].size = req[p].size /\ sending'[i].size = 0 /\ req[p].size \in Int
    BY <1>1, <1>2, SizesAreNumbers DEF WriteDsc, NoDsc, TypeOK
  <2>2. g2[i] = dsc'[i].size + sending'[i].size
    BY <1>4 DEF CardSize
  <2> QED
    BY <2>1, <2>2 DEF ReqSize
<1>7. Filling' = Filling \ {p}
  BY DEF WriteDsc, Goto, Filling, Holding, TypeOK
<1>8. Posted' = Posted \cup {i}
  <2>1. \A k \in Slots : k # i => dsc'[k] = dsc[k]
    BY <1>1 DEF WriteDsc, TypeOK
  <2>2. sending' = sending
    BY DEF WriteDsc
  <2>3. \A k \in Slots : InCard(k)' <=> dsc'[k] # NoDsc \/ sending'[k] # NoDsc
    BY DEF InCard, CardDscs
  <2> QED
    BY <1>3, <2>1, <2>2, <2>3, InCardDef DEF Posted
<1>9. Tally(dscCnt, pktCnt, Taken, Filling \ {p}, ReqSize, Posted \cup {i}, g2, Back, BkSize)
  BY <1>2, <1>5, <1>6, SizedTally, TallyPost DEF Exact
<1>10. UNCHANGED <<dscCnt, pktCnt, Taken, ReqSize, Back, BkSize>>
  BY DEF WriteDsc, memVars, workVars, Taken, ReqSize, Back, BkSize, Reported
<1> QED
  BY <1>4, <1>7, <1>8, <1>9, <1>10 DEF Exact

(* The card reports the slot that it has sent.                             *)
LEMMA ExactComplete ==
    ASSUME TypeOK, Ring, Packets, Behind, SlowCard, Exact, Complete
    PROVE  Exact'
<1>1. PICK i \in Slots : i = cardDne
  BY DEF TypeOK
<1>2. sending[i] # NoDsc /\ i \in Posted /\ dsc[i] = NoDsc /\ i \notin Back
  BY <1>1, InCardDef DEF Complete, Posted, Back, Ring, OneStage
<1>3. Reported(i)'
  BY <1>1, CompleteIsReported
<1>4. BkSize[i] = CardSize[i]
  <2>1. sending[i].size = bk[i].size
    BY <1>2 DEF Packets, BkRight
  <2>2. bk[i].size \in Int
    BY SizesAreNumbers
  <2> QED
    BY <1>2, <2>1, <2>2 DEF BkSize, CardSize, NoDsc
<1>5. PICK g2 : g2 = CardSize'
  OBVIOUS
<1>6. \A k \in Posted \ {i} : g2[k] = CardSize[k]
  BY <1>1, <1>5 DEF Complete, CardSize, Posted, TypeOK
<1>7. Posted' = Posted \ {i}
  <2>1. \A k \in Slots : k # i => sending'[k] = sending[k]
    BY <1>1 DEF Complete, TypeOK
  <2>2. dsc' = dsc /\ sending'[i] = NoDsc
    BY <1>1 DEF Complete, TypeOK
  <2>3. \A k \in Slots : InCard(k)' <=> dsc'[k] # NoDsc \/ sending'[k] # NoDsc
    BY DEF InCard, CardDscs
  <2> QED
    BY <1>2, <2>1, <2>2, <2>3, InCardDef DEF Posted
<1>8. Back' = Back \cup {i}
  <2>1. \A k \in Slots : k # i => dne'[k] = dne[k]
    BY <1>1 DEF Complete, TypeOK
  <2>2. UNCHANGED <<wpc, wslot>>
    BY DEF Complete, workVars
  <2> QED
    BY <1>3, <2>1, <2>2 DEF Back, Reported
<1>9. Tally(dscCnt, pktCnt, Taken, Filling, ReqSize, Posted \ {i}, g2, Back \cup {i}, BkSize)
  BY <1>2, <1>4, <1>6, SizedTally, TallyComplete DEF Exact
<1>10. UNCHANGED <<dscCnt, pktCnt, Taken, Filling, ReqSize, BkSize>>
  BY DEF Complete, memVars, txVars, workVars, Taken, Filling, Holding, ReqSize, BkSize
<1> QED
  BY <1>5, <1>7, <1>8, <1>9, <1>10 DEF Exact

(* Line 174 takes off what the bookkeeping says.                           *)
LEMMA ExactReap ==
    ASSUME TypeOK, Exact, Reap
    PROVE  Exact'
<1>1. PICK i \in Slots : i = dneRd
  BY DEF TypeOK
<1>2. i \in Back /\ Taken = 0 /\ Taken' = 1 /\ BkSize[i] = bk[i].size
  BY <1>1 DEF Reap, Back, Reported, Taken, BkSize
<1>3. Back' = Back \ {i}
  BY <1>1 DEF Reap, Back, Reported, cardVars
<1>4. Tally(dscCnt, pktCnt - BkSize[i], 1, Filling, ReqSize, Posted, CardSize, Back \ {i}, BkSize)
  BY <1>2, SizedTally, TallyReap DEF Exact
<1>5. /\ dscCnt' = dscCnt /\ pktCnt' = pktCnt - BkSize[i]
      /\ UNCHANGED <<Filling, ReqSize, Posted, CardSize, BkSize>>
  BY <1>1, <1>2 DEF Reap, cardVars, txVars, Filling, Holding, ReqSize, Posted, InCard, CardDscs,
              CardSize, BkSize
<1> QED
  BY <1>2, <1>3, <1>4, <1>5 DEF Exact

ExactInv == SlowCard /\ mapErrors = 0 => Exact

(* No step loses count.                                                    *)
LEMMA ExactNext ==
    ASSUME TypeOK, TypeOK', RingInv, PacketInv, KeptInv, ExactInv, [Next]_vars
    PROVE  ExactInv'
<1> SUFFICES ASSUME SlowCard, mapErrors' = 0 PROVE Exact'
  BY DEF ExactInv
<1>1. mapErrors = 0 /\ \A p \in Ports : ~MapError(p)
  BY NoErrorYet
<1>2. Ring /\ Packets /\ Behind /\ Exact
  BY <1>1 DEF RingInv, PacketInv, KeptInv, NoneLost, ExactInv
<1>3. ASSUME UNCHANGED <<dsc, sending, dne, bk, wpc, wslot, dscCnt, pktCnt>>,
             \A p \in Ports : /\ Holding(p)' /\ pc'[p] # "count" <=> Holding(p) /\ pc[p] # "count"
                              /\ Holding(p) => req'[p].size = req[p].size
      PROVE  Exact'
  <2>1. Filling' = Filling /\ Posted' = Posted /\ Back' = Back /\ Taken' = Taken
    BY <1>3 DEF Filling, Posted, InCard, CardDscs, Back, Reported, Taken
  <2>2. \A p \in Filling : req'[p].size = req[p].size
    BY <1>3 DEF Filling
  <2> QED
    BY <1>2, <1>3, <2>1, <2>2, ExactKept
<1>4. ASSUME NEW p \in Ports, Transmitter(p), ~Count(p), ~WriteBk(p), ~WriteDsc(p) PROVE Exact'
  <2>1. UNCHANGED <<dsc, sending, dne, bk, wpc, wslot, dscCnt, pktCnt>>
    BY <1>1, <1>4 DEF Transmitter, Inside, Xmit, NoRoom, Reserve, Advance, CheckFull, StopQueue, Stats,
                      memVars, cardVars, workVars
  <2>2. \A q \in Ports \ {p} : pc'[q] = pc[q] /\ req'[q] = req[q]
    BY <1>1, <1>4 DEF Transmitter, Inside, Xmit, NoRoom, Drop, Reserve, CheckFull, StopQueue, Stats,
                      Goto, TypeOK
  <2>3. /\ Holding(p)' /\ pc'[p] # "count" <=> Holding(p) /\ pc[p] # "count"
        /\ Holding(p) => req'[p].size = req[p].size
    BY <1>1, <1>4 DEF Transmitter, Inside, Xmit, NoRoom, Drop, Reserve, CheckFull, StopQueue, Stats,
                      Goto, Holding, TypeOK
  <2> QED
    BY <1>3, <2>1, <2>2, <2>3 DEF Holding
<1>5. ASSUME NEW p \in Ports, WriteBk(p) PROVE Exact'
  <2>1. UNCHANGED <<dsc, sending, dne, req, wpc, wslot, dscCnt, pktCnt>>
    BY <1>5 DEF WriteBk, memVars, cardVars, workVars
  <2>2. Filling' = Filling
    BY <1>5 DEF WriteBk, Goto, Filling, Holding, TypeOK
  <2>3. Posted' = Posted /\ Back' = Back /\ Taken' = Taken
    BY <2>1 DEF Posted, InCard, CardDscs, Back, Reported, Taken
  <2>4. req[p].slot \in Slots /\ req[p].slot \notin Back
    BY <1>2, <1>5, SlotInRange DEF WriteBk, Holding, Ring, SlotExclusive, Back
  <2>5. \A i \in Back : bk'[i].size = bk[i].size
    BY <1>5, <2>4 DEF WriteBk, Back, TypeOK
  <2> QED
    BY <1>2, <2>1, <2>2, <2>3, <2>5, ExactKept
<1>6. CASE Fetch
  <2>1. UNCHANGED <<pc, req, dne, bk, wpc, wslot, dscCnt, pktCnt>>
    BY <1>6 DEF Fetch, memVars, txVars, workVars
  <2>2. \A i \in Slots : /\ InCard(i)' <=> InCard(i)
                         /\ dsc'[i].size + sending'[i].size = dsc[i].size + sending[i].size
    <3>1. PICK c \in Slots : c = cardRd
      BY DEF TypeOK
    <3>2. /\ dsc[c] # NoDsc /\ sending[c] = NoDsc /\ sending'[c] = dsc[c] /\ dsc'[c] = NoDsc
          /\ \A i \in Slots : i # c => dsc'[i] = dsc[i] /\ sending'[i] = sending[i]
      BY <1>6, <3>1 DEF Fetch, TypeOK
    <3>3. \A i \in Slots : InCard(i)' <=> dsc'[i] # NoDsc \/ sending'[i] # NoDsc
      BY DEF InCard, CardDscs
    <3>4. dsc'[c].size + sending'[c].size = dsc[c].size + sending[c].size
      BY <3>2, SizesAreNumbers DEF NoDsc
    <3> QED
      BY <3>2, <3>3, <3>4, InCardDef
  <2>3. Filling' = Filling /\ Posted' = Posted /\ Back' = Back /\ Taken' = Taken
    BY <2>1, <2>2 DEF Filling, Holding, Posted, Back, Reported, Taken
  <2> QED
    BY <1>2, <2>1, <2>2, <2>3, ExactKept DEF Posted
<1>7. CASE DecDsc
  <2>1. UNCHANGED <<pc, req, dsc, sending, dne, bk, pktCnt>>
    BY <1>7 DEF DecDsc, txVars, cardVars
  <2>2. Filling' = Filling /\ Posted' = Posted
    BY <2>1 DEF Filling, Holding, Posted, InCard, CardDscs
  <2>3. Back' = Back
    BY <1>7, <2>1 DEF DecDsc, Back, Reported
  <2>4. dscCnt' - Taken' = dscCnt - Taken
    BY <1>7 DEF DecDsc, Taken, TypeOK
  <2> QED
    BY <1>2, <2>1, <2>2, <2>3, <2>4, ExactKept
<1>8. CASE Invalidate
  <2>1. UNCHANGED <<pc, req, dsc, sending, bk, dscCnt, pktCnt>>
    BY <1>8 DEF Invalidate, txVars, memVars
  <2>2. Filling' = Filling /\ Posted' = Posted /\ Taken' = Taken
    BY <1>8, <2>1 DEF Invalidate, Filling, Holding, Posted, InCard, CardDscs, Taken
  <2>3. Back' = Back
    BY <1>8 DEF Invalidate, Back, Reported, TypeOK
  <2> QED
    BY <1>2, <2>1, <2>2, <2>3, ExactKept
<1>9. ASSUME CheckWake \/ UNCHANGED vars \/ \E p \in Ports : WakePort(p) PROVE Exact'
  <2>1. UNCHANGED <<pc, req, dsc, sending, dne, bk, dscCnt, pktCnt>>
    BY <1>9 DEF CheckWake, WakePort, vars, memVars, cardVars, txVars
  <2>2. Filling' = Filling /\ Posted' = Posted
    BY <2>1 DEF Filling, Holding, Posted, InCard, CardDscs
  <2>3. Back' = Back /\ Taken' = Taken
    BY <1>9, <2>1 DEF CheckWake, WakePort, vars, workVars, Back, Reported, Taken
  <2> QED
    BY <1>2, <2>1, <2>2, <2>3, ExactKept
<1>10. CASE Complete
  BY <1>2, <1>10, ExactComplete
<1>11. CASE Reap
  BY <1>2, <1>11, ExactReap
<1>12. ASSUME NEW p \in Ports, Count(p) \/ WriteDsc(p) PROVE Exact'
  BY <1>2, <1>12, ExactCount, ExactWriteDsc
<1> QED
  BY <1>4, <1>5, <1>6, <1>7, <1>8, <1>9, <1>10, <1>11, <1>12 DEF Next, Card, Worker

(* As long as no mapping has failed, and with the slow card, the counters  *)
(* that lines 41, 67 and 181 read are exact: they count each packet from   *)
(* lines 63-64 until lines 174-175, with the size that lines 63-64 added,  *)
(* although 174 takes it from the bookkeeping.                             *)
THEOREM CountersAreExact == SlowCard => (Spec => [](mapErrors = 0 => CountsExact))
<1> SUFFICES ASSUME SlowCard PROVE Spec => [](mapErrors = 0 => CountsExact)
  OBVIOUS
<1>1. Init => ExactInv
  <2> SUFFICES ASSUME Init PROVE Exact
    BY DEF ExactInv
  <2>1. Filling = {} /\ Posted = {} /\ Back = {} /\ Taken = 0 /\ dscCnt = 0 /\ pktCnt = 0
    BY InCardDef DEF Init, Filling, Holding, Posted, Back, Reported, Taken
  <2>2. Cardinality({}) = 0
    BY FS_EmptySet
  <2>3. \A f : SumFunctionOnSet(f, {}) = 0
    BY SumType, FS_EmptySet
  <2> QED
    BY <2>1, <2>2, <2>3 DEF Exact, Tally
<1>2. Spec => []ExactInv
  BY <1>1, ExactNext, TypeCorrect, RingInvariant, PacketInvariant, KeptInvariant, PTL DEF Spec
<1>3. ExactInv => (mapErrors = 0 => CountsExact)
  BY DEF ExactInv, Exact, Tally, CountsExact, Filling, Posted, Back, ReqSize, CardSize, BkSize, Taken
<1> QED
  BY <1>2, <1>3, PTL

-----------------------------------------------------------------------------
(* The queue of TxFifo                                                     *)
(*                                                                         *)
(* The queue's k-th packet is the one that slot dneRd + k - 1 carries.     *)
(* Reserve appends one, Reap takes the first, and no other step changes    *)
(* which packet a slot carries, though most of them change whose it is.    *)

(* The sequence that the refinement mapping gives to fifo.                 *)
SkbQueue == [k \in 1..Outstanding |-> SkbAt(Wrap(dneRd + k - 1, N))]

(* SkbAt looks where the packet is; it finds the one the slot carries.     *)
MapRight ==
    /\ Outstanding = Used
    /\ SlowCard /\ mapErrors = 0 =>
           \A i \in Slots, s \in Skbs : Carries(i, s) => SkbAt(i) = s

(* SkbAt finds the packet that a slot carries.                             *)
LEMMA SkbAtCarried ==
    ASSUME Ring, Packets, NEW i \in Slots, NEW s \in Skbs, Carries(i, s)
    PROVE  SkbAt(i) = s
<1>1. CASE \E p \in Ports : Holding(p) /\ req[p].slot = i
  <2> DEFINE q == CHOOSE p \in Ports : Holding(p) /\ req[p].slot = i
  <2>1. q \in Ports /\ Holding(q) /\ req[q].slot = i
    BY <1>1
  <2>2. \A p \in Ports : Holding(p) /\ req[p].slot = i => p = q
    BY <2>1 DEF Ring, SlotExclusive
  <2>3. ~Busy(i)
    BY <2>1 DEF Ring, SlotExclusive, Busy
  <2>4. req[q].skb = s
    BY <2>2, <2>3 DEF Carries
  <2> QED
    BY <1>1, <2>4 DEF SkbAt
<1>2. CASE ~\E p \in Ports : Holding(p) /\ req[p].slot = i
  <2>1. Busy(i) /\ bk[i].skb = s
    BY <1>2 DEF Carries
  <2>2. CASE InCard(i)
    <3>1. \A d \in CardDscs(i) : d.skb = s
      BY <2>1 DEF CardDscs, Packets, BkRight
    <3>2. (CHOOSE d \in CardDscs(i) : TRUE) \in CardDscs(i)
      BY <2>2 DEF InCard
    <3> QED
      BY <1>2, <2>2, <3>1, <3>2 DEF SkbAt
  <2>3. CASE ~InCard(i)
    BY <1>2, <2>1, <2>3 DEF SkbAt, Busy, Packets, BkRight
  <2> QED
    BY <2>2, <2>3
<1> QED
  BY <1>1, <1>2

(* The refinement mapping reads the window of the ring.                    *)
LEMMA MapIsRight == Spec => []MapRight
<1>1. TypeOK /\ RingInv /\ PacketInv => MapRight
  BY OutstandingIsUsed, SkbAtCarried DEF RingInv, PacketInv, MapRight
<1> QED
  BY <1>1, TypeCorrect, RingInvariant, PacketInvariant, PTL

(* The slots of the window are those from dneRd on.                        *)
LEMMA SlotOfPlace ==
    ASSUME TypeOK, Ring, NEW k \in 1..Used
    PROVE  /\ Wrap(dneRd + k - 1, N) \in Slots
           /\ Dist(Wrap(dneRd + k - 1, N)) = k - 1
           /\ InWindow(Wrap(dneRd + k - 1, N))
<1>1. N \in Nat /\ N > 0 /\ dneRd \in 0..(N - 1) /\ Used \in 0..N
  BY RingAssumption DEF TypeOK, Slots, Ring, Window
<1>2. PICK i \in Slots : i = Wrap(dneRd + k - 1, N)
  <2>1. Wrap(dneRd + k - 1, N) \in 0..(N - 1)
    BY <1>1 DEF Wrap
  <2> QED
    BY <2>1 DEF Slots
<1>3. Dist(i) = k - 1
  BY <1>1, <1>2 DEF Dist, Wrap
<1> QED
  BY <1>1, <1>2, <1>3 DEF InWindow

(* One more element at the end.                                            *)
LEMMA AppendOne ==
    ASSUME NEW S, NEW n \in Nat, NEW f \in [1..n -> S], NEW s \in S, NEW g \in [1..(n + 1) -> S],
           g[n + 1] = s, \A k \in 1..n : g[k] = f[k]
    PROVE  g = Append(f, s) /\ Len(f) = n
<1>1. f \in Seq(S) /\ Len(f) = n
  OBVIOUS
<1> QED
  BY <1>1

(* All elements but the first, each one place further to the front.        *)
LEMMA DropFirst ==
    ASSUME NEW S, NEW n \in Nat \ {0}, NEW f \in [1..n -> S], NEW g \in [1..(n - 1) -> S],
           \A k \in 1..(n - 1) : g[k] = f[k + 1]
    PROVE  g = Tail(f) /\ f # <<>>
<1>1. f \in Seq(S) /\ Len(f) = n /\ f # <<>>
  OBVIOUS
<1> QED
  BY <1>1

(* Every place of the queue has a packet that a slot of the window carries.*)
LEMMA QueuePlaces ==
    ASSUME TypeOK, Ring, NoneLost, SlowCard, mapErrors = 0, MapRight
    PROVE  /\ SkbQueue \in [1..Used -> Skbs]
           /\ \A k \in 1..Used :
                  \E i \in Slots : /\ i = Wrap(dneRd + k - 1, N) /\ InWindow(i)
                                   /\ SkbQueue[k] = SkbAt(i) /\ Carries(i, SkbQueue[k])
<1>1. Outstanding = Used
  BY DEF MapRight
<1>2. ASSUME NEW k \in 1..Used
      PROVE  \E i \in Slots : /\ i = Wrap(dneRd + k - 1, N) /\ InWindow(i)
                              /\ SkbAt(i) \in Skbs /\ Carries(i, SkbAt(i))
  <2>1. PICK i \in Slots : i = Wrap(dneRd + k - 1, N) /\ InWindow(i)
    BY SlotOfPlace
  <2>2. PICK s \in Skbs : Carries(i, s)
    BY <2>1 DEF NoneLost
  <2>3. SkbAt(i) = s
    BY <2>2 DEF MapRight
  <2> QED
    BY <2>1, <2>2, <2>3
<1> QED
  BY <1>1, <1>2 DEF SkbQueue

(* The slot that is reserved gets the place at the end.                    *)
LEMMA ReserveAccepts ==
    ASSUME TypeOK, LockHeld, Ring, Packets, NoneLost, NoneLost', SlowCard, mapErrors' = 0,
           mapErrors = 0, MapRight, MapRight', TypeOK', Ring', NEW p \in Ports, Reserve(p)
    PROVE  /\ req[p].skb \in Skbs /\ Len(SkbQueue) < N
           /\ \A k \in 1..Len(SkbQueue) : SkbQueue[k] # req[p].skb
           /\ SkbQueue' = Append(SkbQueue, req[p].skb)
<1>1. N \in Nat /\ Used \in 0..(N - 1) /\ Used' = Used + 1 /\ Dist(dscWr) = Used
  BY WindowReserve, RingAssumption
<1>2. pc[p] = "xmit" /\ req[p].skb \in Skbs /\ dneRd' = dneRd
  BY DEF Reserve, Packets, OneOwner, Carrying, TypeOK, workVars
<1>3. PICK new \in Slots, t \in Skbs : new = dscWr /\ t = req[p].skb
  BY <1>2 DEF TypeOK
<1>4. new = Wrap(dneRd + Used, N)
  BY <1>3 DEF Ring, Window
<1>5. Carries(new, t)'
  <2>1. /\ Holding(p)' /\ req'[p].slot = new /\ req'[p].skb = t
    BY <1>3 DEF Reserve, Goto, Holding, TypeOK, Reqs
  <2> QED
    BY <2>1 DEF Carries
<1>6. ASSUME NEW i \in Slots, NEW s \in Skbs, Carries(i, s)
      PROVE  SkbAt(i) = s /\ SkbAt(i)' = s /\ s # t
  <2>1. ~Reap /\ \A q \in Ports : ~MapError(q)
    BY RingAssumption DEF Reserve, Reap, MapError, TypeOK, workVars
  <2>2. [Next]_vars
    BY DEF Next, Transmitter
  <2>3. Carries(i, s)'
    BY <1>6, <2>1, <2>2, CarriesOn DEF NoneLost
  <2>4. s # t
    BY <1>2, <1>3, <1>6 DEF Carries, Packets, OneOwner, Carrying, Holding
  <2> QED
    BY <1>6, <2>3, <2>4 DEF MapRight
<1>7. SkbAt(new)' = t
  BY <1>2, <1>5 DEF MapRight
<1>8. /\ SkbQueue \in [1..Used -> Skbs]
      /\ \A k \in 1..Used : \E i \in Slots :
             i = Wrap(dneRd + k - 1, N) /\ SkbQueue[k] = SkbAt(i) /\ Carries(i, SkbQueue[k])
  BY QueuePlaces
<1> DEFINE f2 == [k \in 1..(Used + 1) |-> IF k = Used + 1 THEN t ELSE SkbQueue[k]]
<1>9. SkbQueue' = f2
  <2>1. SkbQueue' = [k \in 1..(Used + 1) |-> SkbAt(Wrap(dneRd + k - 1, N))']
    BY <1>1 DEF SkbQueue, MapRight
  <2>2. ASSUME NEW k \in 1..(Used + 1) PROVE SkbAt(Wrap(dneRd + k - 1, N))' = f2[k]
    <3>1. CASE k = Used + 1
      BY <1>1, <1>2, <1>4, <1>7, <3>1 DEF SkbAt, Wrap
    <3>2. CASE k # Used + 1
      <4>1. PICK i \in Slots :
                i = Wrap(dneRd + k - 1, N) /\ SkbQueue[k] = SkbAt(i) /\ Carries(i, SkbQueue[k])
        BY <1>1, <1>8, <3>2
      <4>2. SkbQueue[k] \in Skbs /\ f2[k] = SkbQueue[k]
        BY <1>1, <1>8, <3>2
      <4>3. SkbAt(i)' = SkbQueue[k]
        BY <1>6, <4>1, <4>2
      <4> QED
        BY <1>2, <4>1, <4>2, <4>3 DEF SkbAt, Wrap
    <3> QED
      BY <3>1, <3>2
  <2> QED
    BY <2>1, <2>2
<1>10. f2 = Append(SkbQueue, t) /\ Len(SkbQueue) = Used
  <2>1. PICK n \in Nat : n = Used
    BY <1>1
  <2>2. SkbQueue \in [1..n -> Skbs] /\ f2 \in [1..(n + 1) -> Skbs]
    BY <1>1, <1>8, <2>1
  <2>3. f2[n + 1] = t /\ \A k \in 1..n : f2[k] = SkbQueue[k]
    BY <1>1, <2>1
  <2> HIDE DEF f2
  <2> QED
    BY <2>1, <2>2, <2>3, AppendOne
<1>11. \A k \in 1..Used : SkbQueue[k] # t
  BY <1>6, <1>8
<1> QED
  BY <1>1, <1>2, <1>3, <1>9, <1>10, <1>11

(* The slot whose completion is taken had the first place.                 *)
LEMMA ReapReleases ==
    ASSUME TypeOK, Ring, NoneLost, SlowCard, mapErrors = 0, MapRight, MapRight', Reap
    PROVE  SkbQueue # <<>> /\ SkbQueue' = Tail(SkbQueue)
<1>1. N \in Nat \ {0} /\ dneRd \in 0..(N - 1) /\ Used \in 1..N /\ Used' = Used - 1
  BY WindowReap, RingAssumption DEF TypeOK, Slots
<1>2. dneRd' = Wrap(dneRd + 1, N) /\ UNCHANGED <<pc, req, dsc, sending, dne>>
  BY DEF Reap, txVars, cardVars
<1>3. \A i \in Slots : SkbAt(i)' = SkbAt(i)
  BY <1>2 DEF SkbAt, Holding, InCard, CardDscs
<1>4. /\ SkbQueue \in [1..Used -> Skbs]
      /\ \A k \in 1..Used : \E i \in Slots :
             i = Wrap(dneRd + k - 1, N) /\ SkbQueue[k] = SkbAt(i)
  BY QueuePlaces
<1> DEFINE f2 == [k \in 1..(Used - 1) |-> SkbQueue[k + 1]]
<1>5. SkbQueue' = f2
  <2>1. SkbQueue' = [k \in 1..(Used - 1) |-> SkbAt(Wrap(dneRd + k - 1, N))']
    BY <1>1 DEF SkbQueue, MapRight
  <2>2. ASSUME NEW k \in 1..(Used - 1) PROVE SkbAt(Wrap(dneRd + k - 1, N))' = f2[k]
    <3>1. PICK i \in Slots : i = Wrap(dneRd + (k + 1) - 1, N) /\ SkbQueue[k + 1] = SkbAt(i)
      BY <1>1, <1>4
    <3>2. Wrap(dneRd' + k - 1, N) = i
      BY <1>1, <1>2, <3>1 DEF Wrap
    <3> QED
      BY <1>3, <3>1, <3>2 DEF Wrap
  <2> QED
    BY <2>1, <2>2
<1>6. f2 \in [1..(Used - 1) -> Skbs] /\ \A k \in 1..(Used - 1) : f2[k] = SkbQueue[k + 1]
  BY <1>1, <1>4
<1>7. f2 = Tail(SkbQueue) /\ SkbQueue # <<>>
  <2>1. PICK n \in Nat \ {0} : n = Used
    BY <1>1
  <2> HIDE DEF f2
  <2>2. SkbQueue \in [1..n -> Skbs] /\ f2 \in [1..(n - 1) -> Skbs]
    BY <1>4, <1>6, <2>1
  <2>3. \A k \in 1..(n - 1) : f2[k] = SkbQueue[k + 1]
    BY <1>6, <2>1
  <2> QED
    BY <2>2, <2>3, DropFirst
<1> QED
  BY <1>5, <1>7

(* Every other step leaves each packet where the queue finds it.           *)
LEMMA OthersKeepQueue ==
    ASSUME TypeOK, LockHeld, Ring, Packets, NoneLost, SlowCard, mapErrors = 0, mapErrors' = 0,
           MapRight, MapRight', [Next]_vars, ~Reap, \A p \in Ports : ~Reserve(p) /\ ~MapError(p)
    PROVE  SkbQueue' = SkbQueue
<1>1. Used' = Used /\ dneRd' = dneRd
  BY UsedKept
<1>2. SkbQueue' = [k \in 1..Used |-> SkbAt(Wrap(dneRd + k - 1, N))']
  BY <1>1 DEF SkbQueue, MapRight
<1>3. ASSUME NEW k \in 1..Used PROVE SkbAt(Wrap(dneRd + k - 1, N))' = SkbQueue[k]
  <2>1. PICK i \in Slots, s \in Skbs :
            i = Wrap(dneRd + k - 1, N) /\ SkbQueue[k] = s /\ Carries(i, s)
    BY QueuePlaces
  <2>2. Carries(i, s)'
    BY <2>1, CarriesOn DEF NoneLost
  <2>3. SkbAt(i)' = s
    BY <2>2 DEF MapRight
  <2> QED
    BY <1>1, <2>1, <2>3 DEF SkbAt, Wrap
<1>4. SkbQueue = [k \in 1..Used |-> SkbQueue[k]]
  BY QueuePlaces
<1> QED
  BY <1>2, <1>3, <1>4

(* A step that maps to no step of the queue leaves the queues of the ports *)
(* as they were.                                                           *)
LEMMA QueuesStay ==
    ASSUME [Next]_vars, \A p \in Ports : ~StopQueue(p) /\ ~WakePort(p)
    PROVE  stopped' = stopped
<1>1. ASSUME NEW p \in Ports, Transmitter(p) PROVE stopped' = stopped
  BY <1>1 DEF Transmitter, Xmit, NoRoom, Reserve, MapError, Inside, Count, CheckFull, WriteBk,
              WriteDsc, Stats
<1>2. CASE Card
  BY <1>2 DEF Card, Fetch, Complete
<1>3. CASE Worker
  BY <1>3 DEF Worker, Reap, DecDsc, Invalidate, CheckWake
<1>4. CASE UNCHANGED vars
  BY <1>4 DEF vars
<1> QED
  BY <1>1, <1>2, <1>3, <1>4 DEF Next

(* A queue is stopped only by a transmitter that has a packet under way.   *)
LEMMA StopFindsPacket ==
    ASSUME TypeOK, Ring, NoneLost, SlowCard, mapErrors = 0, MapRight, NEW p \in Ports, StopQueue(p)
    PROVE  SkbQueue # <<>>
<1>1. pc[p] = "stop" /\ Used \in 0..N /\ N \in Nat
  BY RingAssumption DEF StopQueue, Ring, Window
<1>2. Used # 0
  <2>1. InWindow(req[p].slot) /\ req[p].slot \in 0..(N - 1) /\ dneRd \in 0..(N - 1)
    BY <1>1, SlotInRange DEF Ring, InUseInWindow, Holding, Slots, TypeOK
  <2> QED
    BY <1>1, <2>1 DEF InWindow, Dist
<1>3. Used \in Nat \ {0} /\ SkbQueue \in [1..Used -> Skbs]
  BY <1>1, <1>2, QueuePlaces
<1> QED
  BY <1>3

(* Every step of the transmit path is a step of TxFifo or leaves it alone. *)
LEMMA StepsOfQueue ==
    ASSUME TypeOK, TypeOK', RingInv, RingInv', PacketInv, KeptInv, KeptInv', MapRight, MapRight',
           SlowCard, mapErrors = 0, mapErrors' = 0, [Next]_vars
    PROVE  [Fifo!Next]_(Fifo!vars)
<1>1. LockHeld /\ Ring /\ Ring' /\ Packets /\ NoneLost /\ NoneLost'
  BY DEF RingInv, PacketInv, KeptInv
<1>2. \A p \in Ports : ~MapError(p)
  BY NoErrorYet
<1>3. CASE \E p \in Ports : Reserve(p)
  <2>1. PICK p \in Ports : Reserve(p)
    BY <1>3
  <2>2. stopped' = stopped
    BY <2>1 DEF Reserve
  <2>3. PICK s \in Skbs : s = req[p].skb
    BY <1>1, <2>1, ReserveAccepts
  <2>4. /\ Len(SkbQueue) < N /\ SkbQueue' = Append(SkbQueue, s)
        /\ \A k \in 1..Len(SkbQueue) : SkbQueue[k] # s
    BY <1>1, <2>1, <2>3, ReserveAccepts
  <2>5. Fifo!Accept(s)
    BY <2>2, <2>4 DEF Fifo!Accept, SkbQueue
  <2> QED
    BY <2>5 DEF Fifo!Next
<1>4. CASE Reap
  <2>1. stopped' = stopped
    BY <1>4 DEF Reap
  <2>2. Fifo!Release
    BY <1>1, <1>4, <2>1, ReapReleases DEF Fifo!Release, SkbQueue
  <2> QED
    BY <2>2 DEF Fifo!Next
<1>5. CASE ~Reap /\ \A p \in Ports : ~Reserve(p)
  <2>1. SkbQueue' = SkbQueue
    BY <1>1, <1>2, <1>5, OthersKeepQueue
  <2>2. ASSUME NEW p \in Ports, StopQueue(p) PROVE Fifo!Next
    <3>1. SkbQueue # <<>>
      BY <1>1, <2>2, StopFindsPacket
    <3>2. stopped' = stopped \cup {p}
      BY <2>2 DEF StopQueue
    <3>3. Fifo!Stop(p)
      BY <2>1, <3>1, <3>2 DEF Fifo!Stop, SkbQueue
    <3> QED
      BY <3>3 DEF Fifo!Next
  <2>3. ASSUME NEW p \in Ports, WakePort(p) PROVE Fifo!Next
    <3>1. stopped' = stopped \ {p}
      BY <2>3 DEF WakePort
    <3>2. Fifo!Wake(p)
      BY <2>1, <3>1 DEF Fifo!Wake, SkbQueue
    <3> QED
      BY <3>2 DEF Fifo!Next
  <2>4. CASE \A p \in Ports : ~StopQueue(p) /\ ~WakePort(p)
    <3>1. stopped' = stopped
      BY <2>4, QueuesStay
    <3> QED
      BY <2>1, <3>1 DEF Fifo!vars, SkbQueue
  <2> QED
    BY <2>2, <2>3, <2>4
<1> QED
  BY <1>3, <1>4, <1>5

(* As long as no mapping fails, and with a card that completes a slot      *)
(* again only after the worker has invalidated its previous completion,    *)
(* nf10priv_xmit and work_handler keep the promise of TxFifo: the packets  *)
(* for which a slot is reserved leave the driver once each and in that     *)
(* order, never more than N at a time, and a queue is stopped (line 70)    *)
(* only while there is a packet whose completion is still to come.         *)
THEOREM ImplementsQueue ==
    SlowCard => (Spec /\ [](mapErrors = 0) => Fifo!SafetySpec)
<1> SUFFICES ASSUME SlowCard PROVE Spec /\ [](mapErrors = 0) => Fifo!SafetySpec
  OBVIOUS
<1>1. Init /\ MapRight => Fifo!Init
  <2> SUFFICES ASSUME Init, MapRight PROVE Fifo!Init
    OBVIOUS
  <2>1. Outstanding = 0 /\ stopped = {}
    BY DEF Init, MapRight, Used, Counting
  <2>2. SkbQueue = <<>>
    BY <2>1 DEF SkbQueue
  <2> QED
    BY <2>1, <2>2 DEF Fifo!Init, SkbQueue
<1>2. TypeOK /\ TypeOK' /\ RingInv /\ RingInv' /\ PacketInv /\ KeptInv /\ KeptInv'
      /\ MapRight /\ MapRight' /\ mapErrors = 0 /\ (mapErrors = 0)' /\ [Next]_vars
          => [Fifo!Next]_(Fifo!vars)
  BY StepsOfQueue
<1> QED
  BY <1>1, <1>2, TypeCorrect, RingInvariant, PacketInvariant, KeptInvariant, MapIsRight, PTL
     DEF Spec, Fifo!SafetySpec
=============================================================================
