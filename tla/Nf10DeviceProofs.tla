--------------------------- MODULE Nf10DeviceProofs ---------------------------
(***************************************************************************)
(* The life of the driver: what can be entered is there, and what is given *)
(* back was there, for any number of ports and of files.  And the counter  *)
(* of register writes covers the write buffer of the card, for any number  *)
(* of processes and any size of the buffer, as long as nothing has come    *)
(* between the last reading of the card and the setting of the count.      *)
(***************************************************************************)
EXTENDS Nf10Device, FiniteSetTheorems, TLAPS

-----------------------------------------------------------------------------
(* Nf10Lifecycle                                                           *)

(* The steps between request_irq and free_irq. *)
Entered == {"ndev", "rx", "chrdev", "cdev", "class", "bound", "undo_ndev", "rm_ndev"}

FromIrq == Entered \cup {"irq", "rm_unmap"}
FromWq  == FromIrq \cup {"wq", "bk"}
FromDne == FromWq \cup {"dne"}
FromDsc == FromDne \cup {"dsc"}
FromCfg == FromDsc \cup {"cfg"}

WithCard == FromCfg \cup {"err_out_free_private2", "err_out_iounmap", "rm_buffers", "rm_card"}

(* A failure after request_irq, before the first label has given anything  *)
(* back.                                                                   *)
Late == pc = "err_out_free_private2" /\ "irq" \in held

WithoutMsi     == {"unbound", "msi", "err_out_disable_device"}
WithoutRegion0 == WithoutMsi \cup {"region0", "err_out_msi", "rm_device"}
WithoutRegion2 == WithoutRegion0 \cup {"region2", "err_out_release_mem_region1"}

(* What belongs to the device is held exactly between the step that sets   *)
(* it up and the label or the part of nf10_remove that gives it back,      *)
BusHeld ==
    /\ "device" \in held <=> pc # "unbound"
    /\ "msi" \in held <=> pc \notin WithoutMsi
    /\ "region0" \in held <=> pc \notin WithoutRegion0
    /\ "region2" \in held <=> pc \notin WithoutRegion2

(* and so is the card.  Its parts are there from their own step on,        *)
CardHeld ==
    /\ "card" \in held <=> pc \in WithCard
    /\ pc \in FromDsc \/ Late => "cfg_addr" \in held
    /\ pc \in FromDne \/ Late => "tx_dsc" \in held /\ "rx_dsc" \in held
    /\ pc \in FromWq \cup {"rm_buffers"} \/ Late => "tx_dne" \in held /\ "rx_dne" \in held
    /\ pc \in FromIrq \cup {"rm_buffers"} \/ Late => "tx_bk" \in held /\ "rx_bk" \in held
    /\ pc \in FromIrq \/ Late => drvdata
    /\ pc \in FromIrq \cup {"bk"} \/ Late => cardWq # "null"
    /\ pc \in {"cdev", "class", "bound"} => "chrdev" \in held
    /\ pc \in {"class", "bound"} => "cdev" \in held

(* and not there any more when they have been given back.                  *)
CardGone ==
    /\ "cfg_addr" \in held \/ "tx_dsc" \in held \/ "rx_dsc" \in held =>
           pc \in WithCard \ {"rm_buffers", "rm_card"}
    /\ "tx_dne" \in held \/ "rx_dne" \in held =>
           pc \in FromWq \cup {"err_out_free_private2", "rm_buffers"}
    /\ "tx_bk" \in held \/ "rx_bk" \in held =>
           pc \in FromIrq \cup {"err_out_free_private2", "rm_buffers"}
    /\ drvdata \/ cardWq # "null" => pc \in WithCard
    /\ "chrdev" \in held =>
           \/ pc \in {"cdev", "class", "bound"}
           \/ "irq" \in held /\ pc \in Ladder \cup {"unbound"}
    /\ "cdev" \in held => pc \in {"class", "bound"}
    /\ "class" \in held => pc = "bound"

(* Who can call the driver, and when. *)
Entrances ==
    /\ pc \in Entered => "irq" \in held
    /\ "irq" \in held => pc \in Entered \cup Ladder \cup {"unbound"}
    /\ "card" \in work => "irq" \in held \/ pc \in {"rm_unmap", "rm_buffers", "rm_card"}
    /\ ndev # {} => "irq" \in held
    /\ pc \in {"dne", "wq", "bk", "irq", "ndev", "rx", "undo_ndev"} => "rx" \notin armed
    /\ pc \in {"rx", "chrdev", "cdev", "class", "bound"} => ndev = Ports
    /\ Late => "rx" \notin armed \/ ndev = Ports
    /\ files # {} /\ ~Unbind => pc \in {"class", "bound"}

IInv == TypeOK /\ BusHeld /\ CardHeld /\ CardGone /\ Entrances

(* Before the first probe there is nothing.                                *)
LEMMA InitOK == Init => IInv
<1>. SUFFICES ASSUME Init PROVE IInv
  OBVIOUS
<1>. USE DEF FromIrq, FromWq, FromDne, FromDsc, FromCfg, Entered, WithCard, Late,
             WithoutMsi, WithoutRegion0, WithoutRegion2
<1>1. /\ pc = "unbound" /\ held = {} /\ ~drvdata /\ cardWq = "null"
      /\ ndev = {} /\ registered = {} /\ work = {} /\ armed = {} /\ files = {}
  BY DEF Init
<1>2. TypeOK
  BY <1>1 DEF Init, TypeOK
<1>3. BusHeld
  BY <1>1 DEF BusHeld
<1>4. CardHeld /\ CardGone
  BY <1>1 DEF CardHeld, CardGone
<1>5. Entrances
  BY <1>1 DEF Entrances
<1> QED
  BY <1>2, <1>3, <1>4, <1>5 DEF IInv

(* What a step of the probe that asks for one thing does, *)
LEMMA TryOne ==
    ASSUME NEW at, NEW r, NEW next, NEW undo, Try(at, {r}, next, undo)
    PROVE  /\ pc = at
           /\ \/ pc' = next /\ held' = held \cup {r}
              \/ pc' = undo /\ held' = held
<1>1. PICK got \in SUBSET {r} :
          held' = held \cup got /\ pc' = IF got = {r} THEN next ELSE undo
  BY DEF Try
<1>2. got = {} \/ got = {r}
  OBVIOUS
<1> QED
  BY <1>1, <1>2 DEF Try

(* and one that asks for two. *)
LEMMA TryTwo ==
    ASSUME NEW at, NEW r, NEW q, NEW next, NEW undo, Try(at, {r, q}, next, undo)
    PROVE  /\ pc = at
           /\ \/ pc' = next /\ held' = held \cup {r, q}
              \/ pc' = undo /\ held' \in {held, held \cup {r}, held \cup {q}}
<1>1. PICK got \in SUBSET {r, q} :
          held' = held \cup got /\ pc' = IF got = {r, q} THEN next ELSE undo
  BY DEF Try
<1>2. got \in {{}, {r}, {q}, {r, q}}
  OBVIOUS
<1> QED
  BY <1>1, <1>2 DEF Try

(* int_handler, work_handler, the network stack and the processes do not   *)
(* set anything up and do not take anything down.                          *)
LEMMA CallersStep == IInv /\ Callers => IInv'
<1>. SUFFICES ASSUME IInv, Callers PROVE IInv'
  OBVIOUS
<1>1. UNCHANGED <<pc, held, drvdata, cardWq, ndev, registered>>
  BY DEF Callers, Interrupt, WorkDone, Transmit, Open, Release, netVars, cardVars
<1>2. TypeOK'
  BY <1>1 DEF IInv, TypeOK, Callers, Interrupt, WorkDone, Transmit, Open, Release
<1>3. BusHeld' /\ CardHeld' /\ CardGone'
  BY <1>1 DEF IInv, BusHeld, CardHeld, CardGone, Late
<1>4. Entrances'
  <2>1. "card" \in work' => "irq" \in held \/ pc \in {"rm_unmap", "rm_buffers", "rm_card"}
    BY DEF IInv, Entrances, Callers, Interrupt, WorkDone, Transmit, Open, Release
  <2>2. files' # {} /\ ~Unbind => pc \in {"class", "bound"}
    BY DEF IInv, Entrances, CardGone, Callers, Interrupt, WorkDone, Transmit, Open, Release
  <2>3. "rx" \in armed' => "rx" \in armed
    BY DEF Callers, Interrupt, WorkDone, Transmit, Open, Release
  <2> QED
    BY <1>1, <2>1, <2>2, <2>3 DEF IInv, Entrances, Late
<1> QED
  BY <1>2, <1>3, <1>4 DEF IInv

(* nf10_probe, step by step: each finds what the earlier ones have set up, *)
(* or goes to the label that undoes just that.                             *)
LEMMA ProbeStep == IInv /\ Probe => IInv'
<1>. SUFFICES ASSUME IInv, Probe PROVE IInv'
  OBVIOUS
<1>. USE LifecycleAssumption
     DEF IInv, FromIrq, FromWq, FromDne, FromDsc, FromCfg, Entered, WithCard, Late,
         WithoutMsi, WithoutRegion0, WithoutRegion2, ProbeSteps, Ladder, RemoveSteps,
         Resources, Regions, Rings, DneBufs, Books, CharDev, callVars, netVars, cardVars
<1>1. CASE EnableDevice
  <2>1. /\ pc = "unbound"
        /\ \/ pc' = "msi" /\ held' = held \cup {"device"}
           \/ pc' = "unbound" /\ held' = held
    BY <1>1, TryOne DEF EnableDevice
  <2>2. TypeOK'
    BY <1>1, <2>1 DEF EnableDevice, TypeOK
  <2>3. BusHeld'
    BY <1>1, <2>1 DEF EnableDevice, BusHeld
  <2>4. CardHeld'
    BY <1>1, <2>1 DEF EnableDevice, CardHeld, Entrances
  <2>5. CardGone'
    BY <1>1, <2>1 DEF EnableDevice, CardGone, Entrances
  <2>6. Entrances'
    BY <1>1, <2>1 DEF EnableDevice, Entrances, CardHeld, CardGone
  <2> QED
    BY <2>2, <2>3, <2>4, <2>5, <2>6 DEF IInv
<1>2. CASE EnableMsi
  <2>1. /\ pc = "msi"
        /\ \/ pc' = "region0" /\ held' = held \cup {"msi"}
           \/ pc' = "err_out_disable_device" /\ held' = held
    BY <1>2, TryOne DEF EnableMsi
  <2>2. TypeOK'
    BY <1>2, <2>1 DEF EnableMsi, TypeOK
  <2>3. BusHeld'
    BY <1>2, <2>1 DEF EnableMsi, BusHeld
  <2>4. CardHeld'
    BY <1>2, <2>1 DEF EnableMsi, CardHeld, Entrances
  <2>5. CardGone'
    BY <1>2, <2>1 DEF EnableMsi, CardGone, Entrances
  <2>6. Entrances'
    BY <1>2, <2>1 DEF EnableMsi, Entrances, CardHeld, CardGone
  <2> QED
    BY <2>2, <2>3, <2>4, <2>5, <2>6 DEF IInv
<1>3. CASE RequestRegion0
  <2>1. /\ pc = "region0"
        /\ \/ pc' = "region2" /\ held' = held \cup {"region0"}
           \/ pc' = "err_out_msi" /\ held' = held
    BY <1>3, TryOne DEF RequestRegion0
  <2>2. TypeOK'
    BY <1>3, <2>1 DEF RequestRegion0, TypeOK
  <2>3. BusHeld'
    BY <1>3, <2>1 DEF RequestRegion0, BusHeld
  <2>4. CardHeld'
    BY <1>3, <2>1 DEF RequestRegion0, CardHeld, Entrances
  <2>5. CardGone'
    BY <1>3, <2>1 DEF RequestRegion0, CardGone, Entrances
  <2>6. Entrances'
    BY <1>3, <2>1 DEF RequestRegion0, Entrances, CardHeld, CardGone
  <2> QED
    BY <2>2, <2>3, <2>4, <2>5, <2>6 DEF IInv
<1>4. CASE RequestRegion2
  <2>1. /\ pc = "region2"
        /\ \/ pc' = "card" /\ held' = held \cup {"region2"}
           \/ pc' = "err_out_release_mem_region1" /\ held' = held
    BY <1>4, TryOne DEF RequestRegion2
  <2>2. TypeOK'
    BY <1>4, <2>1 DEF RequestRegion2, TypeOK
  <2>3. BusHeld'
    BY <1>4, <2>1 DEF RequestRegion2, BusHeld
  <2>4. CardHeld'
    BY <1>4, <2>1 DEF RequestRegion2, CardHeld, Entrances
  <2>5. CardGone'
    BY <1>4, <2>1 DEF RequestRegion2, CardGone, Entrances
  <2>6. Entrances'
    BY <1>4, <2>1 DEF RequestRegion2, Entrances, CardHeld, CardGone
  <2> QED
    BY <2>2, <2>3, <2>4, <2>5, <2>6 DEF IInv
<1>5. CASE AllocCard
  <2>1. /\ pc = "card"
        /\ \/ pc' = "cfg" /\ held' = held \cup {"card"}
           \/ pc' = "err_out_release_mem_region2" /\ held' = held
    BY <1>5, TryOne DEF AllocCard
  <2>2. TypeOK'
    BY <1>5, <2>1 DEF AllocCard, TypeOK
  <2>3. BusHeld'
    BY <1>5, <2>1 DEF AllocCard, BusHeld
  <2>4. CardHeld'
    BY <1>5, <2>1 DEF AllocCard, CardHeld, Entrances
  <2>5. CardGone'
    BY <1>5, <2>1 DEF AllocCard, CardGone, Entrances
  <2>6. Entrances'
    BY <1>5, <2>1 DEF AllocCard, Entrances, CardHeld, CardGone
  <2> QED
    BY <2>2, <2>3, <2>4, <2>5, <2>6 DEF IInv
<1>6. CASE MapConfig
  <2>1. /\ pc = "cfg"
        /\ \/ pc' = "dsc" /\ held' = held \cup {"cfg_addr"}
           \/ pc' = "err_out_iounmap" /\ held' = held
    BY <1>6, TryOne DEF MapConfig
  <2>2. TypeOK'
    BY <1>6, <2>1 DEF MapConfig, TypeOK
  <2>3. BusHeld'
    BY <1>6, <2>1 DEF MapConfig, BusHeld
  <2>4. CardHeld'
    BY <1>6, <2>1 DEF MapConfig, CardHeld, Entrances
  <2>5. CardGone'
    BY <1>6, <2>1 DEF MapConfig, CardGone, Entrances
  <2>6. Entrances'
    BY <1>6, <2>1 DEF MapConfig, Entrances, CardHeld, CardGone
  <2> QED
    BY <2>2, <2>3, <2>4, <2>5, <2>6 DEF IInv
<1>7. CASE MapRings
  <2>1. /\ pc = "dsc"
        /\ \/ pc' = "dne" /\ held' = held \cup {"tx_dsc", "rx_dsc"}
           \/ /\ pc' = "err_out_iounmap"
              /\ held' \in {held, held \cup {"tx_dsc"}, held \cup {"rx_dsc"}}
    BY <1>7, TryTwo DEF MapRings
  <2>2. TypeOK'
    BY <1>7, <2>1 DEF MapRings, TypeOK
  <2>3. BusHeld'
    BY <1>7, <2>1 DEF MapRings, BusHeld
  <2>4. CardHeld'
    BY <1>7, <2>1 DEF MapRings, CardHeld, Entrances
  <2>5. CardGone'
    BY <1>7, <2>1 DEF MapRings, CardGone, Entrances
  <2>6. Entrances'
    BY <1>7, <2>1 DEF MapRings, Entrances, CardHeld, CardGone
  <2> QED
    BY <2>2, <2>3, <2>4, <2>5, <2>6 DEF IInv
<1>8. CASE AllocCompletionBuffers
  <2>1. /\ pc = "dne"
        /\ \/ pc' = "wq" /\ held' = held \cup {"tx_dne", "rx_dne"}
           \/ /\ pc' = "err_out_free_private2"
              /\ held' \in {held, held \cup {"tx_dne"}, held \cup {"rx_dne"}}
    BY <1>8, TryTwo DEF AllocCompletionBuffers
  <2>2. TypeOK'
    BY <1>8, <2>1 DEF AllocCompletionBuffers, TypeOK
  <2>3. BusHeld'
    BY <1>8, <2>1 DEF AllocCompletionBuffers, BusHeld
  <2>4. CardHeld'
    BY <1>8, <2>1 DEF AllocCompletionBuffers, CardHeld, Entrances
  <2>5. CardGone'
    BY <1>8, <2>1 DEF AllocCompletionBuffers, CardGone, Entrances
  <2>6. Entrances'
    BY <1>8, <2>1 DEF AllocCompletionBuffers, Entrances, CardHeld, CardGone
  <2> QED
    BY <2>2, <2>3, <2>4, <2>5, <2>6 DEF IInv
<1>9. CASE CreateWorkqueue
  <2>1. TypeOK'
    BY <1>9 DEF CreateWorkqueue, TypeOK
  <2>2. BusHeld'
    BY <1>9 DEF CreateWorkqueue, BusHeld
  <2>3. CardHeld'
    BY <1>9 DEF CreateWorkqueue, CardHeld, Entrances
  <2>4. CardGone'
    BY <1>9 DEF CreateWorkqueue, CardGone, Entrances
  <2>5. Entrances'
    BY <1>9 DEF CreateWorkqueue, Entrances, CardHeld, CardGone
  <2> QED
    BY <2>1, <2>2, <2>3, <2>4, <2>5 DEF IInv
<1>10. CASE AllocBookkeeping
  <2>1. /\ pc = "bk"
        /\ \/ pc' = "irq" /\ held' = held \cup {"tx_bk", "rx_bk"}
           \/ /\ pc' = "err_out_free_private2"
              /\ held' \in {held, held \cup {"tx_bk"}, held \cup {"rx_bk"}}
    BY <1>10, TryTwo DEF AllocBookkeeping
  <2>2. TypeOK'
    BY <1>10, <2>1 DEF AllocBookkeeping, TypeOK
  <2>3. BusHeld'
    BY <1>10, <2>1 DEF AllocBookkeeping, BusHeld
  <2>4. CardHeld'
    BY <1>10, <2>1 DEF AllocBookkeeping, CardHeld, Entrances
  <2>5. CardGone'
    BY <1>10, <2>1 DEF AllocBookkeeping, CardGone, Entrances
  <2>6. Entrances'
    BY <1>10, <2>1 DEF AllocBookkeeping, Entrances, CardHeld, CardGone
  <2> QED
    BY <2>2, <2>3, <2>4, <2>5, <2>6 DEF IInv
<1>11. CASE RequestIrq
  <2>1. /\ pc = "irq"
        /\ \/ pc' = "ndev" /\ held' = held \cup {"irq"}
           \/ pc' = "err_out_free_private2" /\ held' = held
    BY <1>11, TryOne DEF RequestIrq
  <2>2. TypeOK'
    BY <1>11, <2>1 DEF RequestIrq, TypeOK
  <2>3. BusHeld'
    BY <1>11, <2>1 DEF RequestIrq, BusHeld
  <2>4. CardHeld'
    BY <1>11, <2>1 DEF RequestIrq, CardHeld, Entrances
  <2>5. CardGone'
    BY <1>11, <2>1 DEF RequestIrq, CardGone, Entrances
  <2>6. Entrances'
    BY <1>11, <2>1 DEF RequestIrq, Entrances, CardHeld, CardGone
  <2> QED
    BY <2>2, <2>3, <2>4, <2>5, <2>6 DEF IInv
<1>12. CASE PostRxDescriptors
  <2>1. TypeOK'
    BY <1>12 DEF PostRxDescriptors, TypeOK
  <2>2. BusHeld'
    BY <1>12 DEF PostRxDescriptors, BusHeld
  <2>3. CardHeld'
    BY <1>12 DEF PostRxDescriptors, CardHeld, Entrances
  <2>4. CardGone'
    BY <1>12 DEF PostRxDescriptors, CardGone, Entrances
  <2>5. Entrances'
    BY <1>12 DEF PostRxDescriptors, Entrances, CardHeld, CardGone
  <2> QED
    BY <2>1, <2>2, <2>3, <2>4, <2>5 DEF IInv
<1>13. CASE AllocChrdev
  <2>1. /\ pc = "chrdev"
        /\ \/ pc' = "cdev" /\ held' = held \cup {"chrdev"}
           \/ pc' = "err_out_free_private2" /\ held' = held
    BY <1>13, TryOne DEF AllocChrdev
  <2>2. TypeOK'
    BY <1>13, <2>1 DEF AllocChrdev, TypeOK
  <2>3. BusHeld'
    BY <1>13, <2>1 DEF AllocChrdev, BusHeld
  <2>4. CardHeld'
    BY <1>13, <2>1 DEF AllocChrdev, CardHeld, Entrances
  <2>5. CardGone'
    BY <1>13, <2>1 DEF AllocChrdev, CardGone, Entrances
  <2>6. Entrances'
    BY <1>13, <2>1 DEF AllocChrdev, Entrances, CardHeld, CardGone
  <2> QED
    BY <2>2, <2>3, <2>4, <2>5, <2>6 DEF IInv
<1>14. CASE AddCdev
  <2>1. /\ pc = "cdev"
        /\ \/ pc' = "class" /\ held' = held \cup {"cdev"}
           \/ pc' = "err_out_free_private2" /\ held' = held
    BY <1>14, TryOne DEF AddCdev
  <2>2. TypeOK'
    BY <1>14, <2>1 DEF AddCdev, TypeOK
  <2>3. BusHeld'
    BY <1>14, <2>1 DEF AddCdev, BusHeld
  <2>4. CardHeld'
    BY <1>14, <2>1 DEF AddCdev, CardHeld, Entrances
  <2>5. CardGone'
    BY <1>14, <2>1 DEF AddCdev, CardGone, Entrances
  <2>6. Entrances'
    BY <1>14, <2>1 DEF AddCdev, Entrances, CardHeld, CardGone
  <2> QED
    BY <2>2, <2>3, <2>4, <2>5, <2>6 DEF IInv
<1>15. CASE CreateClass
  <2>1. /\ pc = "class"
        /\ \/ pc' = "bound" /\ held' = held \cup {"class"}
           \/ pc' = "bound" /\ held' = held
    BY <1>15, TryOne DEF CreateClass
  <2>2. TypeOK'
    BY <1>15, <2>1 DEF CreateClass, TypeOK
  <2>3. BusHeld'
    BY <1>15, <2>1 DEF CreateClass, BusHeld
  <2>4. CardHeld'
    BY <1>15, <2>1 DEF CreateClass, CardHeld, Entrances
  <2>5. CardGone'
    BY <1>15, <2>1 DEF CreateClass, CardGone, Entrances
  <2>6. Entrances'
    BY <1>15, <2>1 DEF CreateClass, Entrances, CardHeld, CardGone
  <2> QED
    BY <2>2, <2>3, <2>4, <2>5, <2>6 DEF IInv
<1>16. ASSUME NEW i \in Ports, AllocNetdev(i) PROVE IInv'
  <2>1. TypeOK'
    BY <1>16 DEF AllocNetdev, Ports, TypeOK
  <2>2. BusHeld'
    BY <1>16 DEF AllocNetdev, Ports, BusHeld
  <2>3. CardHeld'
    BY <1>16 DEF AllocNetdev, Ports, CardHeld, Entrances
  <2>4. CardGone'
    BY <1>16 DEF AllocNetdev, Ports, CardGone, Entrances
  <2>5. Entrances'
    <3>1. i = NPorts - 1 /\ ndev = 0..(i - 1) => ndev \cup {i} = Ports
      BY DEF Ports
    <3>2. pc' = "rx" => ndev' = Ports
      BY <1>16, <3>1 DEF AllocNetdev
    <3> QED
      BY <1>16, <3>2 DEF AllocNetdev, Entrances
  <2> QED
    BY <2>1, <2>2, <2>3, <2>4, <2>5 DEF IInv
<1> QED
  BY <1>1, <1>2, <1>3, <1>4, <1>5, <1>6, <1>7, <1>8, <1>9, <1>10, <1>11, <1>12, <1>13,
     <1>14, <1>15, <1>16 DEF Probe

(* The labels of nf10_probe (lines 292-317).                               *)
LEMMA UnwindStep == IInv /\ Unwind => IInv'
<1>. SUFFICES ASSUME IInv, Unwind PROVE IInv'
  OBVIOUS
<1>. USE LifecycleAssumption
     DEF IInv, FromIrq, FromWq, FromDne, FromDsc, FromCfg, Entered, WithCard, Late,
         WithoutMsi, WithoutRegion0, WithoutRegion2, ProbeSteps, Ladder, RemoveSteps,
         Resources, Regions, Rings, DneBufs, Books, CharDev, callVars, netVars, cardVars
<1>1. CASE NetdevsUndone
  <2>1. TypeOK'
    BY <1>1 DEF NetdevsUndone, Undo, TypeOK
  <2>2. BusHeld'
    BY <1>1 DEF NetdevsUndone, Undo, BusHeld
  <2>3. CardHeld'
    BY <1>1 DEF NetdevsUndone, Undo, CardHeld, Entrances
  <2>4. CardGone'
    BY <1>1 DEF NetdevsUndone, Undo, CardGone, Entrances
  <2>5. Entrances'
    BY <1>1 DEF NetdevsUndone, Undo, Entrances, CardHeld, CardGone
  <2> QED
    BY <2>1, <2>2, <2>3, <2>4, <2>5 DEF IInv
<1>2. CASE FreePrivate
  <2>1. TypeOK'
    BY <1>2 DEF FreePrivate, Undo, TypeOK
  <2>2. BusHeld'
    BY <1>2 DEF FreePrivate, Undo, BusHeld
  <2>3. CardHeld'
    BY <1>2 DEF FreePrivate, Undo, CardHeld, Entrances
  <2>4. CardGone'
    BY <1>2 DEF FreePrivate, Undo, CardGone, Entrances
  <2>5. Entrances'
    BY <1>2 DEF FreePrivate, Undo, Entrances, CardHeld, CardGone
  <2> QED
    BY <2>1, <2>2, <2>3, <2>4, <2>5 DEF IInv
<1>3. CASE UnmapAndFreeCard
  <2>1. TypeOK'
    BY <1>3 DEF UnmapAndFreeCard, Undo, ForgetCard, TypeOK
  <2>2. BusHeld'
    BY <1>3 DEF UnmapAndFreeCard, Undo, ForgetCard, BusHeld
  <2>3. CardHeld'
    BY <1>3 DEF UnmapAndFreeCard, Undo, ForgetCard, CardHeld, Entrances
  <2>4. CardGone'
    BY <1>3 DEF UnmapAndFreeCard, Undo, ForgetCard, CardGone, Entrances
  <2>5. Entrances'
    BY <1>3 DEF UnmapAndFreeCard, Undo, ForgetCard, Entrances, CardHeld, CardGone
  <2> QED
    BY <2>1, <2>2, <2>3, <2>4, <2>5 DEF IInv
<1>4. CASE ReleaseRegion2
  <2>1. TypeOK'
    BY <1>4 DEF ReleaseRegion2, Undo, TypeOK
  <2>2. BusHeld'
    BY <1>4 DEF ReleaseRegion2, Undo, BusHeld
  <2>3. CardHeld'
    BY <1>4 DEF ReleaseRegion2, Undo, CardHeld, Entrances
  <2>4. CardGone'
    BY <1>4 DEF ReleaseRegion2, Undo, CardGone, Entrances
  <2>5. Entrances'
    BY <1>4 DEF ReleaseRegion2, Undo, Entrances, CardHeld, CardGone
  <2> QED
    BY <2>1, <2>2, <2>3, <2>4, <2>5 DEF IInv
<1>5. CASE ReleaseRegion0
  <2>1. TypeOK'
    BY <1>5 DEF ReleaseRegion0, Undo, TypeOK
  <2>2. BusHeld'
    BY <1>5 DEF ReleaseRegion0, Undo, BusHeld
  <2>3. CardHeld'
    BY <1>5 DEF ReleaseRegion0, Undo, CardHeld, Entrances
  <2>4. CardGone'
    BY <1>5 DEF ReleaseRegion0, Undo, CardGone, Entrances
  <2>5. Entrances'
    BY <1>5 DEF ReleaseRegion0, Undo, Entrances, CardHeld, CardGone
  <2> QED
    BY <2>1, <2>2, <2>3, <2>4, <2>5 DEF IInv
<1>6. CASE DisableMsi
  <2>1. TypeOK'
    BY <1>6 DEF DisableMsi, Undo, TypeOK
  <2>2. BusHeld'
    BY <1>6 DEF DisableMsi, Undo, BusHeld
  <2>3. CardHeld'
    BY <1>6 DEF DisableMsi, Undo, CardHeld, Entrances
  <2>4. CardGone'
    BY <1>6 DEF DisableMsi, Undo, CardGone, Entrances
  <2>5. Entrances'
    BY <1>6 DEF DisableMsi, Undo, Entrances, CardHeld, CardGone
  <2> QED
    BY <2>1, <2>2, <2>3, <2>4, <2>5 DEF IInv
<1>7. CASE DisableDevice
  <2>1. TypeOK'
    BY <1>7 DEF DisableDevice, Undo, TypeOK
  <2>2. BusHeld'
    BY <1>7 DEF DisableDevice, Undo, BusHeld
  <2>3. CardHeld'
    BY <1>7 DEF DisableDevice, Undo, CardHeld, Entrances
  <2>4. CardGone'
    BY <1>7 DEF DisableDevice, Undo, CardGone, Entrances
  <2>5. Entrances'
    BY <1>7 DEF DisableDevice, Undo, Entrances, CardHeld, CardGone
  <2> QED
    BY <2>1, <2>2, <2>3, <2>4, <2>5 DEF IInv
<1>8. ASSUME NEW i \in Ports, FreeNetdev(i) PROVE IInv'
  <2>1. TypeOK'
    BY <1>8 DEF FreeNetdev, Ports, TypeOK
  <2>2. BusHeld'
    BY <1>8 DEF FreeNetdev, Ports, BusHeld
  <2>3. CardHeld'
    BY <1>8 DEF FreeNetdev, Ports, CardHeld, Entrances
  <2>4. CardGone'
    BY <1>8 DEF FreeNetdev, Ports, CardGone, Entrances
  <2>5. Entrances'
    BY <1>8 DEF FreeNetdev, Ports, Entrances, CardHeld, CardGone
  <2> QED
    BY <2>1, <2>2, <2>3, <2>4, <2>5 DEF IInv
<1> QED
  BY <1>1, <1>2, <1>3, <1>4, <1>5, <1>6, <1>7, <1>8 DEF Unwind

(* nf10_remove, which only waits for the open files. *)
LEMMA RemoveStep == IInv /\ Remove => IInv'
<1>. SUFFICES ASSUME IInv, Remove PROVE IInv'
  OBVIOUS
<1>. USE LifecycleAssumption
     DEF IInv, FromIrq, FromWq, FromDne, FromDsc, FromCfg, Entered, WithCard, Late,
         WithoutMsi, WithoutRegion0, WithoutRegion2, ProbeSteps, Ladder, RemoveSteps,
         Resources, Regions, Rings, DneBufs, Books, CharDev, callVars, netVars, cardVars
<1>1. CASE RemoveFops
  <2>1. TypeOK'
    BY <1>1 DEF RemoveFops, Undo, TypeOK
  <2>2. BusHeld'
    BY <1>1 DEF RemoveFops, Undo, BusHeld
  <2>3. CardHeld'
    BY <1>1 DEF RemoveFops, Undo, CardHeld, Entrances
  <2>4. CardGone'
    BY <1>1 DEF RemoveFops, Undo, CardGone, Entrances
  <2>5. Entrances'
    BY <1>1 DEF RemoveFops, Undo, Entrances, CardHeld, CardGone
  <2> QED
    BY <2>1, <2>2, <2>3, <2>4, <2>5 DEF IInv
<1>2. CASE RemoveIrq
  <2>1. TypeOK'
    BY <1>2 DEF RemoveIrq, Undo, TypeOK
  <2>2. BusHeld'
    BY <1>2 DEF RemoveIrq, Undo, BusHeld
  <2>3. CardHeld'
    BY <1>2 DEF RemoveIrq, Undo, CardHeld, Entrances
  <2>4. CardGone'
    BY <1>2 DEF RemoveIrq, Undo, CardGone, Entrances
  <2>5. Entrances'
    BY <1>2 DEF RemoveIrq, Undo, Entrances, CardHeld, CardGone
  <2> QED
    BY <2>1, <2>2, <2>3, <2>4, <2>5 DEF IInv
<1>3. CASE RemoveMaps
  <2>1. TypeOK'
    BY <1>3 DEF RemoveMaps, Undo, TypeOK
  <2>2. BusHeld'
    BY <1>3 DEF RemoveMaps, Undo, BusHeld
  <2>3. CardHeld'
    BY <1>3 DEF RemoveMaps, Undo, CardHeld, Entrances
  <2>4. CardGone'
    BY <1>3 DEF RemoveMaps, Undo, CardGone, Entrances
  <2>5. Entrances'
    BY <1>3 DEF RemoveMaps, Undo, Entrances, CardHeld, CardGone
  <2> QED
    BY <2>1, <2>2, <2>3, <2>4, <2>5 DEF IInv
<1>4. CASE RemoveBuffers
  <2>1. TypeOK'
    BY <1>4 DEF RemoveBuffers, Undo, TypeOK
  <2>2. BusHeld'
    BY <1>4 DEF RemoveBuffers, Undo, BusHeld
  <2>3. CardHeld'
    BY <1>4 DEF RemoveBuffers, Undo, CardHeld, Entrances
  <2>4. CardGone'
    BY <1>4 DEF RemoveBuffers, Undo, CardGone, Entrances
  <2>5. Entrances'
    BY <1>4 DEF RemoveBuffers, Undo, Entrances, CardHeld, CardGone
  <2> QED
    BY <2>1, <2>2, <2>3, <2>4, <2>5 DEF IInv
<1>5. CASE RemoveCard
  <2>1. TypeOK'
    BY <1>5 DEF RemoveCard, Undo, ForgetCard, TypeOK
  <2>2. BusHeld'
    BY <1>5 DEF RemoveCard, Undo, ForgetCard, BusHeld
  <2>3. CardHeld'
    BY <1>5 DEF RemoveCard, Undo, ForgetCard, CardHeld, Entrances
  <2>4. CardGone'
    BY <1>5 DEF RemoveCard, Undo, ForgetCard, CardGone, Entrances
  <2>5. Entrances'
    BY <1>5 DEF RemoveCard, Undo, ForgetCard, Entrances, CardHeld, CardGone
  <2> QED
    BY <2>1, <2>2, <2>3, <2>4, <2>5 DEF IInv
<1>6. CASE RemoveRegions
  <2>1. TypeOK'
    BY <1>6 DEF RemoveRegions, Undo, TypeOK
  <2>2. BusHeld'
    BY <1>6 DEF RemoveRegions, Undo, BusHeld
  <2>3. CardHeld'
    BY <1>6 DEF RemoveRegions, Undo, CardHeld, Entrances
  <2>4. CardGone'
    BY <1>6 DEF RemoveRegions, Undo, CardGone, Entrances
  <2>5. Entrances'
    BY <1>6 DEF RemoveRegions, Undo, Entrances, CardHeld, CardGone
  <2> QED
    BY <2>1, <2>2, <2>3, <2>4, <2>5 DEF IInv
<1>7. CASE RemoveDevice
  <2>1. TypeOK'
    BY <1>7 DEF RemoveDevice, Undo, TypeOK
  <2>2. BusHeld'
    BY <1>7 DEF RemoveDevice, Undo, BusHeld
  <2>3. CardHeld'
    BY <1>7 DEF RemoveDevice, Undo, CardHeld, Entrances
  <2>4. CardGone'
    BY <1>7 DEF RemoveDevice, Undo, CardGone, Entrances
  <2>5. Entrances'
    BY <1>7 DEF RemoveDevice, Undo, Entrances, CardHeld, CardGone
  <2> QED
    BY <2>1, <2>2, <2>3, <2>4, <2>5 DEF IInv
<1> QED
  BY <1>1, <1>2, <1>3, <1>4, <1>5, <1>6, <1>7 DEF Remove

(* Every step keeps the invariant. *)
LEMMA StepOK == IInv /\ [Next]_vars => IInv'
<1>. SUFFICES ASSUME IInv, [Next]_vars PROVE IInv'
  OBVIOUS
<1>1. CASE UNCHANGED vars
  BY <1>1 DEF vars, netVars, callVars, cardVars, IInv, TypeOK, BusHeld, CardHeld, CardGone,
     Entrances, Late
<1>2. CASE Next
  BY <1>2, ProbeStep, UnwindStep, RemoveStep, CallersStep DEF Next
<1> QED
  BY <1>1, <1>2

(* What the run checks follows: with the interrupt registered and nothing  *)
(* given back yet, all that the callers use is there;                      *)
LEMMA CallersBacked == IInv => EntryPointsBacked
<1>. SUFFICES ASSUME IInv PROVE EntryPointsBacked
  OBVIOUS
<1>. USE DEF IInv, FromIrq, FromWq, FromDne, FromDsc, FromCfg, Entered
<1>1. "irq" \in held /\ ~Abandoned => pc \in Entered \/ Late
  BY DEF Entrances, Abandoned, Late
<1>2. pc \in FromIrq \/ Late =>
          /\ NeededToWork \subseteq held /\ NeededToSend \subseteq held
          /\ NeededToIoctl \subseteq held /\ drvdata /\ cardWq # "null"
  BY DEF CardHeld, NeededToWork, NeededToSend, NeededToIoctl, Rings, DneBufs, Books, WithCard, Late
<1>3. "card" \in work /\ ~Abandoned /\ ~TakenDown => pc \in FromIrq \/ Late
  BY <1>1 DEF Entrances, TakenDown
<1>4. "rx" \in armed /\ "irq" \in held /\ ~Abandoned /\ pc # "rm_ndev" => ndev = Ports
  BY <1>1 DEF Entrances
<1>5. registered # {} => "irq" \in held
  BY DEF Entrances, TypeOK
<1>6. ("cdev" \in held => pc \in FromIrq) /\ (files # {} /\ ~Unbind => pc \in FromIrq)
  BY DEF Entrances, CardGone
<1>7. "card" \in NeededToWork
  BY DEF NeededToWork
<1> QED
  BY <1>1, <1>2, <1>3, <1>4, <1>5, <1>6, <1>7 DEF EntryPointsBacked

(* and at a label, or a part of nf10_remove, what it gives back.           *)
LEMMA BackOnce == IInv => GivenBackOnce
<1>. SUFFICES ASSUME IInv PROVE GivenBackOnce
  OBVIOUS
<1>. USE DEF IInv, FromIrq, FromWq, FromDne, FromDsc, FromCfg, Entered, WithCard,
             WithoutMsi, WithoutRegion0, WithoutRegion2, Rings, DneBufs, Books, Regions
<1>1. GivenBack(pc) \subseteq held
  BY DEF GivenBack, BusHeld, CardHeld, Entrances
<1>2. ASSUME pc = "unbound", "irq" \notin held
      PROVE  held \subseteq {"rx_skb", "wq"}
  BY <1>2 DEF TypeOK, BusHeld, CardHeld, CardGone, Entrances, Resources, CharDev
<1>3. ASSUME pc = "unbound", "irq" \notin held
      PROVE  ndev = {} /\ ~drvdata /\ cardWq = "null" /\ (files = {} \/ Unbind)
  BY <1>3 DEF CardGone, Entrances
<1> QED
  BY <1>1, <1>2, <1>3 DEF GivenBackOnce

(* The state of the driver core, the card's resources and the callers      *)
(* keeps its types (nf10_probe, nf10_remove).                              *)
THEOREM TypeCorrect == Spec => []TypeOK
<1>1. Init => IInv
  BY InitOK
<1>2. IInv /\ [Next]_vars => IInv'
  BY StepOK
<1>3. IInv => TypeOK
  BY DEF IInv
<1> QED
  BY <1>1, <1>2, <1>3, PTL DEF Spec

(* The interrupt, the work it queues, the network stack and the processes  *)
(* with /dev/nf10 open find what they use (nf10driver.c, lines 272, 279    *)
(* and 330-331), outside the windows that EntryPointsBacked names: the     *)
(* labels from err_out_iounmap on after a failure that comes after         *)
(* request_irq, and in nf10_remove work still to be done when it unmaps.   *)
THEOREM EntryPointsAreBacked == Spec => []EntryPointsBacked
<1>1. Init => IInv
  BY InitOK
<1>2. IInv /\ [Next]_vars => IInv'
  BY StepOK
<1>3. IInv => EntryPointsBacked
  BY CallersBacked
<1> QED
  BY <1>1, <1>2, <1>3, PTL DEF Spec

(* The ladder of nf10_probe and nf10_remove give back what is there, and   *)
(* all of it but posted packets and work queues, unless the probe failed   *)
(* after request_irq (nf10driver.c, lines 292-317 and 330-363).            *)
THEOREM ResourcesAreGivenBackOnce == Spec => []GivenBackOnce
<1>1. Init => IInv
  BY InitOK
<1>2. IInv /\ [Next]_vars => IInv'
  BY StepOK
<1>3. IInv => GivenBackOnce
  BY BackOnce
<1> QED
  BY <1>1, <1>2, <1>3, PTL DEF Spec

-----------------------------------------------------------------------------
(* Nf10Device                                                              *)

Labels == {"idle", "test", "write", "reset"}

OnTheWay == Axi!OnTheWay

(* The count never exceeds the buffer it stands for, and while it is sure  *)
(* it covers what is in the buffer and on the way to it.                   *)
Counted ==
    /\ axi_wr_cnt \in 0..Depth /\ fill \in 0..Depth
    /\ fpc \in [Files -> Labels]
    /\ sure \in BOOLEAN
    /\ sure => fill + Cardinality(OnTheWay) <= axi_wr_cnt

LEMMA OnTheWayFinite == IsFiniteSet(OnTheWay) /\ Cardinality(OnTheWay) \in Nat
<1>1. OnTheWay \subseteq Files
  BY DEF OnTheWay, Axi!OnTheWay
<1>2. IsFiniteSet(OnTheWay)
  BY <1>1, FS_Subset, LifecycleAssumption
<1> QED
  BY <1>2, FS_CardinalityType

(* A step of one process changes what is on the way by that process only.  *)
LEMMA GotoMoves ==
    ASSUME Counted, NEW f \in Files, NEW label \in Labels, Axi!Goto(f, label)
    PROVE  /\ fpc' \in [Files -> Labels]
           /\ OnTheWay' = IF label \in {"test", "write"} THEN OnTheWay \cup {f}
                                                          ELSE OnTheWay \ {f}
<1>1. fpc' = [fpc EXCEPT ![f] = label] /\ fpc \in [Files -> Labels]
  BY DEF Counted, Axi!Goto
<1>2. fpc' \in [Files -> Labels]
  BY <1>1
<1>3. \A p \in Files : fpc'[p] = IF p = f THEN label ELSE fpc[p]
  BY <1>1
<1>4. OnTheWay' = {p \in Files : fpc'[p] \in {"test", "write"}}
  BY DEF OnTheWay, Axi!OnTheWay
<1> QED
  BY <1>2, <1>3, <1>4 DEF OnTheWay, Axi!OnTheWay

(* CountOfStatus (nf10fops.c, lines 67-101) stays within the buffer, and   *)
(* has room for one more write if the buffer is not almost full.           *)
LEMMA StatusCovers ==
    ASSUME fill \in 0..Depth
    PROVE  /\ Axi!CountOfStatus \in 0..Depth
           /\ fill <= Almost => fill + 1 <= Axi!CountOfStatus
<1>. USE AxiAssumption
<1>1. Axi!Complemented(0) /\ Axi!Complemented(2)
  BY DEF Axi!Complemented
<1>2. CASE fill = 0
  BY <1>2 DEF Axi!CountOfStatus, Axi!Bit
<1>3. CASE fill # 0
  <2>1. Axi!CountOfStatus = Almost + 1
    BY <1>1, <1>3 DEF Axi!CountOfStatus, Axi!Bit
  <2> QED
    BY <2>1
<1> QED
  BY <1>2, <1>3

(* A new card has an empty buffer, and the count is zero.                  *)
LEMMA InitCounted == DeviceInit => Counted
<1>. SUFFICES ASSUME DeviceInit PROVE Counted
  OBVIOUS
<1>1. axi_wr_cnt = 0 /\ fill = 0 /\ fpc = [p \in Files |-> "idle"] /\ sure = TRUE
  BY DEF DeviceInit, Axi!Init
<1>2. OnTheWay = {}
  BY <1>1 DEF OnTheWay, Axi!OnTheWay
<1>3. Cardinality(OnTheWay) = 0
  BY <1>2, FS_EmptySet
<1> QED
  BY <1>1, <1>3, AxiAssumption DEF Counted, Labels

(* The lock section of a register write: one more is on the way.           *)
LEMMA RoomCounted == ASSUME Counted, NEW f \in Files, Axi!CheckRoom(f) PROVE Counted'
<1>. USE AxiAssumption
<1>1. Axi!Goto(f, "test") /\ fill' = fill /\ fpc[f] = "idle"
  BY DEF Axi!CheckRoom
<1>2. fpc' \in [Files -> Labels] /\ OnTheWay' = OnTheWay \cup {f}
  BY <1>1, GotoMoves DEF Labels
<1>3. f \notin OnTheWay
  BY <1>1 DEF OnTheWay, Axi!OnTheWay
<1>4. Cardinality(OnTheWay)' = Cardinality(OnTheWay) + 1
  BY <1>2, <1>3, OnTheWayFinite, FS_AddElement
<1>5. PICK n \in Nat : n = Cardinality(OnTheWay)
  BY OnTheWayFinite
<1>6. CASE axi_wr_cnt < Depth
  <2>1. axi_wr_cnt' = axi_wr_cnt + 1 /\ sure' = sure
    BY <1>6 DEF Axi!CheckRoom, Counted
  <2> QED
    BY <1>1, <1>2, <1>4, <1>5, <1>6, <2>1 DEF Counted
<1>7. CASE ~(axi_wr_cnt < Depth)
  <2>1. /\ axi_wr_cnt' = Axi!CountOfStatus
        /\ sure' = (fill <= Almost /\ OnTheWay = {}) /\ sure' \in BOOLEAN
    BY <1>7 DEF Axi!CheckRoom, OnTheWay
  <2>2. /\ Axi!CountOfStatus \in 0..Depth
        /\ fill <= Almost => fill + 1 <= Axi!CountOfStatus
    BY StatusCovers DEF Counted
  <2>3. OnTheWay = {} => n = 0
    BY <1>5, FS_EmptySet
  <2>4. ASSUME sure' PROVE fill' + Cardinality(OnTheWay)' <= axi_wr_cnt'
    <3>1. fill <= Almost /\ OnTheWay = {}
      BY <2>1, <2>4
    <3> QED
      BY <1>1, <1>4, <1>5, <2>1, <2>2, <2>3, <3>1 DEF Counted
  <2> QED
    BY <1>1, <1>2, <2>1, <2>2, <2>4 DEF Counted
<1> QED
  BY <1>6, <1>7

(* A write is issued, or given up: it is not on the way any more, and at   *)
(* most one more is in the buffer.                                         *)
LEMMA WriteCounted ==
    ASSUME Counted, NEW f \in Files, Axi!TestCount(f) \/ Axi!WriteReg(f)
    PROVE  Counted'
<1>. USE AxiAssumption
<1>1. axi_wr_cnt' = axi_wr_cnt /\ sure' = sure /\ f \in OnTheWay
  BY DEF Axi!TestCount, Axi!WriteReg, OnTheWay, Axi!OnTheWay
<1>2. CASE Axi!TestCount(f)
  <2>1. Axi!Goto(f, "write") /\ fill' = fill
    BY <1>2 DEF Axi!TestCount, Counted
  <2>2. fpc' \in [Files -> Labels] /\ OnTheWay' = OnTheWay
    BY <1>1, <2>1, GotoMoves DEF Labels
  <2> QED
    BY <1>1, <2>1, <2>2 DEF Counted
<1>3. CASE Axi!WriteReg(f)
  <2>1. Axi!Goto(f, "idle") /\ fill' = IF fill < Depth THEN fill + 1 ELSE fill
    BY <1>3 DEF Axi!WriteReg
  <2>2. fpc' \in [Files -> Labels] /\ OnTheWay' = OnTheWay \ {f}
    BY <2>1, GotoMoves DEF Labels
  <2>3. Cardinality(OnTheWay)' = Cardinality(OnTheWay) - 1
    BY <1>1, <2>2, OnTheWayFinite, FS_RemoveElement
  <2>4. PICK n \in Nat : n = Cardinality(OnTheWay)
    BY OnTheWayFinite
  <2> QED
    BY <1>1, <2>1, <2>2, <2>3, <2>4 DEF Counted
<1> QED
  BY <1>2, <1>3

(* Reading a register, and the reset of the count after it.                *)
LEMMA ReadCounted ==
    ASSUME Counted, NEW f \in Files, Axi!ReadReg(f) \/ Axi!ResetCount(f)
    PROVE  Counted'
<1>. USE AxiAssumption
<1>1. f \notin OnTheWay /\ fill' = fill
  BY DEF Axi!ReadReg, Axi!ResetCount, OnTheWay, Axi!OnTheWay
<1>2. CASE Axi!ReadReg(f)
  <2>1. Axi!Goto(f, "reset") /\ axi_wr_cnt' = axi_wr_cnt /\ sure' = sure
    BY <1>2 DEF Axi!ReadReg
  <2>2. fpc' \in [Files -> Labels] /\ OnTheWay' = OnTheWay
    BY <1>1, <2>1, GotoMoves DEF Labels
  <2> QED
    BY <1>1, <2>1, <2>2 DEF Counted
<1>3. CASE Axi!ResetCount(f)
  <2>1. /\ Axi!Goto(f, "idle") /\ axi_wr_cnt' = 0
        /\ sure' = (fill = 0 /\ OnTheWay = {}) /\ sure' \in BOOLEAN
    BY <1>3 DEF Axi!ResetCount, OnTheWay
  <2>2. fpc' \in [Files -> Labels] /\ OnTheWay' = OnTheWay
    BY <1>1, <2>1, GotoMoves DEF Labels
  <2>3. ASSUME sure' PROVE fill' + Cardinality(OnTheWay)' <= axi_wr_cnt'
    <3>1. fill = 0 /\ OnTheWay = {}
      BY <2>1, <2>3
    <3>2. Cardinality(OnTheWay) = 0
      BY <3>1, FS_EmptySet
    <3> QED
      BY <1>1, <2>1, <2>2, <3>1, <3>2
  <2> QED
    BY <1>1, <2>1, <2>2, <2>3 DEF Counted
<1> QED
  BY <1>2, <1>3

(* The card empties its buffer by itself, and perhaps when it is reset.    *)
LEMMA NextCounted == Counted /\ [DeviceNext]_<<vars, axiVars>> => Counted'
<1>. SUFFICES ASSUME Counted, [DeviceNext]_<<vars, axiVars>> PROVE Counted'
  OBVIOUS
<1>1. ASSUME fpc' = fpc PROVE OnTheWay' = OnTheWay
  BY <1>1 DEF OnTheWay, Axi!OnTheWay
<1>2. CASE Life \/ Drain \/ UNCHANGED <<vars, axiVars>>
  <2>1. axi_wr_cnt' = axi_wr_cnt /\ fpc' = fpc /\ sure' = sure
    BY <1>2 DEF Life, Drain, Axi!Drain, axiVars
  <2>2. fill' \in 0..Depth /\ fill' <= fill
    BY <1>2, AxiAssumption DEF Life, Drain, Axi!Drain, axiVars, Counted
  <2>3. PICK n \in Nat : n = Cardinality(OnTheWay)
    BY OnTheWayFinite
  <2>4. OnTheWay' = OnTheWay
    BY <1>1, <2>1
  <2> QED
    BY <2>1, <2>2, <2>3, <2>4 DEF Counted
<1>3. ASSUME NEW f \in Files, Ioctl(f) PROVE Counted'
  BY <1>3, RoomCounted, WriteCounted, ReadCounted DEF Ioctl
<1> QED
  BY <1>2, <1>3 DEF DeviceNext

(* The count of nf10fops.c, lines 58-124, covers the write buffer, also    *)
(* that of the next card, for any number of processes: from every setting  *)
(* of the count that nothing came in between until the next.               *)
THEOREM CountCoversBuffer == DeviceSpec => []CountCovers
<1>1. DeviceInit => Counted
  BY InitCounted
<1>2. Counted /\ [DeviceNext]_<<vars, axiVars>> => Counted'
  BY NextCounted
<1>3. Counted => CountCovers
  BY AxiAssumption DEF Counted, CountCovers, OnTheWay
<1> QED
  BY <1>1, <1>2, <1>3, PTL DEF DeviceSpec

(* "check for write buffer overflow" (nf10fops.c, line 59): while the      *)
(* count is sure, no write is issued to a buffer that is full.             *)
THEOREM BufferNeverOverflows == DeviceSpec => [](sure => NoOverflow)
<1>1. DeviceInit => Counted
  BY InitCounted
<1>2. Counted /\ [DeviceNext]_<<vars, axiVars>> => Counted'
  BY NextCounted
<1>3. Counted => (sure => NoOverflow)
  <2>. SUFFICES ASSUME Counted, sure, NEW f \in Files, fpc[f] = "write" PROVE fill < Depth
    BY DEF NoOverflow
  <2>1. f \in OnTheWay
    BY DEF OnTheWay, Axi!OnTheWay
  <2>2. PICK n \in Nat : n = Cardinality(OnTheWay)
    BY OnTheWayFinite
  <2>3. n # 0
    BY <2>1, <2>2, OnTheWayFinite, FS_EmptySet
  <2> QED
    BY <2>2, <2>3, AxiAssumption DEF Counted
<1> QED
  BY <1>1, <1>2, <1>3, PTL DEF DeviceSpec
=============================================================================
