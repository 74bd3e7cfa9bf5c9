----------------------------- MODULE Nf10Lifecycle -----------------------------
(***************************************************************************)
(* Setting the nf10 driver up and taking it down: nf10_probe and           *)
(* nf10_remove with the parts of nf10iface.c and nf10fops.c they call, and *)
(* the goto ladders of their error paths.                                  *)
(*                                                                         *)
(* While one thread of the driver core works through these functions the   *)
(* driver can already, or still, be entered by others: the interrupt, the  *)
(* work it queues, the network stack through a registered device, and a    *)
(* process through /dev/nf10.  What they do there is the subject of the    *)
(* other modules; here it matters what they need.                          *)
(***************************************************************************)
EXTENDS Integers, FiniteSets

CONSTANTS
    NPorts,        \* 4
    Files,         \* what processes may have open of /dev/nf10
    Unbind         \* the driver may be unbound while a file is open; rmmod,
                   \* the other way to nf10_remove, waits for the files, which
                   \* hold the module (.owner, nf10fops.c:22)

ASSUME LifecycleAssumption ==
    /\ NPorts \in Nat \ {0}
    /\ IsFiniteSet(Files)
    /\ Unbind \in BOOLEAN

Ports == 0..(NPorts - 1)

Regions  == {"region0", "region2"}
Rings    == {"tx_dsc", "rx_dsc"}
DneBufs  == {"tx_dne", "rx_dne"}
Books    == {"tx_bk", "rx_bk"}   \* the four arrays tx_bk_*, the three rx_bk_*
CharDev  == {"chrdev", "cdev", "class"}

Resources == {"device", "msi", "card", "cfg_addr", "wq", "irq", "rx_skb"}
                \cup Regions \cup Rings \cup DneBufs \cup Books \cup CharDev

VARIABLES
    pc,          \* where the thread of the driver core is
    held,        \* what has been set up and not been taken down
    drvdata,     \* pci_get_drvdata gives the card
    cardWq,      \* card->wq: "null", the "queue" held, or "failed": it is NULL
                 \* because create_workqueue has failed
    ndev,        \* the ports whose net device is allocated
    registered,  \* those whose net device is registered as well
    work,        \* whose work_handler is queued or running: that of this
                 \* "card", or of "freed" cards before it
    armed,       \* what the card can still complete, "tx" or "rx" descriptors
    files        \* the files that are open

callVars == <<work, armed, files>>
netVars  == <<ndev, registered>>
cardVars == <<drvdata, cardWq>>
vars     == <<pc, held, cardVars, netVars, callVars>>

ProbeSteps  == {"msi", "region0", "region2", "card", "cfg", "dsc", "dne", "wq", "bk",
                "irq", "ndev", "rx", "chrdev", "cdev", "class"}
Ladder      == {"undo_ndev", "err_out_free_private2", "err_out_iounmap",
                "err_out_release_mem_region2", "err_out_release_mem_region1",
                "err_out_msi", "err_out_disable_device"}
RemoveSteps == {"rm_ndev", "rm_unmap", "rm_buffers", "rm_card", "rm_regions", "rm_device"}

TypeOK ==
    /\ pc \in {"unbound", "bound"} \cup ProbeSteps \cup Ladder \cup RemoveSteps
    /\ held \subseteq Resources
    /\ drvdata \in BOOLEAN
    /\ cardWq \in {"null", "queue", "failed"}
    /\ ndev \subseteq Ports /\ registered \subseteq ndev
    /\ work \subseteq {"card", "freed"} /\ armed \subseteq {"tx", "rx"}
    /\ files \subseteq Files

Init ==
    /\ pc = "unbound" /\ held = {}
    /\ drvdata = FALSE /\ cardWq = "null"
    /\ ndev = {} /\ registered = {}
    /\ work = {} /\ armed = {} /\ files = {}

-----------------------------------------------------------------------------
(* nf10_probe *)

(* The code asks for all of what and looks at the results afterwards: if   *)
(* anything is missing it continues with the label undo.                   *)
Try(at, what, next, undo) ==
    /\ pc = at
    /\ \E got \in SUBSET what :
           /\ held' = held \cup got
           /\ pc' = IF got = what THEN next ELSE undo

(* A failed probe that has left its interrupt registered is not followed   *)
(* by another: pci_disable_msi has already found the handler in its way.   *)
EnableDevice ==
    /\ "irq" \notin held
    /\ Try("unbound", {"device"}, "msi", "unbound")
    /\ UNCHANGED <<cardVars, netVars, callVars>>

(* Setting the DMA masks, which holds nothing, fails in the same way.      *)
EnableMsi ==
    /\ Try("msi", {"msi"}, "region0", "err_out_disable_device")
    /\ UNCHANGED <<cardVars, netVars, callVars>>

RequestRegion0WrongLabel ==                                         \* mutant
    /\ Try("region0", {"region0"}, "region2", "err_out_release_mem_region1")
    /\ UNCHANGED <<cardVars, netVars, callVars>>

RequestRegion0 ==
    /\ Try("region0", {"region0"}, "region2", "err_out_msi")
    /\ UNCHANGED <<cardVars, netVars, callVars>>

RequestRegion2 ==
    /\ Try("region2", {"region2"}, "card", "err_out_release_mem_region1")
    /\ UNCHANGED <<cardVars, netVars, callVars>>

AllocCard ==
    /\ Try("card", {"card"}, "cfg", "err_out_release_mem_region2")
    /\ UNCHANGED <<cardVars, netVars, callVars>>

MapConfig ==
    /\ Try("cfg", {"cfg_addr"}, "dsc", "err_out_iounmap")
    /\ UNCHANGED <<cardVars, netVars, callVars>>

(* With both maps there the card is reset, line 133. *)
MapRings ==
    /\ Try("dsc", Rings, "dne", "err_out_iounmap")
    /\ armed' = IF pc' = "dne" THEN {} ELSE armed
    /\ UNCHANGED <<cardVars, netVars, work, files>>

AllocCompletionBuffers ==
    /\ Try("dne", DneBufs, "wq", "err_out_free_private2")
    /\ UNCHANGED <<cardVars, netVars, callVars>>

(* Without a work queue the code goes on, line 236. *)
CreateWorkqueue ==
    /\ pc = "wq" /\ pc' = "bk"
    /\ \/ held' = held \cup {"wq"} /\ cardWq' = "queue"
       \/ held' = held /\ cardWq' = "failed"
    /\ UNCHANGED <<drvdata, netVars, callVars>>

(* Lines 248-268. *)
AllocBookkeeping ==
    /\ Try("bk", Books, "irq", "err_out_free_private2")
    /\ drvdata' = (pc' = "irq")
    /\ UNCHANGED <<cardWq, netVars, callVars>>

(* nf10iface_probe *)
RequestIrq ==
    /\ Try("irq", {"irq"}, "ndev", "err_out_free_private2")
    /\ UNCHANGED <<cardVars, netVars, callVars>>

(* A device that cannot be registered is only reported, line 188. *)
AllocNetdev(i) ==
    /\ pc = "ndev" /\ ndev = 0..(i - 1)
    /\ \/ /\ ndev' = ndev \cup {i}
          /\ registered' \in {registered, registered \cup {i}}
          /\ pc' = IF i = NPorts - 1 THEN "rx" ELSE "ndev"
       \/ /\ pc' = "undo_ndev"
          /\ UNCHANGED netVars
    /\ UNCHANGED <<held, cardVars, callVars>>

PostRxDescriptors ==
    /\ pc = "rx"
    /\ held' = held \cup {"rx_skb"}
    /\ armed' = armed \cup {"rx"}
    /\ pc' = "chrdev"
    /\ UNCHANGED <<cardVars, netVars, work, files>>

(* nf10fops_probe: its error returns take nothing back. *)
AllocChrdev ==
    /\ Try("chrdev", {"chrdev"}, "cdev", "err_out_free_private2")
    /\ UNCHANGED <<cardVars, netVars, callVars>>

AddCdev ==
    /\ Try("cdev", {"cdev"}, "class", "err_out_free_private2")
    /\ UNCHANGED <<cardVars, netVars, callVars>>

(* Neither class_create nor device_create is looked at, lines 165-166. *)
CreateClass ==
    /\ Try("class", {"class"}, "bound", "bound")
    /\ UNCHANGED <<cardVars, netVars, callVars>>

-----------------------------------------------------------------------------
(* The ladders *)

Undo(at, what, next) ==
    /\ pc = at
    /\ held' = held \ what
    /\ pc' = next
    /\ UNCHANGED <<netVars, armed, files>>

(* One iteration of the loops of nf10iface.c, lines 207-214 and 225-232.   *)
FreeNetdev(i) ==
    /\ pc \in {"undo_ndev", "rm_ndev"}
    /\ i \in ndev /\ \A j \in ndev : i <= j
    /\ ndev' = ndev \ {i} /\ registered' = registered \ {i}
    /\ UNCHANGED <<pc, held, cardVars, callVars>>

(* The end of err_out_free_dev: the interrupt stays. *)
NetdevsUndone ==
    /\ ndev = {} /\ Undo("undo_ndev", {}, "err_out_free_private2")
    /\ UNCHANGED <<cardVars, work>>

FreePrivate ==
    /\ Undo("err_out_free_private2", Books \cup DneBufs, "err_out_iounmap")
    /\ UNCHANGED <<cardVars, work>>

(* card->wq goes with the card; the queue, and what is queued on it, stay. *)
ForgetCard ==
    /\ drvdata' = FALSE /\ cardWq' = "null"
    /\ work' = {"freed" : w \in work}

UnmapAndFreeCard ==
    /\ Undo("err_out_iounmap", Rings \cup {"cfg_addr", "card"}, "err_out_release_mem_region2")
    /\ ForgetCard

ReleaseRegion2 ==
    /\ Undo("err_out_release_mem_region2", {"region2"}, "err_out_release_mem_region1")
    /\ UNCHANGED <<cardVars, work>>

ReleaseRegion0 ==
    /\ Undo("err_out_release_mem_region1", {"region0"}, "err_out_msi")
    /\ UNCHANGED <<cardVars, work>>

DisableMsi ==
    /\ Undo("err_out_msi", {"msi"}, "err_out_disable_device")
    /\ UNCHANGED <<cardVars, work>>

DisableDevice ==
    /\ Undo("err_out_disable_device", {"device"}, "unbound")
    /\ UNCHANGED <<cardVars, work>>

-----------------------------------------------------------------------------
(* nf10_remove *)

(* nf10fops_remove; the class is given back twice, lines 173 and 174,      *)
(* whether it is there or not.                                             *)
RemoveFops ==
    /\ Unbind \/ files = {}
    /\ Undo("bound", CharDev, "rm_ndev")
    /\ UNCHANGED <<cardVars, work>>

RemoveKeepsIrq ==                                                   \* mutant
    /\ ndev = {} /\ Undo("rm_ndev", {}, "rm_unmap")
    /\ UNCHANGED <<cardVars, work>>

(* nf10iface_remove after its loop. *)
RemoveIrq ==
    /\ ndev = {} /\ Undo("rm_ndev", {"irq"}, "rm_unmap")
    /\ UNCHANGED <<cardVars, work>>

(* Nothing in nf10_remove waits for work that is queued or running. *)
RemoveMaps ==
    /\ Undo("rm_unmap", Rings \cup {"cfg_addr"}, "rm_buffers")
    /\ UNCHANGED <<cardVars, work>>

RemoveBuffers ==
    /\ Undo("rm_buffers", DneBufs \cup Books, "rm_card")
    /\ UNCHANGED <<cardVars, work>>

RemoveCard == Undo("rm_card", {"card"}, "rm_regions") /\ ForgetCard

RemoveRegions ==
    /\ Undo("rm_regions", Regions, "rm_device")
    /\ UNCHANGED <<cardVars, work>>

RemoveDevice ==
    /\ Undo("rm_device", {"msi", "device"}, "unbound")
    /\ UNCHANGED <<cardVars, work>>

-----------------------------------------------------------------------------
(* The others *)

(* int_handler, as long as drvdata and card->wq are what it takes them for. *)
Interrupt ==
    /\ "irq" \in held /\ drvdata /\ cardWq = "queue"
    /\ work' = work \cup {"card"}
    /\ UNCHANGED <<pc, held, cardVars, netVars, armed, files>>

WorkDone ==
    /\ \E w \in work : work' = work \ {w}
    /\ UNCHANGED <<pc, held, cardVars, netVars, armed, files>>

Transmit ==
    /\ registered # {}
    /\ armed' = armed \cup {"tx"}
    /\ UNCHANGED <<pc, held, cardVars, netVars, work, files>>

Open(f) ==
    /\ "cdev" \in held /\ f \notin files
    /\ files' = files \cup {f}
    /\ UNCHANGED <<pc, held, cardVars, netVars, work, armed>>

Release(f) ==
    /\ f \in files
    /\ files' = files \ {f}
    /\ UNCHANGED <<pc, held, cardVars, netVars, work, armed>>

-----------------------------------------------------------------------------
Probe ==
    \/ EnableDevice \/ EnableMsi \/ RequestRegion0 \/ RequestRegion2 \/ AllocCard
    \/ MapConfig \/ MapRings \/ AllocCompletionBuffers \/ CreateWorkqueue
    \/ AllocBookkeeping \/ RequestIrq \/ PostRxDescriptors
    \/ AllocChrdev \/ AddCdev \/ CreateClass
    \/ \E i \in Ports : AllocNetdev(i)

Unwind ==
    \/ NetdevsUndone \/ FreePrivate \/ UnmapAndFreeCard
    \/ ReleaseRegion2 \/ ReleaseRegion0 \/ DisableMsi \/ DisableDevice
    \/ \E i \in Ports : FreeNetdev(i)

Remove ==
    \/ RemoveFops \/ RemoveIrq \/ RemoveMaps \/ RemoveBuffers
    \/ RemoveCard \/ RemoveRegions \/ RemoveDevice

Callers ==
    \/ Interrupt \/ WorkDone \/ Transmit
    \/ \E f \in Files : Open(f) \/ Release(f)

Next == Probe \/ Unwind \/ Remove \/ Callers

Spec == Init /\ [][Next]_vars

-----------------------------------------------------------------------------
(* Properties *)

(* A failure after request_irq that has come to the labels which unmap and *)
(* free, or past them: no error path takes the interrupt back, nor the net *)
(* devices when it is nf10fops_probe that fails.                           *)
Abandoned ==
    "irq" \in held /\ pc \in (Ladder \ {"undo_ndev", "err_out_free_private2"}) \cup {"unbound"}

(* nf10_remove after its first iounmap. *)
TakenDown == pc \in {"rm_buffers", "rm_card"}

NeededToSend  == {"card", "tx_dsc"} \cup Books
NeededToWork  == {"card", "cfg_addr"} \cup Rings \cup DneBufs \cup Books
NeededToIoctl == {"card", "cfg_addr"}

(* Whoever can enter the driver finds there what the code it enters uses:  *)
(* nf10_probe registers each entry point after, and nf10_remove takes it   *)
(* back before, what can be reached through it.  This holds at every step  *)
(* but those of Abandoned.  Of work that int_handler has queued it says    *)
(* nothing once nf10_remove unmaps, of the queue itself nothing when       *)
(* create_workqueue failed, of the net devices that a received packet is   *)
(* for nothing while nf10iface_remove frees them, and nothing of a file    *)
(* that is open when the driver is unbound: see WorkFindsCard,             *)
(* HandlerHasQueue, PortsOutliveWork and FilesFindCard below.              *)
EntryPointsBacked ==
    /\ "irq" \in held /\ ~Abandoned =>
           drvdata /\ NeededToWork \subseteq held /\ cardWq # "null"
    /\ "card" \in work /\ ~Abandoned /\ ~TakenDown => NeededToWork \subseteq held
    /\ "rx" \in armed /\ "irq" \in held /\ ~Abandoned /\ pc # "rm_ndev" => ndev = Ports
    /\ registered # {} /\ ~Abandoned => NeededToSend \subseteq held
    /\ "cdev" \in held => "card" \in held
    /\ files # {} /\ ~Unbind => NeededToIoctl \subseteq held

(* What is given back at a label, or by a part of nf10_remove, without the *)
(* code looking whether it is there.  Not among it: the class, which is    *)
(* given back twice, and the completion buffers of line 300, which may be  *)
(* NULL.                                                                   *)
GivenBack(label) ==
    CASE label = "err_out_iounmap"            -> {"card"}
      [] label = "err_out_release_mem_region2" -> {"region2"}
      [] label = "err_out_release_mem_region1" -> {"region0"}
      [] label = "err_out_msi"                -> {"msi"}
      [] label = "err_out_disable_device"     -> {"device"}
      [] label = "bound"                      -> {"chrdev", "cdev"}
      [] label = "rm_ndev"                    -> {"irq"}
      [] label = "rm_unmap"                   -> {"cfg_addr"} \cup Rings
      [] label = "rm_buffers"                 -> DneBufs \cup Books
      [] label = "rm_card"                    -> {"card"}
      [] label = "rm_regions"                 -> Regions
      [] label = "rm_device"                  -> {"msi", "device"}
      [] OTHER                                -> {}

(* Each step of the ladder and of nf10_remove gives back what is still     *)
(* held, and at the end nothing is left but the packets posted for         *)
(* receiving and the work queues, neither of which any path gives back;    *)
(* unless the probe failed after request_irq, when the interrupt stays     *)
(* (FailedProbeClean).                                                     *)
GivenBackOnce ==
    /\ GivenBack(pc) \subseteq held
    /\ pc = "unbound" /\ "irq" \notin held =>
           /\ held \subseteq {"rx_skb", "wq"}
           /\ ndev = {} /\ ~drvdata /\ cardWq = "null"
           /\ files = {} \/ Unbind

-----------------------------------------------------------------------------
(* Statements of comments and of the order of the code that it does not    *)
(* keep.                                                                   *)

(* "failed to initialize interfaces", "failed to initialize dev file"      *)
(* (nf10driver.c, lines 275 and 282): after a failed probe the driver is   *)
(* not there any more.                                                     *)
FailedProbeClean == pc = "unbound" => "irq" \notin held /\ registered = {}

(* int_handler (nf10iface.c, line 21): there is a queue for the work.      *)
HandlerHasQueue == "irq" \in held => cardWq = "queue"

(* work_handler (nf10priv.c, lines 119-160): the card it was queued for,   *)
(* its registers and its buffers are there.                                *)
WorkFindsCard == work \subseteq {"card"} /\ ("card" \in work => NeededToWork \subseteq held)

(* work_handler (nf10priv.c, lines 185 and 236) finds all net devices.     *)
PortsOutliveWork == "card" \in work /\ armed # {} => ndev = Ports

(* nf10fops_ioctl (nf10fops.c, line 41): the card of an open file is there *)
(* also after the driver has been unbound.                                 *)
FilesFindCard == files # {} => NeededToIoctl \subseteq held

(* "releasing private memory" (nf10driver.c, line 325): the card does not  *)
(* write to buffers that have been given back.                             *)
DmaTargetsHeld == armed # {} /\ "device" \in held => DneBufs \subseteq held

(* Each work queue that is created is destroyed. *)
QueuesDestroyed == "wq" \in held => cardWq = "queue"
=============================================================================
