------------------------------ MODULE Nf10Poll ------------------------------
(***************************************************************************)
(* Interrupts and polling of the nf10 driver: int_handler, the work queue  *)
(* and the loop of work_handler.                                           *)
(*                                                                         *)
(* The card interrupts when it reports a completion and interrupts of that *)
(* kind are on.  The handler queues the work; the work takes at most one   *)
(* completion of each kind per round, turns interrupts off when there is   *)
(* more than one round to do, and turns them on again and has a last look  *)
(* before it leaves.  What is done for a completion is the subject of      *)
(* Nf10Tx and Nf10Rx.                                                      *)
(***************************************************************************)
EXTENDS Integers

CONSTANTS
    Cpus,     \* the work queue has a thread on each
    NoCpu,
    MaxTcnt,  \* 10000, where tcnt stops growing
    Cap       \* completions of a kind that can be outstanding

ASSUME PollAssumption ==
    /\ NoCpu \notin Cpus
    /\ MaxTcnt \in Nat \ {0}
    /\ Cap \in Nat \ {0}

Kinds == {"tx", "rx"}

VARIABLES
    done,      \* valid entries of host_tx_dne and host_rx_dne still to be read
    intOn,     \* the card's interrupt enable registers, 25 (TX) and 26 (RX)
    irq,       \* an interrupt is raised and not yet handled
    queued,    \* the work is pending on the work queue
    workLock,  \* the CPU that holds work_lock
    pc,        \* where work_handler is on each CPU
    tcnt, intEnabled, worked, got
               \* the local variables of the CPU that holds the lock: tcnt,
               \* int_enabled, work_counter > 0, what it read this round

cardVars  == <<done, intOn, irq>>
localVars == <<tcnt, intEnabled, worked, got>>
vars      == <<cardVars, queued, workLock, pc, localVars>>

TypeOK ==
    /\ done \in [Kinds -> 0..Cap]
    /\ intOn \in [Kinds -> BOOLEAN]
    /\ irq \in BOOLEAN /\ queued \in BOOLEAN
    /\ workLock \in Cpus \cup {NoCpu}
    /\ pc \in [Cpus -> {"idle", "wait", "top", "disableRx", "read", "tx", "rx", "count",
                        "enableTx", "enableRx"}]
    /\ tcnt \in 0..MaxTcnt
    /\ intEnabled \in BOOLEAN /\ worked \in BOOLEAN
    /\ got \subseteq Kinds

Init ==
    /\ done = [k \in Kinds |-> 0]
    /\ intOn = [k \in Kinds |-> TRUE]
    /\ irq = FALSE /\ queued = FALSE
    /\ workLock = NoCpu
    /\ pc = [c \in Cpus |-> "idle"]
    /\ tcnt = 1 /\ intEnabled = TRUE /\ worked = FALSE /\ got = {}

Goto(c, label) == pc' = [pc EXCEPT ![c] = label]

-----------------------------------------------------------------------------
(* The card reports a completion.  With interrupts off nothing is recorded *)
(* for later: turning them on again raises none for what came before.      *)
Report(k) ==
    /\ done[k] < Cap
    /\ done' = [done EXCEPT ![k] = @ + 1]
    /\ irq' = (irq \/ intOn[k])
    /\ UNCHANGED <<intOn, queued, workLock, pc, localVars>>

(* int_handler: queue_work does nothing if the work is already pending.    *)
(* work_handler runs and waits with interrupts of its CPU disabled, so the *)
(* handler needs another one.                                              *)
IntHandler ==
    /\ irq /\ \E c \in Cpus : pc[c] = "idle"
    /\ irq' = FALSE
    /\ queued' = TRUE
    /\ UNCHANGED <<done, intOn, workLock, pc, localVars>>

(* A thread of the work queue takes the work: it is not pending any more,  *)
(* so an interrupt can queue it again and another CPU run it as well.      *)
Start(c) ==
    /\ queued /\ pc[c] = "idle"
    /\ queued' = FALSE
    /\ Goto(c, "wait")
    /\ UNCHANGED <<cardVars, workLock, localVars>>

-----------------------------------------------------------------------------
(* work_handler *)

Lock(c) ==
    /\ pc[c] = "wait" /\ workLock = NoCpu
    /\ workLock' = c
    /\ worked' = FALSE /\ tcnt' = 1 /\ intEnabled' = TRUE /\ got' = {}
    /\ Goto(c, "top")
    /\ UNCHANGED <<cardVars, queued>>

(* Lines 146-151; the second register is written by DisableRx.             *)
Top(c) ==
    /\ pc[c] = "top"
    /\ IF intEnabled /\ worked
       THEN /\ intEnabled' = FALSE
            /\ intOn' = [intOn EXCEPT !["tx"] = FALSE]
            /\ Goto(c, "disableRx")
       ELSE /\ UNCHANGED <<intEnabled, intOn>>
            /\ Goto(c, "read")
    /\ UNCHANGED <<done, irq, queued, workLock, tcnt, worked, got>>

DisableRxForgotten(c) ==                                            \* mutant
    /\ pc[c] = "disableRx"
    /\ Goto(c, "read")
    /\ UNCHANGED <<cardVars, queued, workLock, localVars>>

DisableRx(c) ==
    /\ pc[c] = "disableRx"
    /\ intOn' = [intOn EXCEPT !["rx"] = FALSE]
    /\ Goto(c, "read")
    /\ UNCHANGED <<done, irq, queued, workLock, localVars>>

ReadOne(c) ==                                                       \* mutant
    /\ pc[c] = "read"
    /\ got' = IF done["tx"] > 0 THEN {"tx"} ELSE {k \in {"rx"} : done[k] > 0}
    /\ Goto(c, "tx")
    /\ UNCHANGED <<cardVars, queued, workLock, tcnt, intEnabled, worked>>

(* Lines 156-160. *)
Read(c) ==
    /\ pc[c] = "read"
    /\ got' = {k \in Kinds : done[k] > 0}
    /\ Goto(c, "tx")
    /\ UNCHANGED <<cardVars, queued, workLock, tcnt, intEnabled, worked>>

(* Lines 162-192 and 194-290. *)
Handle(c, k, next) ==
    /\ pc[c] = k
    /\ done' = IF k \in got THEN [done EXCEPT ![k] = @ - 1] ELSE done
    /\ Goto(c, next)
    /\ UNCHANGED <<intOn, irq, queued, workLock, localVars>>

NextTcntStuck == IF got = {} THEN tcnt ELSE IF tcnt < MaxTcnt THEN tcnt + 1 ELSE tcnt
                                                                    \* mutant
(* tcnt after the round, lines 295-298. *)
NextTcnt ==
    IF got = {} THEN tcnt - 1 ELSE IF tcnt < MaxTcnt THEN tcnt + 1 ELSE tcnt

(* Lines 293-303 and the test of the loop; the registers are written by    *)
(* EnableTx and EnableRx.                                                  *)
CountRound(c) ==
    /\ pc[c] = "count"
    /\ \/ /\ NextTcnt <= 1 /\ ~intEnabled
          /\ tcnt' = 1 /\ worked' = FALSE /\ intEnabled' = TRUE
          /\ Goto(c, "enableTx")
          /\ UNCHANGED workLock
       \/ /\ ~(NextTcnt <= 1 /\ ~intEnabled)
          /\ tcnt' = NextTcnt /\ worked' = TRUE
          /\ IF NextTcnt = 0 THEN Goto(c, "idle") /\ workLock' = NoCpu
                             ELSE Goto(c, "top") /\ UNCHANGED workLock
          /\ UNCHANGED intEnabled
    /\ UNCHANGED <<cardVars, queued, got>>

EnableLeave(c) ==                                                   \* mutant
    /\ pc[c] = "enableRx"
    /\ intOn' = [intOn EXCEPT !["rx"] = TRUE]
    /\ Goto(c, "idle") /\ workLock' = NoCpu
    /\ UNCHANGED <<done, irq, queued, localVars>>

EnableTx(c) ==
    /\ pc[c] = "enableTx"
    /\ intOn' = [intOn EXCEPT !["tx"] = TRUE]
    /\ Goto(c, "enableRx")
    /\ UNCHANGED <<done, irq, queued, workLock, localVars>>

EnableRx(c) ==
    /\ pc[c] = "enableRx"
    /\ intOn' = [intOn EXCEPT !["rx"] = TRUE]
    /\ Goto(c, "top")
    /\ UNCHANGED <<done, irq, queued, workLock, localVars>>

Work(c) ==
    \/ Lock(c) \/ Top(c) \/ DisableRx(c) \/ Read(c)
    \/ Handle(c, "tx", "rx") \/ Handle(c, "rx", "count")
    \/ CountRound(c) \/ EnableTx(c) \/ EnableRx(c)

Next ==
    \/ \E k \in Kinds : Report(k)
    \/ IntHandler
    \/ \E c \in Cpus : Start(c) \/ Work(c)

Spec == Init /\ [][Next]_vars

(* Interrupts are delivered, the work queue runs its work, and the code of *)
(* work_handler has no wait in it but that for the lock.                   *)
Fairness ==
    /\ WF_vars(IntHandler)
    /\ \A c \in Cpus : WF_vars(Start(c)) /\ WF_vars(Work(c))

FairSpec == Spec /\ Fairness

-----------------------------------------------------------------------------
(* Properties *)

(* Nothing will call work_handler before the card interrupts again.        *)
Quiet == ~irq /\ ~queued /\ \A c \in Cpus : pc[c] = "idle"

(* When the driver rests, nothing is left unhandled and the next           *)
(* completion will interrupt: interrupts are switched on before the last   *)
(* look at the completion rings, never after it (lines 299-309).           *)
NothingLeft == Quiet => \A k \in Kinds : done[k] = 0 /\ intOn[k]

(* int_enabled, which each call of work_handler starts with at 1, tells    *)
(* the state of the card's registers, although several CPUs run it one     *)
(* after the other.                                                        *)
FlagMatchesCard ==
    \A c \in Cpus : pc[c] \in {"top", "read", "tx", "rx", "count"} =>
        \A k \in Kinds : intOn[k] = intEnabled

(* Every completion is handled; interrupts, queue and loop implement       *)
(* CompletionService.                                                      *)
Service == INSTANCE CompletionService
HandlesCompletions == Service!Spec

(* When the card falls silent the loop ends for good, after at most tcnt  *)
(* rounds that find nothing (lines 295-296).                               *)
LoopEnds == <>[](\A k \in Kinds : done[k] = 0) => <>[]Quiet
=============================================================================
