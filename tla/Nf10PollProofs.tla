--------------------------- MODULE Nf10PollProofs ---------------------------
(***************************************************************************)
(* Interrupts and polling never lose a completion, for any number of CPUs, *)
(* any number of outstanding completions and any limit of tcnt.            *)
(***************************************************************************)
EXTENDS Nf10Poll, TLAPS

\* work_lock is held exactly while work_handler is past line 141.
Exclusive ==
    /\ workLock = NoCpu => \A c \in Cpus : pc[c] \in {"idle", "wait"}
    /\ workLock # NoCpu => /\ pc[workLock] \notin {"idle", "wait"}
                           /\ \A c \in Cpus \ {workLock} : pc[c] \in {"idle", "wait"}

\* What the holder of the lock knows of the card's registers.  While nobody
\* holds it interrupts are on.
Registers ==
    /\ workLock = NoCpu => \A k \in Kinds : intOn[k]
    /\ \A c \in Cpus :
          /\ pc[c] \in {"top", "read", "tx", "rx", "count"} =>
                \A k \in Kinds : intOn[k] = intEnabled
          /\ pc[c] = "disableRx" => ~intEnabled /\ ~intOn["tx"]
          /\ pc[c] \in {"enableTx", "enableRx"} => intEnabled
          /\ pc[c] = "enableRx" => intOn["tx"]

\* What was read in this round is still there until it is handled, and the loop
\* goes on as long as tcnt is not zero.
Round ==
    \A c \in Cpus :
        /\ pc[c] = "tx" => \A k \in got : done[k] > 0
        /\ pc[c] = "rx" => ("rx" \in got => done["rx"] > 0)
        /\ pc[c] \notin {"idle", "wait"} => tcnt > 0

\* work_handler will run, or it will look at the completion rings once more
\* before it returns: it returns only from a round that read nothing while
\* interrupts were on.
Pending  == irq \/ queued \/ \E c \in Cpus : pc[c] = "wait"
Looks(c) ==
    \/ pc[c] \in {"top", "disableRx", "read", "enableTx", "enableRx"}
    \/ pc[c] \in {"tx", "rx", "count"} /\ (got # {} \/ ~intEnabled)
NoneLost ==
    (\E k \in Kinds : done[k] > 0) => Pending \/ \E c \in Cpus : Looks(c)

PollInv == TypeOK /\ Exclusive /\ Registers /\ Round /\ NoneLost

\* Interrupts are on and nothing has been reported when the driver comes up.
LEMMA InitInv == Init => PollInv
<1> SUFFICES ASSUME Init PROVE PollInv
    OBVIOUS
<1>1. TypeOK
    <2>1. done \in [Kinds -> 0..Cap] /\ tcnt \in 0..MaxTcnt
        BY PollAssumption DEF Init, Kinds
    <2>2. /\ intOn \in [Kinds -> BOOLEAN] /\ irq \in BOOLEAN /\ queued \in BOOLEAN
          /\ intEnabled \in BOOLEAN /\ worked \in BOOLEAN
        BY DEF Init
    <2>3. /\ workLock \in Cpus \cup {NoCpu} /\ got \subseteq Kinds
          /\ pc \in [Cpus -> {"idle"}]
        BY DEF Init
    <2> QED
        BY <2>1, <2>2, <2>3 DEF TypeOK
<1>2. Exclusive /\ Registers /\ Round /\ NoneLost
    BY PollAssumption DEF Init, Exclusive, Registers, Round, NoneLost, Kinds
<1> QED
    BY <1>1, <1>2 DEF PollInv

\* tcnt stays within its bounds because the loop ends at zero (line 309), and a
\* completion is taken only if it has been read in the same round (Round).
LEMMA TypeStep == TypeOK /\ Round /\ [Next]_vars => TypeOK'
<1> SUFFICES ASSUME TypeOK, Round, [Next]_vars PROVE TypeOK'
    OBVIOUS
<1> USE PollAssumption DEF TypeOK, Round, Kinds, cardVars, localVars, Goto
<1>1. CASE \E k \in Kinds : Report(k)
    BY <1>1 DEF Report
<1>2. CASE IntHandler
    BY <1>2 DEF IntHandler
<1>3. CASE \E c \in Cpus : Start(c)
    BY <1>3 DEF Start
<1>4. CASE \E c \in Cpus : Lock(c)
    <2>1. /\ tcnt' \in 0..MaxTcnt /\ workLock' \in Cpus \cup {NoCpu} /\ got' \subseteq Kinds
          /\ UNCHANGED <<done, intOn, irq, queued>>
        BY <1>4 DEF Lock
    <2>2. intEnabled' \in BOOLEAN /\ worked' \in BOOLEAN
        BY <1>4 DEF Lock
    <2>3. pc' \in [Cpus -> {"idle", "wait", "top", "disableRx", "read", "tx", "rx", "count",
                            "enableTx", "enableRx"}]
        BY <1>4 DEF Lock
    <2> QED
        BY <2>1, <2>2, <2>3
<1>5. CASE \E c \in Cpus : Top(c)
    <2>1. intEnabled' \in BOOLEAN
        BY <1>5 DEF Top
    <2>2. intOn' = intOn \/ intOn' = [intOn EXCEPT !["tx"] = FALSE]
        BY <1>5 DEF Top
    <2>3. /\ pc' \in [Cpus -> {"idle", "wait", "top", "disableRx", "read", "tx", "rx", "count",
                               "enableTx", "enableRx"}]
          /\ UNCHANGED <<done, irq, queued, workLock, tcnt, worked, got>>
        BY <1>5 DEF Top
    <2> QED
        BY <2>1, <2>2, <2>3
<1>6. CASE \E c \in Cpus : DisableRx(c)
    BY <1>6 DEF DisableRx
<1>7. CASE \E c \in Cpus : Read(c)
    BY <1>7 DEF Read
<1>8. CASE \E c \in Cpus : Handle(c, "tx", "rx")
    BY <1>8 DEF Handle
<1>9. CASE \E c \in Cpus : Handle(c, "rx", "count")
    BY <1>9 DEF Handle
<1>10. CASE \E c \in Cpus : CountRound(c)
    <2>1. tcnt' \in 0..MaxTcnt
        BY <1>10 DEF CountRound, NextTcnt
    <2>2. intEnabled' \in BOOLEAN /\ worked' \in BOOLEAN
        BY <1>10 DEF CountRound
    <2>3. pc' \in [Cpus -> {"idle", "wait", "top", "disableRx", "read", "tx", "rx", "count",
                            "enableTx", "enableRx"}]
        BY <1>10 DEF CountRound
    <2>4. workLock' \in Cpus \cup {NoCpu} /\ UNCHANGED <<done, intOn, irq, queued, got>>
        BY <1>10 DEF CountRound
    <2> QED
        BY <2>1, <2>2, <2>3, <2>4
<1>11. CASE \E c \in Cpus : EnableTx(c)
    BY <1>11 DEF EnableTx
<1>12. CASE \E c \in Cpus : EnableRx(c)
    BY <1>12 DEF EnableRx
<1>13. CASE UNCHANGED vars
    BY <1>13 DEF vars
<1> QED
    BY <1>1, <1>2, <1>3, <1>4, <1>5, <1>6, <1>7, <1>8, <1>9, <1>10, <1>11, <1>12, <1>13
    DEF Next, Work

\* spin_lock_irqsave and its release (lines 141 and 310).
LEMMA ExclusiveStep == TypeOK /\ Exclusive /\ [Next]_vars => Exclusive'
<1> SUFFICES ASSUME TypeOK, Exclusive, [Next]_vars PROVE Exclusive'
    OBVIOUS
<1> USE PollAssumption DEF TypeOK, Exclusive, Kinds, cardVars, localVars, Goto
<1>1. CASE \E k \in Kinds : Report(k)
    BY <1>1 DEF Report
<1>2. CASE IntHandler
    BY <1>2 DEF IntHandler
<1>3. CASE \E c \in Cpus : Start(c)
    BY <1>3 DEF Start
<1>4. CASE \E c \in Cpus : Lock(c)
    BY <1>4 DEF Lock
<1>5. CASE \E c \in Cpus : Top(c)
    BY <1>5 DEF Top
<1>6. CASE \E c \in Cpus : DisableRx(c)
    BY <1>6 DEF DisableRx
<1>7. CASE \E c \in Cpus : Read(c)
    BY <1>7 DEF Read
<1>8. CASE \E c \in Cpus : Handle(c, "tx", "rx")
    BY <1>8 DEF Handle
<1>9. CASE \E c \in Cpus : Handle(c, "rx", "count")
    BY <1>9 DEF Handle
<1>10. CASE \E c \in Cpus : CountRound(c)
    BY <1>10 DEF CountRound, NextTcnt
<1>11. CASE \E c \in Cpus : EnableTx(c)
    BY <1>11 DEF EnableTx
<1>12. CASE \E c \in Cpus : EnableRx(c)
    BY <1>12 DEF EnableRx
<1>13. CASE UNCHANGED vars
    BY <1>13 DEF vars
<1> QED
    BY <1>1, <1>2, <1>3, <1>4, <1>5, <1>6, <1>7, <1>8, <1>9, <1>10, <1>11, <1>12, <1>13
    DEF Next, Work

\* The two registers change only under work_lock, and in pairs (lines 147-151 and
\* 299-307).
LEMMA RegistersStep == TypeOK /\ Exclusive /\ Registers /\ [Next]_vars => Registers'
<1> SUFFICES ASSUME TypeOK, Exclusive, Registers, [Next]_vars PROVE Registers'
    OBVIOUS
<1> USE PollAssumption DEF TypeOK, Exclusive, Registers, Kinds, cardVars, localVars, Goto
<1>1. CASE \E k \in Kinds : Report(k)
    BY <1>1 DEF Report
<1>2. CASE IntHandler
    BY <1>2 DEF IntHandler
<1>3. CASE \E c \in Cpus : Start(c)
    BY <1>3 DEF Start
<1>4. CASE \E c \in Cpus : Lock(c)
    BY <1>4 DEF Lock
<1>5. CASE \E c \in Cpus : Top(c)
    BY <1>5 DEF Top
<1>6. CASE \E c \in Cpus : DisableRx(c)
    <2>1. PICK c \in Cpus : DisableRx(c)
        BY <1>6
    <2>2. workLock = c /\ workLock' = c /\ intEnabled' = intEnabled
        BY <2>1 DEF DisableRx
    <2>3. pc'[c] = "read" /\ \A d \in Cpus \ {c} : pc'[d] \in {"idle", "wait"}
        BY <2>1, <2>2 DEF DisableRx
    <2>4. intEnabled = FALSE /\ intOn["tx"] = FALSE
        BY <2>1 DEF DisableRx
    <2>5. \A k \in Kinds : intOn'[k] = intEnabled'
        BY <2>1, <2>2, <2>4 DEF DisableRx
    <2> QED
        BY <2>2, <2>3, <2>5
<1>7. CASE \E c \in Cpus : Read(c)
    BY <1>7 DEF Read
<1>8. CASE \E c \in Cpus : Handle(c, "tx", "rx")
    BY <1>8 DEF Handle
<1>9. CASE \E c \in Cpus : Handle(c, "rx", "count")
    BY <1>9 DEF Handle
<1>10. CASE \E c \in Cpus : CountRound(c)
    BY <1>10 DEF CountRound, NextTcnt
<1>11. CASE \E c \in Cpus : EnableTx(c)
    <2>1. PICK c \in Cpus : EnableTx(c)
        BY <1>11
    <2>2. workLock = c /\ workLock' = c /\ intEnabled' = intEnabled
        BY <2>1 DEF EnableTx
    <2>3. pc'[c] = "enableRx" /\ \A d \in Cpus \ {c} : pc'[d] \in {"idle", "wait"}
        BY <2>1, <2>2 DEF EnableTx
    <2>4. intEnabled /\ intOn'["tx"]
        BY <2>1 DEF EnableTx
    <2> QED
        BY <2>2, <2>3, <2>4
<1>12. CASE \E c \in Cpus : EnableRx(c)
    <2>1. PICK c \in Cpus : EnableRx(c)
        BY <1>12
    <2>2. workLock = c /\ workLock' = c /\ intEnabled' = intEnabled
        BY <2>1 DEF EnableRx
    <2>3. pc'[c] = "top" /\ \A d \in Cpus \ {c} : pc'[d] \in {"idle", "wait"}
        BY <2>1, <2>2 DEF EnableRx
    <2>4. intEnabled /\ intOn'["tx"] /\ intOn'["rx"]
        BY <2>1 DEF EnableRx
    <2> QED
        BY <2>2, <2>3, <2>4
<1>13. CASE UNCHANGED vars
    BY <1>13 DEF vars
<1> QED
    BY <1>1, <1>2, <1>3, <1>4, <1>5, <1>6, <1>7, <1>8, <1>9, <1>10, <1>11, <1>12, <1>13
    DEF Next, Work

\* Only the holder of work_lock takes completions away.
LEMMA RoundStep == TypeOK /\ Exclusive /\ Round /\ [Next]_vars => Round'
<1> SUFFICES ASSUME TypeOK, Exclusive, Round, [Next]_vars PROVE Round'
    OBVIOUS
<1> USE PollAssumption DEF TypeOK, Exclusive, Round, Kinds, cardVars, localVars, Goto
<1>1. CASE \E k \in Kinds : Report(k)
    BY <1>1 DEF Report
<1>2. CASE IntHandler
    BY <1>2 DEF IntHandler
<1>3. CASE \E c \in Cpus : Start(c)
    BY <1>3 DEF Start
<1>4. CASE \E c \in Cpus : Lock(c)
    BY <1>4 DEF Lock
<1>5. CASE \E c \in Cpus : Top(c)
    BY <1>5 DEF Top
<1>6. CASE \E c \in Cpus : DisableRx(c)
    BY <1>6 DEF DisableRx
<1>7. CASE \E c \in Cpus : Read(c)
    BY <1>7 DEF Read
<1>8. CASE \E c \in Cpus : Handle(c, "tx", "rx")
    BY <1>8 DEF Handle
<1>9. CASE \E c \in Cpus : Handle(c, "rx", "count")
    BY <1>9 DEF Handle
<1>10. CASE \E c \in Cpus : CountRound(c)
    BY <1>10 DEF CountRound, NextTcnt
<1>11. CASE \E c \in Cpus : EnableTx(c)
    BY <1>11 DEF EnableTx
<1>12. CASE \E c \in Cpus : EnableRx(c)
    BY <1>12 DEF EnableRx
<1>13. CASE UNCHANGED vars
    BY <1>13 DEF vars
<1> QED
    BY <1>1, <1>2, <1>3, <1>4, <1>5, <1>6, <1>7, <1>8, <1>9, <1>10, <1>11, <1>12, <1>13
    DEF Next, Work

\* A completion that comes when nobody will look any more finds interrupts on;
\* the last round before the return has read nothing (lines 295-309).
LEMMA NoneLostStep == PollInv /\ [Next]_vars => NoneLost'
<1> SUFFICES ASSUME PollInv, [Next]_vars PROVE NoneLost'
    OBVIOUS
<1> USE PollAssumption DEF PollInv, TypeOK, Exclusive, Registers, Round, NoneLost, Pending,
        Looks, Kinds, cardVars, localVars, Goto
<1>1. CASE \E k \in Kinds : Report(k)
    BY <1>1 DEF Report
<1>2. CASE IntHandler
    BY <1>2 DEF IntHandler
<1>3. CASE \E c \in Cpus : Start(c)
    BY <1>3 DEF Start
<1>4. CASE \E c \in Cpus : Lock(c)
    BY <1>4 DEF Lock
<1>5. CASE \E c \in Cpus : Top(c)
    BY <1>5 DEF Top
<1>6. CASE \E c \in Cpus : DisableRx(c)
    BY <1>6 DEF DisableRx
<1>7. CASE \E c \in Cpus : Read(c)
    BY <1>7 DEF Read
<1>8. CASE \E c \in Cpus : Handle(c, "tx", "rx")
    BY <1>8 DEF Handle
<1>9. CASE \E c \in Cpus : Handle(c, "rx", "count")
    BY <1>9 DEF Handle
<1>10. CASE \E c \in Cpus : CountRound(c)
    <2>1. PICK c \in Cpus : CountRound(c)
        BY <1>10
    <2>2. CASE pc'[c] \in {"top", "enableTx"}
        BY <2>2
    <2>3. CASE pc'[c] = "idle"
        <3>1. got = {} /\ intEnabled
            BY <2>1, <2>3 DEF CountRound, NextTcnt
        <3>2. \A d \in Cpus : ~Looks(d)
            BY <2>1, <3>1 DEF CountRound
        <3>3. UNCHANGED <<done, irq, queued>> /\ \A d \in Cpus : pc[d] = "wait" => pc'[d] = "wait"
            BY <2>1 DEF CountRound
        <3> QED
            BY <3>2, <3>3
    <2> QED
        BY <2>1, <2>2, <2>3 DEF CountRound
<1>11. CASE \E c \in Cpus : EnableTx(c)
    BY <1>11 DEF EnableTx
<1>12. CASE \E c \in Cpus : EnableRx(c)
    BY <1>12 DEF EnableRx
<1>13. CASE UNCHANGED vars
    BY <1>13 DEF vars
<1> QED
    BY <1>1, <1>2, <1>3, <1>4, <1>5, <1>6, <1>7, <1>8, <1>9, <1>10, <1>11, <1>12, <1>13
    DEF Next, Work

\* The invariant is inductive.
LEMMA Invariance == Spec => []PollInv
<1>1. PollInv /\ [Next]_vars => PollInv'
    BY TypeStep, ExclusiveStep, RegistersStep, RoundStep, NoneLostStep DEF PollInv
<1> QED
    BY InitInv, <1>1, PTL DEF Spec

\* The types of the state of int_handler and work_handler (nf10priv.c:132-310).
THEOREM TypeCorrect == Spec => []TypeOK
<1>1. PollInv => TypeOK
    BY DEF PollInv
<1> QED
    BY Invariance, <1>1, PTL

\* When no interrupt is under way and no work is queued or running, every
\* completion has been handled and the next one interrupts (nf10priv.c:299-309).
THEOREM NothingIsLeft == Spec => []NothingLeft
<1>1. PollInv => NothingLeft
    <2> SUFFICES ASSUME PollInv, Quiet PROVE \A k \in Kinds : done[k] = 0 /\ intOn[k]
        BY DEF NothingLeft
    <2>1. ~Pending /\ \A c \in Cpus : ~Looks(c)
        BY DEF Quiet, Pending, Looks
    <2>2. \A k \in Kinds : done[k] = 0
        BY <2>1 DEF PollInv, NoneLost, TypeOK
    <2>3. workLock = NoCpu
        BY DEF PollInv, Exclusive, TypeOK, Quiet
    <2> QED
        BY <2>2, <2>3 DEF PollInv, Registers
<1> QED
    BY Invariance, <1>1, PTL

\* The local int_enabled of the CPU in work_handler tells the state of the
\* card's registers (nf10priv.c:139, 147, 301).
THEOREM FlagAndCardAgree == Spec => []FlagMatchesCard
<1>1. PollInv => FlagMatchesCard
    BY DEF PollInv, Registers, FlagMatchesCard
<1> QED
    BY Invariance, <1>1, PTL

\* A step reports one completion, or handles one that was reported, or is none
\* of the service's business.
LEMMA StepsOfService ==
    ASSUME PollInv, [Next]_vars
    PROVE  [Service!Next]_done
<1>1. ASSUME NEW k \in Kinds, Report(k) PROVE Service!Next
    <2>1. Service!Report(k)
        BY <1>1 DEF Report, Service!Report
    <2> QED
        BY <2>1 DEF Service!Next
<1>2. ASSUME NEW c \in Cpus, NEW k \in Kinds, NEW next, Handle(c, k, next), k \in got
      PROVE  Service!Next
    <2>1. done[k] > 0
        BY <1>2 DEF PollInv, Round, Handle, Kinds
    <2>2. Service!Handle(k)
        BY <1>2, <2>1 DEF Handle, Service!Handle
    <2> QED
        BY <2>2 DEF Service!Next
<1>3. ASSUME NEW c \in Cpus, NEW k \in Kinds, NEW next, Handle(c, k, next), k \notin got
      PROVE  done' = done
    BY <1>3 DEF Handle
<1>4. ASSUME NEW c \in Cpus, \/ Start(c) \/ Lock(c) \/ Top(c) \/ DisableRx(c) \/ Read(c)
                              \/ CountRound(c) \/ EnableTx(c) \/ EnableRx(c)
      PROVE  done' = done
    BY <1>4 DEF Start, Lock, Top, DisableRx, Read, CountRound, EnableTx, EnableRx, cardVars
<1>5. IntHandler \/ UNCHANGED vars => done' = done
    BY DEF IntHandler, vars, cardVars
<1>6. "tx" \in Kinds /\ "rx" \in Kinds
    BY DEF Kinds
<1> QED
    BY <1>1, <1>2, <1>3, <1>4, <1>5, <1>6 DEF Next, Work

\* Interrupts, work queue and polling loop keep the promise of CompletionService:
\* a completion is handled only after it was reported, and once; nothing that
\* several CPUs do in work_handler (lines 141-310) handles it a second time.
THEOREM ServesCompletions == Spec => Service!SafetySpec
<1>1. Init => Service!Init
    BY DEF Init, Service!Init
<1>2. PollInv /\ [Next]_vars => [Service!Next]_done
    BY StepsOfService
<1> QED
    BY <1>1, <1>2, Invariance, PTL DEF Spec, Service!SafetySpec
=============================================================================
