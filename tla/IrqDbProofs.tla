----------------------------- MODULE IrqDbProofs -----------------------------
(***************************************************************************)
(* IrqDb: that a rebuild knows every interrupt, and knows it once, for all *)
(* devices, files, scripts and changes of the machine; that a device that  *)
(* alone uses one decides on it; that the entries have their types.        *)
(***************************************************************************)
EXTENDS IrqDb, WellFoundedInduction, TLAPS

(* A list; nothing is said of what its entries are.                        *)
IsList(s) == \E S : s \in Seq(S)

Listed(i) == Known(interrupts_db, i) \/ Known(banned_irqs, i)

Once(s) == \A j, k \in DOMAIN s : s[j].irq = s[k].irq => j = k

(* What is not read from /proc/interrupts any more is known.               *)
Progress ==
    /\ pc \in {"open", "dir", "dev"} => tmp_irqs = collected
    /\ pc = "missing" => \A i \in collected : i \in tmp_irqs \/ Listed(i)
    /\ pc = "idle" /\ rebuilds > 0 /\ HasSysdev => \A i \in collected : Listed(i)

Apart == \A i : ~(Known(interrupts_db, i) /\ Known(banned_irqs, i))

Lists ==
    /\ IsList(interrupts_db) /\ IsList(banned_irqs)
    /\ Once(interrupts_db) /\ Once(banned_irqs) /\ Apart

IInv == Lists /\ Progress

(* g_list_append adds one element behind the others.                       *)
LEMMA AppendOne ==
    ASSUME NEW s, NEW e, IsList(s)
    PROVE  /\ IsList(Append(s, e))
           /\ DOMAIN Append(s, e) = (DOMAIN s) \cup {Len(s) + 1}
           /\ Len(s) + 1 \notin DOMAIN s
           /\ Append(s, e)[Len(s) + 1] = e
           /\ \A k \in DOMAIN s : Append(s, e)[k] = s[k]
<1>1. PICK S : s \in Seq(S)
  BY DEF IsList
<1>. DEFINE T == S \cup {e}
<1>2. s \in Seq(T) /\ e \in T /\ Len(s) \in Nat /\ DOMAIN s = 1..Len(s)
  BY <1>1
<1>. HIDE DEF T
<1>3. /\ Append(s, e) \in Seq(T) /\ Len(Append(s, e)) = Len(s) + 1
      /\ Append(s, e)[Len(s) + 1] = e /\ \A k \in 1..Len(s) : Append(s, e)[k] = s[k]
  BY <1>2
<1>4. DOMAIN Append(s, e) = 1..(Len(s) + 1)
  BY <1>3
<1>5. 1..(Len(s) + 1) = (1..Len(s)) \cup {Len(s) + 1} /\ Len(s) + 1 \notin 1..Len(s)
  BY <1>2
<1> QED
  BY <1>2, <1>3, <1>4, <1>5 DEF IsList

(* What is known after an append of an entry that was not known.           *)
LEMMA AppendNew ==
    ASSUME NEW s, NEW e, NEW i, IsList(s), e.irq = i
    PROVE  /\ IsList(Append(s, e))
           /\ \A j : Known(Append(s, e), j) <=> (Known(s, j) \/ j = i)
           /\ Once(s) /\ ~Known(s, i) => Once(Append(s, e))
<1>. DEFINE t == Append(s, e)
            l == Len(s) + 1
<1>1. /\ IsList(t) /\ DOMAIN t = (DOMAIN s) \cup {l} /\ l \notin DOMAIN s
      /\ t[l] = e /\ \A k \in DOMAIN s : t[k] = s[k]
  BY AppendOne
<1>. HIDE DEF t, l
<1>2. \A j : Known(t, j) <=> (Known(s, j) \/ j = i)
  BY <1>1 DEF Known
<1>3. ASSUME Once(s), ~Known(s, i)  PROVE Once(t)
  BY <1>1, <1>3 DEF Once, Known
<1> QED
  BY <1>1, <1>2, <1>3 DEF t

(* Before the first rebuild there is nothing in the lists.                 *)
LEMMA InitOK == Init => IInv
<1>. SUFFICES ASSUME Init PROVE IInv
  OBVIOUS
<1>1. <<>> \in Seq({}) /\ DOMAIN <<>> = {}
  OBVIOUS
<1>2. Lists
  BY <1>1 DEF Init, Lists, IsList, Once, Apart, Known
<1>3. Progress
  BY DEF Init, Progress
<1> QED
  BY <1>2, <1>3 DEF IInv

(* A step that puts an interrupt that was not known in one of the lists.   *)
LEMMA OneMore ==
    ASSUME Lists, NEW i, NEW e, e.irq = i, ~KnownIrq(i), Ban(i, e) \/ AddToDb(i, e)
    PROVE  Lists' /\ \A j : Listed(j)' <=> (Listed(j) \/ j = i)
<1>1. ~Known(interrupts_db, i) /\ ~Known(banned_irqs, i)
  BY DEF KnownIrq
<1>2. CASE Ban(i, e)
  <2>1. banned_irqs' = Append(banned_irqs, e) /\ interrupts_db' = interrupts_db
    BY <1>1, <1>2 DEF Ban
  <2>2. /\ IsList(banned_irqs') /\ Once(banned_irqs')
        /\ \A j : Known(banned_irqs', j) <=> (Known(banned_irqs, j) \/ j = i)
    BY <1>1, <2>1, AppendNew DEF Lists
  <2>3. IsList(interrupts_db') /\ Once(interrupts_db')
        /\ \A j : Known(interrupts_db', j) <=> Known(interrupts_db, j)
    BY <2>1 DEF Lists
  <2>4. Apart'
    BY <1>1, <2>2, <2>3 DEF Lists, Apart
  <2> QED
    BY <2>2, <2>3, <2>4 DEF Lists, Listed
<1>3. CASE AddToDb(i, e)
  <2>1. interrupts_db' = Append(interrupts_db, e) /\ banned_irqs' = banned_irqs
    BY <1>1, <1>3 DEF AddToDb, KnownIrq
  <2>2. /\ IsList(interrupts_db') /\ Once(interrupts_db')
        /\ \A j : Known(interrupts_db', j) <=> (Known(interrupts_db, j) \/ j = i)
    BY <1>1, <2>1, AppendNew DEF Lists
  <2>3. IsList(banned_irqs') /\ Once(banned_irqs')
        /\ \A j : Known(banned_irqs', j) <=> Known(banned_irqs, j)
    BY <2>1 DEF Lists
  <2>4. Apart'
    BY <1>1, <2>2, <2>3 DEF Lists, Apart
  <2> QED
    BY <2>2, <2>3, <2>4 DEF Lists, Listed
<1> QED
  BY <1>2, <1>3

(* Steps that leave both lists alone.                                      *)
LEMMA Untouched == ASSUME Lists, UNCHANGED dbVars PROVE Lists' /\ \A j : Listed(j)' <=> Listed(j)
  BY DEF Lists, dbVars, IsList, Once, Apart, Known, Listed

(* One interrupt of a device (lines 433-445 and 458-470).                  *)
LEMMA BuildIrqStep ==
    ASSUME Lists, NEW i, BuildIrq(i)
    PROVE  Lists' /\ \A j : Listed(j) => Listed(j)'
<1>. DEFINE pol == UserPolicy(dev, i)
            e   == [NewEntry(dev, i, pol) EXCEPT
                        !.type = IF kind = "msi" THEN "msix" ELSE "legacy"]
<1>1. CASE UNCHANGED dbVars
  BY <1>1, Untouched
<1>2. CASE ~KnownIrq(i) /\ Ban(i, BannedEntry(i))
  <2>1. BannedEntry(i).irq = i
    BY DEF BannedEntry
  <2> QED
    BY <1>2, <2>1, OneMore
<1>3. CASE ~KnownIrq(i) /\ AddToDb(i, e)
  <2>1. e.irq = i
    BY DEF NewEntry
  <2>. HIDE DEF e
  <2> QED
    BY <1>3, <2>1, OneMore
<1> QED
  BY <1>1, <1>2, <1>3 DEF BuildIrq

(* One interrupt of /proc/interrupts (lines 503-543).                      *)
LEMMA AddMissingStep ==
    ASSUME Lists, NEW i, AddMissingIrq(i)
    PROVE  Lists' /\ Listed(i)' /\ \A j : Listed(j) => Listed(j)'
<1>. DEFINE pol   == UserPolicy(Sys, i)
            class == IF i \in Events THEN "virt_event" ELSE IRQ_OTHER
            Override(entry) ==
                [entry EXCEPT !.class = class, !.level = map_class_to_level[class],
                              !.type = IF i \in Events THEN "virt_event" ELSE "legacy"]
            b == Override(BannedEntry(i))
            e == Override(NewEntry(Sys, i, pol))
<1>1. CASE KnownIrq(i) /\ UNCHANGED dbVars
  BY <1>1, Untouched DEF KnownIrq, Listed
<1>2. CASE ~KnownIrq(i) /\ Ban(i, b)
  <2>1. b.irq = i
    BY DEF BannedEntry
  <2>. HIDE DEF b
  <2> QED
    BY <1>2, <2>1, OneMore
<1>3. CASE ~KnownIrq(i) /\ AddToDb(i, e)
  <2>1. e.irq = i
    BY DEF NewEntry
  <2>. HIDE DEF e
  <2> QED
    BY <1>3, <2>1, OneMore
<1> QED
  BY <1>1, <1>2, <1>3 DEF AddMissingIrq

(* Every step keeps the lists and what is known.                           *)
LEMMA StepOK == IInv /\ [Next]_vars => IInv'
<1>. SUFFICES ASSUME IInv, [Next]_vars PROVE IInv'
  OBVIOUS
<1>. USE DEF IInv
<1>1. CASE UNCHANGED vars
  <2>1. Lists' /\ \A j : Listed(j)' <=> Listed(j)
    BY <1>1, Untouched DEF vars, dbVars
  <2> QED
    BY <1>1, <2>1 DEF vars, pastVars, Progress
<1>2. CASE Driver
  <2>1. Lists' /\ \A j : Listed(j)' <=> Listed(j)
    BY <1>2, Untouched DEF Driver, dbVars
  <2> QED
    BY <1>2, <2>1 DEF Driver, Progress
<1>3. CASE FreeIrqDb
  <2>1. <<>> \in Seq({}) /\ DOMAIN <<>> = {}
    OBVIOUS
  <2>2. Lists'
    BY <1>3, <2>1 DEF FreeIrqDb, Lists, IsList, Once, Apart, Known
  <2> QED
    BY <1>3, <2>2 DEF FreeIrqDb, Progress
<1>4. CASE CollectFullIrqList
  <2>1. Lists'
    BY <1>4, Untouched DEF CollectFullIrqList
  <2> QED
    BY <1>4, <2>1 DEF CollectFullIrqList, Progress
<1>5. CASE OpenSysdev
  <2>1. Lists'
    BY <1>5, Untouched DEF OpenSysdev
  <2> QED
    BY <1>5, <2>1 DEF OpenSysdev, Progress, pastVars
<1>6. CASE DeviceDone
  <2>1. Lists'
    BY <1>6, Untouched DEF DeviceDone
  <2> QED
    BY <1>6, <2>1 DEF DeviceDone, Progress, pastVars
<1>7. CASE CloseSysdev
  <2>1. Lists'
    BY <1>7, Untouched DEF CloseSysdev
  <2> QED
    BY <1>7, <2>1 DEF CloseSysdev, Progress, pastVars
<1>8. CASE Rebuilt
  <2>1. Lists' /\ \A j : Listed(j)' <=> Listed(j)
    BY <1>8, Untouched DEF Rebuilt
  <2> QED
    BY <1>8, <2>1 DEF Rebuilt, Progress, pastVars
<1>9. ASSUME NEW d \in Devices, OpenDevice(d) PROVE IInv'
  <2>1. Lists'
    BY <1>9, Untouched DEF OpenDevice
  <2> QED
    BY <1>9, <2>1 DEF OpenDevice, Progress, pastVars
<1>10. ASSUME NEW i \in Irqs, BuildIrq(i) PROVE IInv'
  <2>1. Lists'
    BY <1>10, BuildIrqStep
  <2> QED
    BY <1>10, <2>1 DEF BuildIrq, Progress, pastVars
<1>11. ASSUME NEW i \in Irqs, AddMissingIrq(i) PROVE IInv'
  <2>1. Lists' /\ Listed(i)' /\ \A j : Listed(j) => Listed(j)'
    BY <1>11, AddMissingStep
  <2> QED
    BY <1>11, <2>1 DEF AddMissingIrq, Progress, pastVars
<1> QED
  BY <1>1, <1>2, <1>3, <1>4, <1>5, <1>6, <1>7, <1>8, <1>9, <1>10, <1>11 DEF Next, RebuildIrqDb

(* The entries of two lists one behind the other.                          *)
LEMMA BothLists ==
    ASSUME Lists
    PROVE  \A i : Listed(i) => i \in IrqsIn(interrupts_db \o banned_irqs)
<1>. DEFINE a == interrupts_db
            b == banned_irqs
<1>1. PICK A : a \in Seq(A)
  BY DEF Lists, IsList
<1>2. PICK B : b \in Seq(B)
  BY DEF Lists, IsList
<1>. DEFINE S == A \cup B
            n == Len(a)
            l == Len(b)
<1>. HIDE DEF a, b
<1>3. a \in Seq(S) /\ b \in Seq(S) /\ n \in Nat /\ l \in Nat
  BY <1>1, <1>2
<1>. HIDE DEF S
<1>4. /\ a \o b \in Seq(S) /\ Len(a \o b) = n + l
      /\ \A k \in 1..n : (a \o b)[k] = a[k]
      /\ \A k \in 1..l : (a \o b)[n + k] = b[k]
  BY <1>3
<1>5. DOMAIN a = 1..n /\ DOMAIN b = 1..l /\ DOMAIN (a \o b) = 1..(n + l)
  BY <1>3, <1>4
<1>. HIDE DEF n, l
<1>6. ASSUME NEW i, NEW k \in 1..n, a[k].irq = i PROVE i \in IrqsIn(a \o b)
  <2>1. k \in 1..(n + l)
    BY <1>3
  <2> QED
    BY <1>4, <1>5, <1>6, <2>1 DEF IrqsIn
<1>7. ASSUME NEW i, NEW k \in 1..l, b[k].irq = i PROVE i \in IrqsIn(a \o b)
  <2>1. n + k \in 1..(n + l)
    BY <1>3
  <2> QED
    BY <1>4, <1>5, <1>7, <2>1 DEF IrqsIn
<1> QED
  BY <1>5, <1>6, <1>7 DEF Listed, Known, a, b

(* What the run checks follows.                                            *)
LEMMA Implied == IInv => KnownOnce
<1>. SUFFICES ASSUME IInv PROVE KnownOnce
  OBVIOUS
<1>1. EachOnce
  <2>1. IrqsIn(interrupts_db) \cap IrqsIn(banned_irqs) = {}
    BY DEF IInv, Lists, Apart, Known, IrqsIn
  <2> QED
    BY <2>1 DEF IInv, Lists, Once, EachOnce
<1>2. ASSUME Done, HasSysdev PROVE collected \subseteq IrqsIn(interrupts_db \o banned_irqs)
  <2>1. \A i \in collected : Listed(i)
    BY <1>2 DEF Done, IInv, Progress
  <2> QED
    BY <2>1, BothLists DEF IInv
<1> QED
  BY <1>1, <1>2 DEF KnownOnce

(* An interrupt never has two entries, and after rebuild_irq_db every      *)
(* interrupt that was in /proc/interrupts has one, for any devices,        *)
(* scripts and interleaving with the drivers (classify.c, lines 435, 460,  *)
(* 508 and 538).                                                           *)
THEOREM EveryIrqKnownOnce == Spec => []KnownOnce
<1>1. Init => IInv
  BY InitOK
<1>2. IInv /\ [Next]_vars => IInv'
  BY StepOK
<1>3. IInv => KnownOnce
  BY Implied
<1> QED
  BY <1>1, <1>2, <1>3, PTL DEF Spec

-----------------------------------------------------------------------------
(* That a device decides on its own interrupts                             *)

(* Device d has been asked about interrupt i, or will not be.              *)
Asked(d, i) == d \notin unread /\ (dev = d => i \notin irqnums)

(* The entry that belongs to the device.                                   *)
OfDevice(e, d, i) ==
    /\ e.irq = i
    /\ e.type = IF mode[d] = "msi" THEN "msix" ELSE "legacy"
    /\ e.cpumask = IF d \in Local THEN d ELSE "all"

(* What OwnerDecides wants for one interrupt.                              *)
Decided(d, i) ==
    IF Banned(d, i) THEN Known(banned_irqs, i)
    ELSE \E k \in DOMAIN interrupts_db : OfDevice(interrupts_db[k], d, i)

Walking == pc \in {"dir", "dev"}

(* What the walk over SYSDEV_DIR is at.                                    *)
Walk ==
    /\ mode \in [Devices -> {"absent", "idle", "line", "msi"}]
    /\ unread \subseteq Devices
    /\ pc \in {"collect", "open"} => \A i : ~Listed(i)
    /\ pc = "dev" <=> dev \in Devices
    /\ pc # "dev" => irqnums = {}
    /\ ~Walking => unread = {}
    /\ pc = "dev" => dev \notin unread
    /\ Walking \/ pc = "missing" => HasSysdev

(* As long as nothing has changed since the rebuild began, it sees the     *)
(* devices as they are.                                                    *)
Sees ==
    quiet /\ Walking =>
        /\ listed = Present
        /\ pc = "dev" => /\ kind = (IF mode[dev] = "msi" THEN "msi" ELSE "line")
                         /\ \A i \in irqnums : dev \in Owners(i)

(* What is listed is there because of a device that uses it.               *)
FromOwner ==
    quiet /\ Walking => \A i : Listed(i) => \E d \in Owners(i) : Asked(d, i)

(* A device that alone uses an interrupt has its way once it was asked.    *)
OwnersWay ==
    quiet /\ HasSysdev /\ (Walking \/ pc = "missing" \/ Done) =>
        \A d \in Devices, i \in Irqs : Owners(i) = {d} /\ Asked(d, i) => Decided(d, i)

Unbalanced == \A i \in ClBanned : ~Known(interrupts_db, i)

OwnInv == Walk /\ Sees /\ FromOwner /\ OwnersWay /\ Unbalanced

(* The user's scripts do not change; the kind of the device may.           *)
LEMMA BannedSame ==
    ASSUME NEW d, NEW i, mode' = mode
    PROVE  Banned(d, i)' <=> Banned(d, i)
  BY DEF Banned, CheckForIrqBan

(* The devices use the same interrupts as before.                          *)
LEMMA OwnersSame ==
    ASSUME NEW i, mode' = mode
    PROVE  Owners(i)' = Owners(i)
  BY DEF Owners

(* Nothing is taken out of the lists.                                      *)
Kept ==
    /\ \A j : Known(banned_irqs, j) => Known(banned_irqs, j)'
    /\ \A k \in DOMAIN interrupts_db :
           k \in DOMAIN interrupts_db' /\ interrupts_db'[k] = interrupts_db[k]

(* More entries, and the same ones before.                                 *)
LEMMA Monotone ==
    ASSUME mode' = mode, NEW d, NEW i, Decided(d, i), Kept
    PROVE  Decided(d, i)'
<1>1. CASE Banned(d, i)
  BY <1>1, BannedSame DEF Decided, Kept
<1>2. CASE ~Banned(d, i)
  <2>1. PICK k \in DOMAIN interrupts_db : OfDevice(interrupts_db[k], d, i)
    BY <1>2 DEF Decided
  <2>2. OfDevice(interrupts_db[k], d, i)'
    BY <2>1 DEF OfDevice, Kept
  <2> QED
    BY <1>2, <2>2, BannedSame DEF Decided, Kept
<1> QED
  BY <1>1, <1>2

(* A ban leaves the entries alone and makes the interrupt a banned one.    *)
LEMMA AfterBan ==
    ASSUME Lists, NEW i, NEW e, e.irq = i, ~KnownIrq(i), Ban(i, e)
    PROVE  Kept /\ Known(banned_irqs, i)' /\ interrupts_db' = interrupts_db
<1>1. ~Known(banned_irqs, i)
  BY DEF KnownIrq
<1>2. banned_irqs' = Append(banned_irqs, e) /\ interrupts_db' = interrupts_db
  BY <1>1 DEF Ban
<1>3. \A j : Known(banned_irqs', j) <=> (Known(banned_irqs, j) \/ j = i)
  BY <1>2, AppendNew DEF Lists
<1> QED
  BY <1>2, <1>3 DEF Kept

(* An entry is added behind the others.                                    *)
LEMMA AfterAdd ==
    ASSUME Lists, NEW i, NEW e, e.irq = i, ~KnownIrq(i), AddToDb(i, e)
    PROVE  /\ Kept /\ \E k \in DOMAIN interrupts_db' : interrupts_db'[k] = e
           /\ \A j : Known(interrupts_db, j)' => (Known(interrupts_db, j) \/ j = i)
<1>1. interrupts_db' = Append(interrupts_db, e) /\ banned_irqs' = banned_irqs
  BY DEF AddToDb
<1>2. /\ DOMAIN interrupts_db' = (DOMAIN interrupts_db) \cup {Len(interrupts_db) + 1}
      /\ interrupts_db'[Len(interrupts_db) + 1] = e
      /\ \A k \in DOMAIN interrupts_db : interrupts_db'[k] = interrupts_db[k]
  BY <1>1, AppendOne DEF Lists
<1>3. \A j : Known(interrupts_db', j) <=> (Known(interrupts_db, j) \/ j = i)
  BY <1>1, AppendNew DEF Lists
<1> QED
  BY <1>1, <1>2, <1>3 DEF Kept

(* What build_one_dev_entry does with an interrupt, as an entry of the     *)
(* device or a ban.                                                        *)
LEMMA BuildIrqDecides ==
    ASSUME Lists, Walk, NEW i, BuildIrq(i)
    PROVE  /\ Kept
           /\ \A j : Listed(j)' => (Listed(j) \/ j = i)
           /\ Unbalanced => Unbalanced'
           /\ ~Listed(i) /\ kind = (IF mode[dev] = "msi" THEN "msi" ELSE "line")
                /\ mode[dev] # "absent" => Decided(dev, i)'
<1>. DEFINE pol == UserPolicy(dev, i)
            e   == [NewEntry(dev, i, pol) EXCEPT
                        !.type = IF kind = "msi" THEN "msix" ELSE "legacy"]
<1>1. mode' = mode /\ dev' = dev /\ dev \in Devices /\ dev # Sys
  BY DbAssumption DEF BuildIrq, Walk, worldVars
<1>2. CASE UNCHANGED dbVars /\ KnownIrq(i)
  BY <1>2, Untouched DEF KnownIrq, Listed, dbVars, Unbalanced, Kept
<1>3. CASE ~KnownIrq(i) /\ (pol.ban = 1 \/ CheckForIrqBan(dev, ScriptFile, i)) /\ Ban(i, BannedEntry(i))
  <2>1. BannedEntry(i).irq = i
    BY DEF BannedEntry
  <2>2. /\ Kept /\ Known(banned_irqs, i)' /\ interrupts_db' = interrupts_db
        /\ \A j : Listed(j)' => (Listed(j) \/ j = i)
    BY <1>3, <2>1, OneMore, AfterBan
  <2>3. ASSUME kind = (IF mode[dev] = "msi" THEN "msi" ELSE "line")
        PROVE  Banned(dev, i)
    BY <1>3, <2>3 DEF ScriptFile, Banned
  <2> QED
    BY <1>1, <2>2, <2>3, BannedSame DEF Decided, Unbalanced
<1>4. CASE ~KnownIrq(i) /\ ~(pol.ban = 1 \/ CheckForIrqBan(dev, ScriptFile, i)) /\ AddToDb(i, e)
  <2>1. /\ e.irq = i /\ e.type = (IF kind = "msi" THEN "msix" ELSE "legacy")
        /\ mode[dev] # "absent" => e.cpumask = (IF dev \in Local THEN dev ELSE "all")
    BY <1>1 DEF NewEntry
  <2>2. i \notin ClBanned
    BY <1>4 DEF CheckForIrqBan
  <2>3. ASSUME kind = (IF mode[dev] = "msi" THEN "msi" ELSE "line")
        PROVE  ~Banned(dev, i)
    BY <1>4, <2>3 DEF ScriptFile, Banned
  <2>. HIDE DEF e
  <2>4. /\ Kept /\ \E k \in DOMAIN interrupts_db' : interrupts_db'[k] = e
        /\ \A j : Known(interrupts_db, j)' => (Known(interrupts_db, j) \/ j = i)
        /\ \A j : Listed(j)' => (Listed(j) \/ j = i)
    BY <1>4, <2>1, OneMore, AfterAdd
  <2>5. ASSUME kind = (IF mode[dev] = "msi" THEN "msi" ELSE "line"), mode[dev] # "absent"
        PROVE  Decided(dev, i)'
    <3>1. PICK k \in DOMAIN interrupts_db' : interrupts_db'[k] = e
      BY <2>4
    <3>2. OfDevice(interrupts_db[k], dev, i)'
      BY <1>1, <2>1, <2>5, <3>1 DEF OfDevice
    <3>3. ~Banned(dev, i)'
      BY <1>1, <2>3, <2>5, BannedSame
    <3> QED
      BY <1>1, <3>2, <3>3 DEF Decided
  <2> QED
    BY <2>2, <2>4, <2>5 DEF Unbalanced
<1> QED
  BY <1>2, <1>3, <1>4 DEF BuildIrq

(* One interrupt of a device.                                              *)
LEMMA BuildIrqOwn ==
    ASSUME Lists, OwnInv, NEW i \in Irqs, BuildIrq(i)
    PROVE  OwnInv'
<1>1. /\ UNCHANGED <<mode, quiet, pc, unread, listed, dev, kind, rebuilds>>
      /\ i \in irqnums /\ irqnums' = irqnums \ {i} /\ pc = "dev"
      /\ dev \in Devices /\ dev \notin unread
  BY DEF BuildIrq, OwnInv, Walk, worldVars, pastVars
<1>2. /\ Kept /\ Unbalanced'
      /\ \A j : Listed(j)' => (Listed(j) \/ j = i)
      /\ ~Listed(i) /\ kind = (IF mode[dev] = "msi" THEN "msi" ELSE "line")
           /\ mode[dev] # "absent" => Decided(dev, i)'
  BY BuildIrqDecides DEF OwnInv
<1>3. Walk'
  BY <1>1 DEF OwnInv, Walk, Walking
<1>4. \A j : Owners(j)' = Owners(j)
  BY <1>1, OwnersSame
<1>5. Sees'
  BY <1>1, <1>4 DEF OwnInv, Sees, Walking, Present
<1>6. \A d, j : Asked(d, j) => Asked(d, j)'
  BY <1>1 DEF Asked
<1>7. Asked(dev, i)' /\ \A d, j : Asked(d, j)' => (Asked(d, j) \/ (d = dev /\ j = i))
  BY <1>1 DEF Asked
<1>8. quiet => dev \in Owners(i) /\ kind = (IF mode[dev] = "msi" THEN "msi" ELSE "line")
  BY <1>1 DEF OwnInv, Sees, Walking
<1>9. FromOwner'
  <2> SUFFICES ASSUME quiet, NEW j, Listed(j)' PROVE \E d \in Owners(j) : Asked(d, j)'
    BY <1>1, <1>4 DEF FromOwner
  <2>1. CASE Listed(j)
    BY <1>1, <1>6, <2>1 DEF OwnInv, FromOwner, Walking
  <2>2. CASE j = i
    BY <1>1, <1>7, <1>8, <2>2
  <2> QED
    BY <1>2, <2>1, <2>2
<1>10. OwnersWay'
  <2> SUFFICES ASSUME quiet, HasSysdev, NEW d \in Devices, NEW j \in Irqs,
                      Owners(j) = {d}, Asked(d, j)'
               PROVE  Decided(d, j)'
    BY <1>1, <1>4 DEF OwnersWay
  <2>1. CASE Asked(d, j)
    BY <1>1, <1>2, <2>1, Monotone DEF OwnInv, OwnersWay, Walking
  <2>2. CASE ~Asked(d, j)
    <3>1. d = dev /\ j = i
      BY <1>7, <2>2
    <3>2. ~Listed(i)
      BY <1>1, <2>2, <3>1 DEF OwnInv, FromOwner, Walking
    <3>3. mode[dev] # "absent"
      BY <1>8 DEF Owners
    <3> QED
      BY <1>1, <1>2, <1>8, <3>1, <3>2, <3>3
  <2> QED
    BY <2>1, <2>2
<1> QED
  BY <1>2, <1>3, <1>5, <1>9, <1>10 DEF OwnInv

(* An interrupt that is only in /proc/interrupts.                          *)
LEMMA AddMissingOwn ==
    ASSUME Lists, OwnInv, NEW i \in Irqs, AddMissingIrq(i)
    PROVE  OwnInv'
<1>. DEFINE pol   == UserPolicy(Sys, i)
            class == IF i \in Events THEN "virt_event" ELSE IRQ_OTHER
            Override(entry) ==
                [entry EXCEPT !.class = class, !.level = map_class_to_level[class],
                              !.type = IF i \in Events THEN "virt_event" ELSE "legacy"]
            b == Override(BannedEntry(i))
            e == Override(NewEntry(Sys, i, pol))
<1>1. Kept /\ Unbalanced'
  <2>1. CASE KnownIrq(i) /\ UNCHANGED dbVars
    BY <2>1 DEF dbVars, Unbalanced, Kept, OwnInv
  <2>2. CASE ~KnownIrq(i) /\ Ban(i, b)
    <3>1. b.irq = i
      BY DEF BannedEntry
    <3>. HIDE DEF b
    <3> QED
      BY <2>2, <3>1, AfterBan DEF Unbalanced, OwnInv
  <2>3. CASE ~KnownIrq(i) /\ ~CheckForIrqBan("", "", i) /\ AddToDb(i, e)
    <3>1. e.irq = i
      BY DEF NewEntry
    <3>. HIDE DEF e
    <3>2. i \notin ClBanned
      BY <2>3 DEF CheckForIrqBan
    <3>3. Kept /\ \A j : Known(interrupts_db, j)' => (Known(interrupts_db, j) \/ j = i)
      BY <2>3, <3>1, AfterAdd
    <3> QED
      BY <3>2, <3>3 DEF Unbalanced, OwnInv
  <2> QED
    BY <2>1, <2>2, <2>3 DEF AddMissingIrq
<1>2. /\ UNCHANGED <<mode, quiet, pc, unread, listed, dev, kind, irqnums, rebuilds>>
      /\ pc = "missing"
  BY DEF AddMissingIrq, worldVars, dirVars, pastVars
<1>3. Walk' /\ Sees' /\ FromOwner'
  BY <1>2 DEF OwnInv, Walk, Sees, FromOwner, Walking
<1>4. OwnersWay'
  <2> SUFFICES ASSUME quiet, HasSysdev, NEW d \in Devices, NEW j \in Irqs,
                      Owners(j) = {d}, Asked(d, j)
               PROVE  Decided(d, j)'
    BY <1>2, OwnersSame DEF OwnersWay, Asked
  <2> QED
    BY <1>1, <1>2, Monotone DEF OwnInv, OwnersWay
<1> QED
  BY <1>1, <1>3, <1>4 DEF OwnInv

(* Steps that leave the lists and the machine alone.                       *)
LEMMA SameLists ==
    ASSUME UNCHANGED dbVars, mode' = mode, OwnInv
    PROVE  /\ Kept /\ Unbalanced' /\ \A i : Listed(i)' <=> Listed(i)
           /\ \A d, i : Decided(d, i) => Decided(d, i)'
           /\ \A i : Owners(i)' = Owners(i)
           /\ Present' = Present
<1>1. Kept /\ Unbalanced' /\ \A i : Listed(i)' <=> Listed(i)
  BY DEF dbVars, Kept, Unbalanced, Listed, Known, OwnInv
<1> QED
  BY <1>1, Monotone, OwnersSame DEF Present

(* Every step keeps what decides about the interrupts of one device.       *)
LEMMA OwnNext ==
    ASSUME Lists, OwnInv, [Next]_vars
    PROVE  OwnInv'
<1>1. CASE UNCHANGED vars
  <2>1. UNCHANGED <<mode, quiet, pc, unread, listed, dev, kind, irqnums, rebuilds, dbVars>>
    BY <1>1 DEF vars, worldVars, dirVars, pastVars
  <2>2. Walk'
    BY <2>1, SameLists DEF OwnInv, Walk, Walking
  <2>3. Sees'
    BY <2>1, SameLists DEF OwnInv, Sees, Walking
  <2>4. FromOwner' /\ OwnersWay'
    BY <2>1, SameLists DEF OwnInv, FromOwner, OwnersWay, Walking, Asked, Done
  <2> QED
    BY <2>1, <2>2, <2>3, <2>4, SameLists DEF OwnInv
<1>2. CASE Driver
  <2>1. UNCHANGED <<pc, unread, dev, irqnums, dbVars>> /\ quiet' = FALSE
    BY <1>2 DEF Driver, dirVars
  <2>2. mode' \in [Devices -> {"absent", "idle", "line", "msi"}]
    BY <1>2 DEF Driver, OwnInv, Walk
  <2>3. Walk'
    BY <2>1, <2>2 DEF OwnInv, Walk, Walking, dbVars, Listed, Known
  <2> QED
    BY <2>1, <2>3 DEF OwnInv, Sees, FromOwner, OwnersWay, Unbalanced, dbVars
<1>3. CASE FreeIrqDb
  <2>1. DOMAIN <<>> = {}
    OBVIOUS
  <2>2. /\ pc = "idle" /\ pc' = "collect" /\ UNCHANGED <<mode, unread, dev, irqnums>>
        /\ interrupts_db' = <<>> /\ banned_irqs' = <<>>
    BY <1>3 DEF FreeIrqDb, worldVars, dirVars
  <2>3. Walk' /\ Unbalanced'
    BY <2>1, <2>2 DEF OwnInv, Walk, Walking, Unbalanced, Listed, Known
  <2> QED
    BY <2>2, <2>3 DEF OwnInv, Sees, FromOwner, OwnersWay, Walking, Done
<1>4. CASE CollectFullIrqList
  <2>1. /\ pc = "collect" /\ pc' = "open"
        /\ UNCHANGED <<mode, unread, dev, irqnums, dbVars>>
    BY <1>4 DEF CollectFullIrqList, worldVars, dirVars
  <2>2. Walk' /\ Unbalanced'
    BY <2>1, SameLists DEF OwnInv, Walk, Walking
  <2> QED
    BY <2>1, <2>2 DEF OwnInv, Sees, FromOwner, OwnersWay, Walking, Done
<1>5. CASE OpenSysdev
  <2>1. /\ pc = "open" /\ UNCHANGED <<mode, dev, irqnums, dbVars>>
        /\ IF HasSysdev THEN pc' = "dir" /\ unread' = Devices /\ listed' = Present
                        ELSE pc' = "idle" /\ unread' = unread
    BY <1>5 DEF OpenSysdev, worldVars
  <2>2. /\ Unbalanced' /\ \A i : ~Listed(i)' /\ Present' = Present
        /\ \A i : Owners(i)' = Owners(i) /\ Owners(i) \subseteq Devices
    BY <2>1, SameLists DEF OwnInv, Walk, Owners
  <2>3. Walk'
    BY <2>1, <2>2 DEF OwnInv, Walk, Walking
  <2>4. Sees' /\ FromOwner' /\ OwnersWay'
    BY <2>1, <2>2 DEF Sees, FromOwner, OwnersWay, Walking, Asked
  <2> QED
    BY <2>2, <2>3, <2>4 DEF OwnInv
<1>6. ASSUME NEW d \in Devices, OpenDevice(d) PROVE OwnInv'
  <2>1. /\ UNCHANGED <<mode, quiet, listed, rebuilds, dbVars>>
        /\ pc = "dir" /\ pc' = "dev" /\ dev' = d /\ unread' = unread \ {d}
        /\ d \in unread /\ mode[d] # "absent"
        /\ kind' = (IF mode[d] = "msi" THEN "msi" ELSE "line")
        /\ irqnums' = IF mode[d] = "msi" THEN Messages[d] ELSE {Line[d]} \ {0}
    BY <1>6 DEF OpenDevice, worldVars, pastVars, Present
  <2>2. /\ Unbalanced' /\ \A i : (Listed(i)' <=> Listed(i)) /\ Owners(i)' = Owners(i)
        /\ Present' = Present /\ \A c, i : Decided(c, i) => Decided(c, i)'
    BY <2>1, SameLists
  <2>3. Walk'
    BY <2>1, <2>2 DEF OwnInv, Walk, Walking
  <2>4. \A i \in irqnums' : d \in Owners(i)
    BY <2>1 DEF OwnInv, Walk, Owners
  <2>5. Sees'
    BY <2>1, <2>2, <2>4 DEF OwnInv, Sees, Walking
  <2>6. \A c, i : Asked(c, i) => Asked(c, i)'
    BY <2>1 DEF Asked
  <2>7. FromOwner'
    BY <2>1, <2>2, <2>6 DEF OwnInv, FromOwner, Walking
  <2>8. ASSUME NEW c \in Devices, NEW i \in Irqs, quiet, HasSysdev, Owners(i) = {c}, Asked(c, i)'
        PROVE  Decided(c, i)'
    <3>1. CASE c = d
      <4>1. i \notin irqnums' /\ d \in Owners(i)
        BY <2>1, <2>8, <3>1 DEF Asked
      <4>2. i \in irqnums'
        BY <2>1, <4>1 DEF Owners
      <4> QED
        BY <4>1, <4>2
    <3>2. CASE c # d
      BY <2>1, <2>2, <2>8, <3>2 DEF OwnInv, OwnersWay, Walk, Walking, Asked
    <3> QED
      BY <3>1, <3>2
  <2>9. OwnersWay'
    BY <2>1, <2>2, <2>8 DEF OwnersWay
  <2> QED
    BY <2>2, <2>3, <2>5, <2>7, <2>9 DEF OwnInv
<1>7. CASE DeviceDone
  <2>1. /\ UNCHANGED <<mode, quiet, listed, unread, irqnums, rebuilds, dbVars>>
        /\ pc = "dev" /\ pc' = "dir" /\ dev' = Sys /\ irqnums = {}
    BY <1>7 DEF DeviceDone, worldVars, pastVars
  <2>2. /\ Unbalanced' /\ \A i : (Listed(i)' <=> Listed(i)) /\ Owners(i)' = Owners(i)
        /\ Present' = Present /\ \A c, i : Decided(c, i) => Decided(c, i)'
    BY <2>1, SameLists
  <2>3. Walk'
    BY <2>1, <2>2, DbAssumption DEF OwnInv, Walk, Walking
  <2>4. \A c, i : Asked(c, i)' <=> Asked(c, i)
    BY <2>1 DEF Asked
  <2>5. Sees' /\ FromOwner' /\ OwnersWay'
    BY <2>1, <2>2, <2>4 DEF OwnInv, Sees, FromOwner, OwnersWay, Walking
  <2> QED
    BY <2>2, <2>3, <2>5 DEF OwnInv
<1>8. CASE CloseSysdev
  <2>1. /\ UNCHANGED <<mode, quiet, dev, irqnums, rebuilds, dbVars>>
        /\ pc = "dir" /\ pc' = "missing" /\ unread' = {} /\ irqnums = {}
        /\ unread \cap listed \cap Present = {}
    BY <1>8 DEF CloseSysdev, worldVars, pastVars, OwnInv, Walk
  <2>2. /\ Unbalanced' /\ \A i : (Listed(i)' <=> Listed(i)) /\ Owners(i)' = Owners(i)
        /\ \A c, i : Decided(c, i) => Decided(c, i)'
    BY <2>1, SameLists
  <2>3. Walk'
    BY <2>1, <2>2 DEF OwnInv, Walk, Walking
  <2>4. ASSUME NEW c \in Devices, NEW i \in Irqs, quiet, Owners(i) = {c} PROVE Asked(c, i)
    BY <2>1, <2>4 DEF OwnInv, Sees, Walking, Owners, Present, Asked
  <2>5. OwnersWay'
    BY <2>1, <2>2, <2>4 DEF OwnInv, OwnersWay, Walking
  <2> QED
    BY <2>1, <2>2, <2>3, <2>5 DEF OwnInv, Sees, FromOwner, Walking
<1>9. CASE Rebuilt
  <2>1. /\ UNCHANGED <<mode, quiet, dev, unread, irqnums, rebuilds, dbVars>>
        /\ pc = "missing" /\ pc' = "idle"
    BY <1>9 DEF Rebuilt, worldVars, dirVars, pastVars
  <2>2. /\ Unbalanced' /\ \A i : (Listed(i)' <=> Listed(i)) /\ Owners(i)' = Owners(i)
        /\ \A c, i : Decided(c, i) => Decided(c, i)'
    BY <2>1, SameLists
  <2>3. Walk'
    BY <2>1, <2>2 DEF OwnInv, Walk, Walking
  <2>4. OwnersWay'
    BY <2>1, <2>2 DEF OwnInv, OwnersWay, Asked
  <2> QED
    BY <2>1, <2>2, <2>3, <2>4 DEF OwnInv, Sees, FromOwner, Walking
<1>10. ASSUME NEW i \in Irqs, BuildIrq(i) PROVE OwnInv'
  BY <1>10, BuildIrqOwn
<1>11. ASSUME NEW i \in Irqs, AddMissingIrq(i) PROVE OwnInv'
  BY <1>11, AddMissingOwn
<1> QED
  BY <1>1, <1>2, <1>3, <1>4, <1>5, <1>6, <1>7, <1>8, <1>9, <1>10, <1>11 DEF Next, RebuildIrqDb

(* What is banned on the command line is never balanced, and once a        *)
(* rebuild in which nothing changed is over, an interrupt that one device  *)
(* uses is banned or has the entry of that device, for any scripts and any *)
(* order of the directory (lines 400-475 before 503-543).                  *)
THEOREM OwnersDecide == Spec => []OwnerDecides
<1>1. Init => OwnInv
  <2> SUFFICES ASSUME Init PROVE OwnInv
    OBVIOUS
  <2>1. DOMAIN <<>> = {}
    OBVIOUS
  <2>2. Walk /\ Unbalanced
    BY <2>1, DbAssumption DEF Init, Walk, Walking, Unbalanced, Listed, Known
  <2> QED
    BY <2>2 DEF Init, OwnInv, Sees, FromOwner, OwnersWay, Walking, Done
<1>2. IInv /\ OwnInv => OwnerDecides
  <2> SUFFICES ASSUME IInv, OwnInv PROVE OwnerDecides
    OBVIOUS
  <2>1. IrqsIn(interrupts_db) \cap ClBanned = {}
    BY DEF OwnInv, Unbalanced, Known, IrqsIn
  <2>2. ASSUME Done, quiet, HasSysdev, NEW d \in Devices, NEW i \in Irqs, Owners(i) = {d}
        PROVE  Decided(d, i)
    <3>1. Asked(d, i)
      BY <2>2 DEF OwnInv, Walk, Walking, Done, Asked
    <3> QED
      BY <2>2, <3>1 DEF OwnInv, OwnersWay
  <2>3. ASSUME NEW d \in Devices, NEW i \in Irqs, Decided(d, i)
        PROVE  IF Banned(d, i) THEN i \in IrqsIn(banned_irqs)
               ELSE \E k \in DOMAIN interrupts_db : OfDevice(interrupts_db[k], d, i)
    BY <2>3 DEF Decided, Known, IrqsIn
  <2> QED
    BY <2>1, <2>2, <2>3 DEF OwnerDecides, OfDevice
<1>3. OwnInv /\ IInv /\ [Next]_vars => OwnInv'
  BY OwnNext DEF IInv
<1> QED
  BY <1>1, <1>2, <1>3, InitOK, StepOK, PTL DEF Spec
-----------------------------------------------------------------------------
(* What the lists hold                                                     *)

(* A set of natural numbers that is not empty has a least member.          *)
LEMMA Least ==
    ASSUME NEW T, T \subseteq Nat, T # {}
    PROVE  \E x \in T : \A y \in T : x <= y
<1>. DEFINE R == {ss \in Nat \X Nat : ss[1] < ss[2]}
<1>1. IsWellFoundedOn(R, Nat)
  BY NatLessThanWellFounded DEF OpToRel
<1>2. PICK x \in T : \A y \in T : ~(<<y, x>> \in R)
  BY <1>1, WFMin
<1>3. ASSUME NEW y \in T PROVE x <= y
  <2>1. x \in Nat /\ y \in Nat /\ <<y, x>> \in Nat \X Nat /\ <<y, x>> \notin R
    BY <1>2, <1>3
  <2>2. ~(y < x)
    BY <2>1
  <2> QED
    BY <2>1, <2>2
<1> QED
  BY <1>3

(* A set that contains zero and with a number the next one contains all.   *)
LEMMA Induct ==
    ASSUME NEW T, 0 \in T, \A n \in Nat : n \in T => n + 1 \in T
    PROVE  Nat \subseteq T
<1>. DEFINE U == Nat \ T
<1>1. SUFFICES ASSUME U # {} PROVE FALSE
  OBVIOUS
<1>2. PICK x \in U : \A y \in U : x <= y
  BY <1>1, Least
<1>3. x # 0 /\ x - 1 \in Nat /\ x - 1 \notin U
  BY <1>2
<1>4. x - 1 \in T => (x - 1) + 1 \in T
  BY <1>3
<1> QED
  BY <1>2, <1>3, <1>4

(* What FoldLeft chooses: the results of the loop on the first elements.   *)
Top(t) == CHOOSE x \in t : \A y \in t : x >= y
Folds(g, b, s, n) ==
    g = [t \in SUBSET (1..n) |-> IF t = {} THEN b ELSE ParseKey(g[t \ {Top(t)}], s[Top(t)])]
Folded(b, s) == (CHOOSE g : Folds(g, b, s, Len(s)))[1..Len(s)]

(* The largest of the first n indices, if it is among them, is the last.   *)
LEMMA TopIs ==
    ASSUME NEW n \in Nat, NEW t \in SUBSET (1..n), n \in t
    PROVE  Top(t) = n
<1>1. \A y \in t : n >= y
  OBVIOUS
<1>2. \A x \in t : (\A y \in t : x >= y) => x = n
  OBVIOUS
<1> QED
  BY <1>1, <1>2 DEF Top

(* There is such a function, by induction over the number of turns.        *)
LEMMA FoldExists ==
    ASSUME NEW b, NEW s
    PROVE  \A n \in Nat : \E g : Folds(g, b, s, n)
<1>. DEFINE T == {n \in Nat : \E g : Folds(g, b, s, n)}
<1>1. 0 \in T
  <2>. DEFINE g == [t \in SUBSET (1..0) |-> b]
  <2>1. g = [t \in SUBSET (1..0) |-> IF t = {} THEN b ELSE ParseKey(g[t \ {Top(t)}], s[Top(t)])]
    OBVIOUS
  <2> QED
    BY <2>1 DEF Folds
<1>2. ASSUME NEW n \in Nat, n \in T PROVE n + 1 \in T
  <2>1. PICK g : Folds(g, b, s, n)
    BY <1>2
  <2>. DEFINE h == [t \in SUBSET (1..(n + 1)) |->
                       IF n + 1 \in t THEN ParseKey(g[t \ {n + 1}], s[n + 1]) ELSE g[t]]
  <2>2. ASSUME NEW t \in SUBSET (1..(n + 1))
        PROVE  h[t] = IF t = {} THEN b ELSE ParseKey(h[t \ {Top(t)}], s[Top(t)])
    <3>1. CASE n + 1 \in t
      <4>1. Top(t) = n + 1
        BY <3>1, TopIs
      <4>2. t \ {n + 1} \in SUBSET (1..(n + 1)) /\ n + 1 \notin t \ {n + 1}
        OBVIOUS
      <4>3. h[t \ {n + 1}] = g[t \ {n + 1}]
        BY <4>2
      <4> QED
        BY <3>1, <4>1, <4>3
    <3>2. CASE n + 1 \notin t
      <4>1. t \in SUBSET (1..n)
        BY <3>2
      <4>2. h[t] = g[t]
        BY <3>2
      <4>3. g[t] = IF t = {} THEN b ELSE ParseKey(g[t \ {Top(t)}], s[Top(t)])
        BY <2>1, <4>1 DEF Folds
      <4>4. t \ {Top(t)} \in SUBSET (1..(n + 1)) /\ n + 1 \notin t \ {Top(t)}
        BY <3>2
      <4>5. h[t \ {Top(t)}] = g[t \ {Top(t)}]
        BY <4>4
      <4> QED
        BY <4>2, <4>3, <4>5
    <3> QED
      BY <3>1, <3>2
  <2>3. Folds(h, b, s, n + 1)
    BY <2>2 DEF Folds
  <2> QED
    BY <2>3
<1>3. Nat \subseteq T
  <2>. HIDE DEF T
  <2> QED
    BY <1>1, <1>2, Induct
<1> QED
  BY <1>3

(* A loop is a sequence of turns.                                          *)
Turns(acc, b, s) ==
    /\ acc[0] = b
    /\ \A n \in 1..Len(s) : acc[n] = ParseKey(acc[n - 1], s[n])

(* A fold over a list has the result of its last turn.                     *)
LEMMA FoldLeftSteps ==
    ASSUME NEW b, NEW S, NEW s \in Seq(S)
    PROVE  \E acc : Turns(acc, b, s) /\ Folded(b, s) = acc[Len(s)]
<1>. DEFINE g == CHOOSE g : Folds(g, b, s, Len(s))
<1>1. Len(s) \in Nat /\ DOMAIN s = 1..Len(s)
  OBVIOUS
<1>2. Folds(g, b, s, Len(s))
  BY <1>1, FoldExists
<1>3. Folded(b, s) = g[1..Len(s)]
  BY <1>1 DEF Folded
<1>. HIDE DEF g
<1>. DEFINE acc == [n \in 0..Len(s) |-> g[1..n]]
<1>4. acc[0] = b
  BY <1>1, <1>2 DEF Folds
<1>5. ASSUME NEW n \in 1..Len(s) PROVE acc[n] = ParseKey(acc[n - 1], s[n])
  <2>0. n \in Nat /\ n <= Len(s) /\ 1 <= n /\ n \in 1..n /\ n - 1 \in 0..Len(s)
    BY <1>1
  <2>1. 1..n \in SUBSET (1..Len(s)) /\ 1..n # {}
    <3>1. \A j \in 1..n : j \in 1..Len(s)
      BY <1>1, <2>0
    <3> QED
      BY <2>0, <3>1
  <2>4. (1..n) \ {n} = 1..(n - 1)
    <3>1. \A j \in Int : j \in (1..n) \ {n} <=> j \in 1..(n - 1)
      BY <2>0
    <3> QED
      BY <3>1
  <2>2. Top(1..n) = n
    BY <2>0, TopIs
  <2>3. g[1..n] = ParseKey(g[(1..n) \ {n}], s[n])
    BY <1>2, <2>1, <2>2 DEF Folds
  <2>5. acc[n] = g[1..n] /\ acc[n - 1] = g[1..(n - 1)]
    BY <2>0, <1>1
  <2> QED
    BY <2>3, <2>4, <2>5
<1>6. acc[Len(s)] = g[1..Len(s)]
  BY <1>1
<1>. HIDE DEF acc
<1> QED
  BY <1>3, <1>4, <1>5, <1>6 DEF Turns

(* What holds before the loop and is kept by every turn holds behind it.   *)
LEMMA EveryTurn ==
    ASSUME NEW n \in Nat, NEW T, 0 \in T, \A m \in 1..n : m - 1 \in T => m \in T
    PROVE  n \in T
<1>. DEFINE U == {m \in Nat : m <= n => m \in T}
<1>1. 0 \in U
  OBVIOUS
<1>2. ASSUME NEW m \in Nat, m \in U PROVE m + 1 \in U
  <2>1. m + 1 <= n => m + 1 \in 1..n /\ (m + 1) - 1 = m /\ m <= n
    OBVIOUS
  <2> QED
    BY <1>2, <2>1
<1>. HIDE DEF U
<1>3. Nat \subseteq U
  BY <1>1, <1>2, Induct
<1> QED
  BY <1>3 DEF U


HintPolicies == {"exact", "subset", "ignore"}
Policies == [ban : {-1, 0, 1}, level : -1..3, numa_node_set : BOOLEAN, numa_node : Int,
             hintpolicy : HintPolicies]

(* parse_user_policy_key keeps what add_one_irq_to_db relies on.           *)
LEMMA ParseKeyType ==
    ASSUME NEW pol \in Policies, NEW line \in PolicyLines
    PROVE  ParseKey(pol, line) \in Policies
<1>. DEFINE k == CHOOSE k \in DOMAIN Levels : Levels[k] = line.value
<1>1. ASSUME \E n \in DOMAIN Levels : Levels[n] = line.value PROVE k - 1 \in -1..3
  <2>1. k \in DOMAIN Levels
    BY <1>1
  <2>2. DOMAIN Levels = 1..4
    BY DEF Levels
  <2> QED
    BY <2>1, <2>2
<1>. HIDE DEF k
<1>2. CASE line.key = "ban" /\ line.value \in {"false", "true"}
  <2>1. ParseKey(pol, line) = [pol EXCEPT !.ban = IF line.value = "true" THEN 1 ELSE 0]
    BY <1>2 DEF ParseKey
  <2> QED
    BY <2>1 DEF Policies
<1>3. CASE line.key = "balance_level" /\ \E n \in DOMAIN Levels : Levels[n] = line.value
  <2>1. ParseKey(pol, line) = [pol EXCEPT !.level = k - 1]
    BY <1>3 DEF ParseKey, k
  <2> QED
    BY <1>1, <1>3, <2>1 DEF Policies
<1>4. CASE line.key = "numa_node" /\ Node(line.value) # NULL
  <2>1. ParseKey(pol, line) = [pol EXCEPT !.numa_node = line.value, !.numa_node_set = TRUE]
    BY <1>4 DEF ParseKey
  <2>2. line.value \in Int
    BY <1>4 DEF PolicyLines
  <2> QED
    BY <2>1, <2>2 DEF Policies
<1>5. CASE line.key = "hintpolicy" /\ line.value \in HintPolicies
  <2>1. ParseKey(pol, line) = [pol EXCEPT !.hintpolicy = line.value]
    BY <1>5 DEF ParseKey, HintPolicies
  <2> QED
    BY <1>5, <2>1 DEF Policies
<1>6. CASE /\ ~(line.key = "ban" /\ line.value \in {"false", "true"})
           /\ ~(line.key = "balance_level" /\ \E n \in DOMAIN Levels : Levels[n] = line.value)
           /\ ~(line.key = "numa_node" /\ Node(line.value) # NULL)
           /\ ~(line.key = "hintpolicy" /\ line.value \in HintPolicies)
  <2>1. ParseKey(pol, line) = pol
    BY <1>6 DEF ParseKey, HintPolicies
  <2> QED
    BY <2>1
<1> QED
  BY <1>2, <1>3, <1>4, <1>5, <1>6

(* get_irq_user_policy, whatever the script prints.                        *)
LEMMA UserPolicyType ==
    ASSUME NEW path \in Paths, NEW i \in Irqs
    PROVE  UserPolicy(path, i) \in Policies
<1>. DEFINE s == PolScript[path, i]
<1>0. s \in Seq(PolicyLines)
  BY DbAssumption, Zenon
<1>. HIDE DEF s
<1>1. s \in Seq(PolicyLines) /\ DOMAIN s = 1..Len(s) /\ Len(s) \in Nat
  BY <1>0
<1>2. FoldLeft(ParseKey, NoPolicy, s) = Folded(NoPolicy, s)
  BY <1>1, SMTT(60) DEF FoldLeft, MapThenFoldSet, Max, Folded, Folds, Top
<1>3. PICK acc : Turns(acc, NoPolicy, s) /\ Folded(NoPolicy, s) = acc[Len(s)]
  BY <1>1, FoldLeftSteps
<1>. DEFINE T == {n \in 0..Len(s) : acc[n] \in Policies}
<1>4. 0 \in T
  <2>0. GlobalHint \in HintPolicies
    BY DbAssumption DEF HintPolicies
  <2>1. NoPolicy \in Policies
    BY <2>0 DEF NoPolicy, Policies
  <2> QED
    BY <1>1, <1>3, <2>1 DEF Turns
<1>5. ASSUME NEW m \in 1..Len(s), m - 1 \in T PROVE m \in T
  <2>1. acc[m] = ParseKey(acc[m - 1], s[m]) /\ s[m] \in PolicyLines /\ m \in 0..Len(s)
    BY <1>1, <1>3 DEF Turns
  <2>2. acc[m - 1] \in Policies
    BY <1>5
  <2> QED
    BY <2>1, <2>2, ParseKeyType
<1>. HIDE DEF T
<1>6. Len(s) \in T
  BY <1>1, <1>4, <1>5, EveryTurn
<1> QED
  BY <1>2, <1>3, <1>6 DEF T, UserPolicy, s

(* An interrupt has a number. *)
LEMMA IrqsAreNumbers == Irqs \subseteq Nat
<1>1. /\ Line \in [Devices -> Nat] /\ Messages \in [Devices -> SUBSET (Nat \ {0})]
      /\ Others \subseteq Nat
  BY DbAssumption
<1>2. ASSUME NEW d \in Devices PROVE {Line[d]} \cup Messages[d] \subseteq Nat
  BY <1>1
<1> QED
  BY <1>1, <1>2 DEF Irqs

(* get_numa_node: a node, the unspecified one or NULL. *)
LEMMA NodeType == ASSUME NEW n PROVE Node(n) \in {NULL, -1} \cup Nodes
  BY DEF Node

(* The tables of lines 24-52: every class has a level. *)
LEMMA ClassTables ==
    /\ MAX_CLASS = 18
    /\ \A n \in 1..18 : class_codes[n] \in ToSet(class_codes)
    /\ IRQ_OTHER \in ToSet(class_codes)
    /\ \A class \in ToSet(class_codes) \cup {"virt_event"} : map_class_to_level[class] \in 0..3
<1>1. DOMAIN class_codes = 1..18 /\ MAX_CLASS = 18
  BY DEF class_codes, MAX_CLASS
<1>2. \A n \in 1..18 : class_codes[n] \in ToSet(class_codes)
  BY <1>1 DEF ToSet
<1>3. class_codes[1] = IRQ_OTHER
  BY DEF class_codes, IRQ_OTHER
<1>4. \A n \in 1..18 :
          class_codes[n] \in {"other", "legacy", "storage", "video", "ethernet"}
  BY DEF class_codes
<1>5. \A class \in ToSet(class_codes) :
          class \in {"other", "legacy", "storage", "video", "ethernet"}
  BY <1>1, <1>4 DEF ToSet
<1>6. \A class \in {"other", "legacy", "storage", "video", "ethernet", "virt_event"} :
          map_class_to_level[class] \in 0..3
  BY DEF map_class_to_level
<1> QED
  BY <1>1, <1>2, <1>3, <1>5, <1>6

(* add_one_irq_to_db, for a device that is there or not, and any policy:   *)
(* the index into class_codes is in the table.                             *)
LEMMA NewEntryType ==
    ASSUME NEW path \in Paths, NEW i \in Irqs, NEW pol \in Policies
    PROVE  NewEntry(path, i, pol) \in Entries
<1>. DEFINE there == path # Sys /\ mode[path] # "absent"
            file  == IF there THEN ClassFile[path] ELSE NoFile
            code  == IF file = Empty THEN 0 ELSE file
            found == file \notin {Text, NoFile} /\ code < MAX_CLASS
            class == IF found THEN class_codes[code + 1] ELSE IRQ_OTHER
            node  == IF pol.numa_node_set THEN pol.numa_node
                     ELSE IF there THEN NodeFile[path] ELSE -1
            level == IF ~found THEN 0
                     ELSE IF pol.level >= 0 THEN pol.level ELSE map_class_to_level[class]
            cpus  == IF there /\ path \in Local THEN path ELSE "all"
<1>1. found => code + 1 \in 1..18
  <2>1. there => path \in Devices
    BY DEF Paths
  <2>2. file \in Nat \cup {Empty, Text, NoFile}
    BY <2>1, DbAssumption
  <2>. HIDE DEF file
  <2>3. found => code \in Nat
    BY <2>2 DEF Empty, Text, NoFile
  <2>. HIDE DEF code
  <2> QED
    BY <2>3, ClassTables
<1>. HIDE DEF found, code
<1>2. class \in ToSet(class_codes)
  BY <1>1, ClassTables
<1>. HIDE DEF class
<1>3. level \in 0..3
  <2>1. map_class_to_level[class] \in 0..3
    BY <1>2, ClassTables
  <2>2. pol.level \in -1..3
    BY DEF Policies
  <2> QED
    BY <2>1, <2>2
<1>4. Node(node) \in {NULL, -1} \cup Nodes
  BY NodeType
<1>5. cpus \in {"none", "all"} \cup Local
  OBVIOUS
<1>6. i \in Nat
  BY IrqsAreNumbers
<1>7. pol.hintpolicy \in {"exact", "subset", "ignore"}
  BY DEF Policies, HintPolicies
<1>8. NewEntry(path, i, pol) =
          [irq |-> i, class |-> class, type |-> "legacy", node |-> Node(node), level |-> level,
           cpumask |-> cpus, affinity_hint |-> i \in Hinted, hintpolicy |-> pol.hintpolicy]
  BY DEF NewEntry, class, found, code
<1>. HIDE DEF node, level, cpus
<1> QED
  BY <1>2, <1>3, <1>4, <1>5, <1>6, <1>7, <1>8 DEF Entries

(* add_banned_irq leaves the rest of the entry as calloc made it. *)
LEMMA BannedEntryType == ASSUME NEW i \in Irqs PROVE BannedEntry(i) \in Entries
<1>1. i \in Nat /\ IRQ_OTHER \in ToSet(class_codes)
  BY IrqsAreNumbers, ClassTables
<1> QED
  BY <1>1 DEF BannedEntry, Entries

ListsHold == ToSet(interrupts_db) \cup ToSet(banned_irqs) \subseteq Entries

(* An entry that has its type goes into a list of such. *)
LEMMA OneMoreTyped ==
    ASSUME Lists, ListsHold, NEW i, NEW e \in Entries, Ban(i, e) \/ AddToDb(i, e)
    PROVE  ListsHold'
<1>1. ASSUME NEW s, IsList(s), ToSet(s) \subseteq Entries
      PROVE  ToSet(Append(s, e)) \subseteq Entries
  <2>. DEFINE t == Append(s, e)
  <2>1. /\ DOMAIN t = (DOMAIN s) \cup {Len(s) + 1} /\ t[Len(s) + 1] = e
        /\ \A k \in DOMAIN s : t[k] = s[k]
    BY <1>1, AppendOne
  <2>. HIDE DEF t
  <2>2. ToSet(t) \subseteq Entries
    BY <1>1, <2>1 DEF ToSet
  <2> QED
    BY <2>2 DEF t
<1>2. CASE Ban(i, e)
  <2>1. banned_irqs' = banned_irqs \/ banned_irqs' = Append(banned_irqs, e)
    BY <1>2 DEF Ban
  <2>2. interrupts_db' = interrupts_db
    BY <1>2 DEF Ban
  <2>3. ToSet(banned_irqs') \subseteq Entries
    BY <1>1, <2>1 DEF Lists, ListsHold
  <2> QED
    BY <2>2, <2>3 DEF ListsHold
<1>3. CASE AddToDb(i, e)
  <2>1. interrupts_db' = interrupts_db \/ interrupts_db' = Append(interrupts_db, e)
    BY <1>3 DEF AddToDb
  <2>2. banned_irqs' = banned_irqs
    BY <1>3 DEF AddToDb
  <2>3. ToSet(interrupts_db') \subseteq Entries
    BY <1>1, <2>1 DEF Lists, ListsHold
  <2> QED
    BY <2>2, <2>3 DEF ListsHold
<1> QED
  BY <1>2, <1>3

(* One interrupt of a device (lines 433-445 and 458-470). *)
LEMMA BuildIrqTyped ==
    ASSUME Lists, ListsHold, dev \in Paths, NEW i \in Irqs, BuildIrq(i)
    PROVE  ListsHold'
<1>. DEFINE pol  == UserPolicy(dev, i)
            type == IF kind = "msi" THEN "msix" ELSE "legacy"
            e    == [NewEntry(dev, i, pol) EXCEPT !.type = type]
<1>1. CASE UNCHANGED dbVars
  BY <1>1 DEF dbVars, ListsHold
<1>2. CASE Ban(i, BannedEntry(i))
  BY <1>2, BannedEntryType, OneMoreTyped
<1>3. CASE AddToDb(i, e)
  <2>1. NewEntry(dev, i, pol) \in Entries
    BY UserPolicyType, NewEntryType
  <2>2. type \in {"legacy", "msix", "virt_event"}
    OBVIOUS
  <2>. HIDE DEF type, pol
  <2>3. e \in Entries
    BY <2>1, <2>2 DEF Entries
  <2>. HIDE DEF e
  <2> QED
    BY <1>3, <2>3, OneMoreTyped
<1> QED
  BY <1>1, <1>2, <1>3 DEF BuildIrq

(* One interrupt of /proc/interrupts: what add_new_irq sets anew has its   *)
(* type, too (lines 503-543).                                              *)
LEMMA AddMissingTyped ==
    ASSUME Lists, ListsHold, NEW i \in Irqs, AddMissingIrq(i)
    PROVE  ListsHold'
<1>. DEFINE pol   == UserPolicy(Sys, i)
            class == IF i \in Events THEN "virt_event" ELSE IRQ_OTHER
            level == map_class_to_level[class]
            type  == IF i \in Events THEN "virt_event" ELSE "legacy"
            Override(entry) == [entry EXCEPT !.class = class, !.level = level, !.type = type]
            b == Override(BannedEntry(i))
            e == Override(NewEntry(Sys, i, pol))
<1>1. BannedEntry(i) \in Entries /\ NewEntry(Sys, i, pol) \in Entries
  <2>1. Sys \in Paths
    BY DEF Paths
  <2> QED
    BY <2>1, BannedEntryType, UserPolicyType, NewEntryType
<1>2. /\ class \in ToSet(class_codes) \cup {"virt_event"} /\ level \in 0..3
      /\ type \in {"legacy", "msix", "virt_event"}
  BY ClassTables
<1>3. /\ \/ UNCHANGED dbVars
         \/ Ban(i, b)
         \/ AddToDb(i, e)
  BY DEF AddMissingIrq
<1>. HIDE DEF class, level, type, pol
<1>4. ASSUME NEW entry \in Entries PROVE Override(entry) \in Entries
  BY <1>2 DEF Entries
<1>5. b \in Entries /\ e \in Entries
  BY <1>1, <1>4
<1>. HIDE DEF b, e
<1>6. CASE UNCHANGED dbVars
  BY <1>6 DEF dbVars, ListsHold
<1> QED
  BY <1>3, <1>5, <1>6, OneMoreTyped

(* The rebuild keeps what it has between its steps, and what is in the     *)
(* lists, within their types: no class indexes class_codes behind its end, *)
(* and no level is unset, whatever the files and the user's script say.    *)
THEOREM DbTypeCorrect == Spec => []TypeOK
<1>1. Init => TypeOK
  <2> SUFFICES ASSUME Init PROVE TypeOK
    OBVIOUS
  <2>1. DOMAIN <<>> = {}
    OBVIOUS
  <2>2. ToSet(interrupts_db) \cup ToSet(banned_irqs) = {}
    BY <2>1 DEF Init, ToSet
  <2>3. MaxChanges \in Nat /\ MaxRebuilds \in Nat
    BY DbAssumption
  <2>4. changes \in 0..MaxChanges /\ rebuilds \in 0..MaxRebuilds
    BY <2>3 DEF Init
  <2> QED
    BY <2>2, <2>4 DEF Init, TypeOK, Paths
<1>2. IInv /\ TypeOK /\ [Next]_vars => TypeOK'
  <2> SUFFICES ASSUME IInv, TypeOK, [Next]_vars PROVE TypeOK'
    OBVIOUS
  <2>0. Lists /\ ListsHold
    BY DEF IInv, TypeOK, ListsHold
  <2>1. CASE UNCHANGED vars
    BY <2>1 DEF TypeOK, vars, worldVars, dirVars, dbVars, pastVars
  <2>2. CASE Driver
    <3>1. mode' \in [Devices -> {"absent", "idle", "line", "msi"}]
      BY <2>2 DEF Driver, TypeOK
    <3>2. changes' \in 0..MaxChanges
      <4>1. /\ MaxChanges \in Nat /\ changes \in 0..MaxChanges
            /\ changes < MaxChanges /\ changes' = changes + 1
        BY <2>2, DbAssumption DEF Driver, TypeOK
      <4> QED
        BY <4>1
    <3> QED
      BY <2>2, <3>1, <3>2 DEF Driver, TypeOK, dirVars, dbVars
  <2>3. CASE FreeIrqDb
    <3>1. DOMAIN <<>> = {}
      OBVIOUS
    <3>2. ToSet(interrupts_db') \cup ToSet(banned_irqs') = {}
      BY <2>3, <3>1 DEF FreeIrqDb, ToSet
    <3>3. rebuilds' \in 0..MaxRebuilds
      <4>1. /\ MaxRebuilds \in Nat /\ rebuilds \in 0..MaxRebuilds
            /\ rebuilds < MaxRebuilds /\ rebuilds' = rebuilds + 1
        BY <2>3, DbAssumption DEF FreeIrqDb, TypeOK
      <4> QED
        BY <4>1
    <3> QED
      BY <2>3, <3>2, <3>3 DEF FreeIrqDb, TypeOK, worldVars, dirVars
  <2>4. CASE CollectFullIrqList
    <3>1. InUse \subseteq Irqs
      <4>1. ASSUME NEW d \in Devices
            PROVE  (CASE mode[d] = "line" -> {Line[d]}
                      [] mode[d] = "msi"  -> Messages[d]
                      [] OTHER -> {}) \subseteq {Line[d]} \cup Messages[d]
        OBVIOUS
      <4> QED
        BY <4>1 DEF InUse, Irqs
    <3> QED
      BY <2>4, <3>1 DEF CollectFullIrqList, TypeOK, worldVars, dirVars, dbVars
  <2>5. CASE OpenSysdev
    BY <2>5 DEF OpenSysdev, TypeOK, Present, worldVars, dbVars, pastVars
  <2>6. CASE DeviceDone
    BY <2>6 DEF DeviceDone, TypeOK, Paths, worldVars, dbVars, pastVars
  <2>7. CASE CloseSysdev
    BY <2>7 DEF CloseSysdev, TypeOK, worldVars, dbVars, pastVars
  <2>8. CASE Rebuilt
    BY <2>8 DEF Rebuilt, TypeOK, worldVars, dirVars, dbVars, pastVars
  <2>9. ASSUME NEW d \in Devices, OpenDevice(d) PROVE TypeOK'
    <3>1. Messages[d] \subseteq Irqs /\ {Line[d]} \ {0} \subseteq Irqs
      <4>1. 0 \notin Messages[d]
        BY DbAssumption
      <4> QED
        BY <4>1 DEF Irqs
    <3> QED
      BY <2>9, <3>1 DEF OpenDevice, TypeOK, Paths, worldVars, dbVars, pastVars
  <2>10. ASSUME NEW i \in Irqs, BuildIrq(i) PROVE TypeOK'
    <3>1. ListsHold'
      BY <2>0, <2>10, BuildIrqTyped DEF TypeOK
    <3> QED
      BY <2>10, <3>1 DEF BuildIrq, TypeOK, ListsHold, worldVars, pastVars
  <2>11. ASSUME NEW i \in Irqs, AddMissingIrq(i) PROVE TypeOK'
    <3>1. ListsHold'
      BY <2>0, <2>11, AddMissingTyped
    <3> QED
      BY <2>11, <3>1 DEF AddMissingIrq, TypeOK, ListsHold, worldVars, dirVars, pastVars
  <2> QED
    BY <2>1, <2>2, <2>3, <2>4, <2>5, <2>6, <2>7, <2>8, <2>9, <2>10, <2>11 DEF Next, RebuildIrqDb
<1> QED
  BY <1>1, <1>2, InitOK, StepOK, PTL DEF Spec
=============================================================================
