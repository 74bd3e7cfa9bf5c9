-------------------------------- MODULE IrqDb --------------------------------
(***************************************************************************)
(* The interrupt database of irqbalance (classify.c): which interrupts the *)
(* daemon knows, which of them it leaves alone, and what it believes of    *)
(* them, put together from /proc/interrupts, the directories of the PCI    *)
(* devices, a policy script, a ban script and the command line.            *)
(*                                                                         *)
(* The files are read one after the other while drivers are loaded,        *)
(* removed, and change from a line to message-signalled interrupts.        *)
(***************************************************************************)
EXTENDS Integers, FiniteSets, SequencesExt

CONSTANTS
    Devices,       \* the entries of SYSDEV_DIR
    Line,          \* per device, what its file irq says; 0 is no interrupt
    Messages,      \* per device, its interrupts in msi_irqs
    ClassFile,     \* per device, the class code its file class says, or
                   \* Empty or Text
    NodeFile,      \* per device, its file numa_node, -1 without the file
    Local,         \* the devices with a file local_cpus that is not empty
    Hinted,        \* the interrupts with a file affinity_hint
    Others,        \* interrupts in use that belong to no device
    Events,        \* those of them that are called xen-dyn-event
    HasSysdev,     \* SYSDEV_DIR exists
    Nodes,         \* numa_nodes, {} if numa_avail is not set
    ClBanned,      \* cl_banned_irqs
    BanScript,     \* what banscript bans, as <<device, file, interrupt>>
    PolScript,     \* the lines polscript prints, by path and interrupt
    GlobalHint,    \* global_hint_policy
    MaxChanges,    \* bound on what the drivers do
    MaxRebuilds    \* bound on the rebuilds

Irqs  == Others \cup ((UNION {{Line[d]} \cup Messages[d] : d \in Devices}) \ {0})
Sys   == "/sys"
Paths == Devices \cup {Sys}

(* fscanf finds nothing in the file, or no number, or there is no file.    *)
Empty == -1
Text  == -2
NoFile == -3

(* What polscript may print in a line: any words, and the number of a node. *)
PolicyLines == [key : {"numa_node"}, value : Int]
               \cup [key : STRING \ {"numa_node"}, value : STRING]

ASSUME DbAssumption ==
    /\ Sys \notin Devices
    /\ Line \in [Devices -> Nat] /\ Messages \in [Devices -> SUBSET (Nat \ {0})]
    /\ Others \subseteq Nat /\ Events \subseteq Others
    /\ ClassFile \in [Devices -> Nat \cup {Empty, Text}]
    /\ GlobalHint \in {"exact", "subset", "ignore"}
    /\ \A path \in Paths, i \in Irqs : PolScript[path, i] \in Seq(PolicyLines)
    /\ HasSysdev \in BOOLEAN
    /\ MaxChanges \in Nat /\ MaxRebuilds \in Nat

VARIABLES
    mode,            \* of each device: absent, without a driver, or the kind of
                     \* its interrupts
    changes,
    pc,              \* where rebuild_irq_db is
    tmp_irqs,        \* what is left of the list of /proc/interrupts
    unread, listed,  \* entries of SYSDEV_DIR not read yet; those there were
    dev, kind,       \* the device that build_one_dev_entry is at
    irqnums,         \* the interrupts it has still to look at
    interrupts_db, banned_irqs,
    collected,       \* the interrupts that were in /proc/interrupts
    quiet,           \* nothing has changed since the last rebuild began
    rebuilds

worldVars == <<mode, changes>>
dirVars   == <<unread, listed, dev, kind, irqnums>>
dbVars    == <<interrupts_db, banned_irqs>>
pastVars  == <<collected, quiet, rebuilds>>
vars      == <<worldVars, pc, tmp_irqs, dirVars, dbVars, pastVars>>

Init ==
    /\ mode \in [Devices -> {"absent", "idle", "line", "msi"}] /\ changes = 0
    /\ pc = "idle" /\ tmp_irqs = {} /\ unread = {} /\ listed = {}
    /\ dev = Sys /\ kind = "none" /\ irqnums = {}
    /\ interrupts_db = <<>> /\ banned_irqs = <<>>
    /\ collected = {} /\ quiet = FALSE /\ rebuilds = 0

-----------------------------------------------------------------------------
(* The machine *)

(* The interrupts in /proc/interrupts. *)
InUse ==
    Others \cup ((UNION {CASE mode[d] = "line" -> {Line[d]}
                           [] mode[d] = "msi"  -> Messages[d]
                           [] OTHER -> {} : d \in Devices}) \ {0})

Present == {d \in Devices : mode[d] # "absent"}

Driver ==
    /\ changes < MaxChanges /\ changes' = changes + 1
    /\ \E d \in Devices : \E m \in {"absent", "idle", "line", "msi"} \ {mode[d]} :
           mode' = [mode EXCEPT ![d] = m]
    /\ quiet' = FALSE
    /\ UNCHANGED <<pc, tmp_irqs, dirVars, dbVars, collected, rebuilds>>

-----------------------------------------------------------------------------
(* What an interrupt is *)

(* Lines 24-25 and 33-52. *)
IRQ_OTHER == "other"
map_class_to_level ==
    [other |-> 1, legacy |-> 2, storage |-> 3, video |-> 3, ethernet |-> 3, virt_event |-> 3]
class_codes ==
    <<"other", "storage", "ethernet", "video", "other", "other", "legacy", "other", "other",
      "legacy", "other", "other", "legacy", "ethernet", "storage", "other", "other", "other">>
MAX_CLASS == Len(class_codes)

(* get_numa_node of numa.c: the node of that number, or NULL.              *)
NULL == -2
Node(n) == IF Nodes = {} \/ n = -1 THEN -1 ELSE IF n \in Nodes THEN n ELSE NULL

Known(list, i) == \E k \in DOMAIN list : list[k].irq = i

(* get_irq_info *)
KnownIrq(i) == Known(interrupts_db, i) \/ Known(banned_irqs, i)

-----------------------------------------------------------------------------
(* The user's policy *)

NoPolicy == [ban |-> -1, level |-> -1, numa_node_set |-> FALSE, numa_node |-> -1,
             hintpolicy |-> GlobalHint]

Levels == <<"none", "package", "cache", "core">>

(* parse_user_policy_key: a line key=value.  What it does not understand   *)
(* is only reported.                                                       *)
ParseKey(pol, line) ==
    CASE line.key = "ban" /\ line.value \in {"false", "true"} ->
             [pol EXCEPT !.ban = IF line.value = "true" THEN 1 ELSE 0]
      [] line.key = "balance_level" /\ \E k \in DOMAIN Levels : Levels[k] = line.value ->
             [pol EXCEPT !.level = (CHOOSE k \in DOMAIN Levels : Levels[k] = line.value) - 1]
      [] line.key = "numa_node" /\ Node(line.value) # NULL ->
             [pol EXCEPT !.numa_node = line.value, !.numa_node_set = TRUE]
      [] line.key = "hintpolicy" /\ line.value \in {"exact", "subset", "ignore"} ->
             [pol EXCEPT !.hintpolicy = line.value]
      [] OTHER -> pol

UserPolicy(path, i) == FoldLeft(ParseKey, NoPolicy, PolScript[path, i])

(* check_for_irq_ban; d and file are the path given to banscript; for an     *)
(* interrupt that is only in /proc/interrupts there is none.               *)
CheckForIrqBan(d, file, i) == i \in ClBanned \/ <<d, file, i>> \in BanScript

-----------------------------------------------------------------------------
(* The two lists *)

(* add_one_irq_to_db; rest is what is decided after it.  A class that      *)
(* cannot be read, or is not in the table, leaves the level at zero.       *)
NewEntry(path, i, pol) ==
    LET there == path # Sys /\ mode[path] # "absent"
        file  == IF there THEN ClassFile[path] ELSE NoFile
        code  == IF file = Empty THEN 0 ELSE file
        found == file \notin {Text, NoFile} /\ code < MAX_CLASS
        class == IF found THEN class_codes[code + 1] ELSE IRQ_OTHER
        node  == IF pol.numa_node_set THEN pol.numa_node
                 ELSE IF there THEN NodeFile[path] ELSE -1
    IN  [irq |-> i, class |-> class, type |-> "legacy", node |-> Node(node),
         level |-> IF ~found THEN 0
                   ELSE IF pol.level >= 0 THEN pol.level ELSE map_class_to_level[class],
         cpumask |-> IF there /\ path \in Local THEN path ELSE "all",
         affinity_hint |-> i \in Hinted, hintpolicy |-> pol.hintpolicy]

(* add_banned_irq: an entry of which only three fields are set.            *)
BannedEntry(i) ==
    [irq |-> i, class |-> IRQ_OTHER, level |-> 0, type |-> "legacy", node |-> NULL,
     cpumask |-> "none", affinity_hint |-> FALSE, hintpolicy |-> "exact"]

Ban(i, entry) ==
    /\ banned_irqs' = IF Known(banned_irqs, i) THEN banned_irqs ELSE Append(banned_irqs, entry)
    /\ UNCHANGED interrupts_db

AddToDb(i, entry) ==
    /\ interrupts_db' = IF KnownIrq(i) THEN interrupts_db ELSE Append(interrupts_db, entry)
    /\ UNCHANGED banned_irqs

-----------------------------------------------------------------------------
(* rebuild_irq_db *)

(* free_irq_db; cl_banned_irqs stays. *)
FreeIrqDb ==
    /\ pc = "idle" /\ rebuilds < MaxRebuilds
    /\ pc' = "collect" /\ rebuilds' = rebuilds + 1 /\ quiet' = TRUE
    /\ interrupts_db' = <<>> /\ banned_irqs' = <<>>
    /\ UNCHANGED <<worldVars, tmp_irqs, dirVars, collected>>

(* collect_full_irq_list: NULL if /proc/interrupts cannot be opened; then  *)
(* for_each_irq walks interrupts_db instead, where add_missing_irq finds   *)
(* them all.                                                               *)
CollectFullIrqList ==
    /\ pc = "collect" /\ pc' = "open"
    /\ tmp_irqs' \in {InUse, {}} /\ collected' = tmp_irqs'
    /\ UNCHANGED <<worldVars, dirVars, dbVars, quiet, rebuilds>>

(* Without the directory the list is dropped, too, lines 557-559.          *)
OpenSysdev ==
    /\ pc = "open"
    /\ IF HasSysdev THEN pc' = "dir" /\ unread' = Devices /\ listed' = Present
                    ELSE pc' = "idle" /\ UNCHANGED <<unread, listed>>
    /\ tmp_irqs' = IF HasSysdev THEN tmp_irqs ELSE {}
    /\ UNCHANGED <<worldVars, dev, kind, irqnums, dbVars, pastVars>>

(* The start of build_one_dev_entry: the file irq counts only without a    *)
(* directory msi_irqs.  readdir returns the entries in any order.          *)
OpenDevice(d) ==
    /\ pc = "dir" /\ d \in unread /\ d \in Present
    /\ unread' = unread \ {d} /\ dev' = d /\ pc' = "dev"
    /\ IF mode[d] = "msi" THEN kind' = "msi" /\ irqnums' = Messages[d]
                          ELSE kind' = "line" /\ irqnums' = {Line[d]} \ {0}
    /\ UNCHANGED <<worldVars, tmp_irqs, listed, dbVars, pastVars>>

(* What banscript is told beside the device, lines 437 and 462.            *)
ScriptFile == IF kind = "msi" THEN "" ELSE "irq"

BuildIrqUnknown(i) ==                                               \* mutant
    /\ pc = "dev" /\ i \in irqnums
    /\ irqnums' = irqnums \ {i}
    /\ LET pol == UserPolicy(dev, i)
       IN  IF pol.ban = 1 \/ CheckForIrqBan(dev, ScriptFile, i)
           THEN Ban(i, BannedEntry(i))
           ELSE AddToDb(i, [NewEntry(dev, i, pol) EXCEPT
                                !.type = IF kind = "msi" THEN "msix" ELSE "legacy"])
    /\ UNCHANGED <<worldVars, pc, tmp_irqs, unread, listed, dev, kind, pastVars>>

BuildIrqUnasked(i) ==                                               \* mutant
    /\ pc = "dev" /\ i \in irqnums
    /\ irqnums' = irqnums \ {i}
    /\ LET pol == UserPolicy(dev, i)
       IN  IF KnownIrq(i) THEN UNCHANGED dbVars
           ELSE IF pol.ban = 1
           THEN Ban(i, BannedEntry(i))
           ELSE AddToDb(i, [NewEntry(dev, i, pol) EXCEPT
                                !.type = IF kind = "msi" THEN "msix" ELSE "legacy"])
    /\ UNCHANGED <<worldVars, pc, tmp_irqs, unread, listed, dev, kind, pastVars>>

(* One interrupt of a device, lines 433-445 and 458-470. *)
BuildIrq(i) ==
    /\ pc = "dev" /\ i \in irqnums
    /\ irqnums' = irqnums \ {i}
    /\ LET pol == UserPolicy(dev, i)
       IN  IF KnownIrq(i) THEN UNCHANGED dbVars
           ELSE IF pol.ban = 1 \/ CheckForIrqBan(dev, ScriptFile, i)
           THEN Ban(i, BannedEntry(i))
           ELSE AddToDb(i, [NewEntry(dev, i, pol) EXCEPT
                                !.type = IF kind = "msi" THEN "msix" ELSE "legacy"])
    /\ UNCHANGED <<worldVars, pc, tmp_irqs, unread, listed, dev, kind, pastVars>>

DeviceDone ==
    /\ pc = "dev" /\ irqnums = {}
    /\ pc' = "dir" /\ dev' = Sys /\ kind' = "none"
    /\ UNCHANGED <<worldVars, tmp_irqs, unread, listed, irqnums, dbVars, pastVars>>

(* An entry that came or went since the directory was opened may be        *)
(* missed.                                                                 *)
CloseSysdev ==
    /\ pc = "dir" /\ unread \cap listed \cap Present = {}
    /\ pc' = "missing" /\ unread' = {} /\ listed' = {}
    /\ UNCHANGED <<worldVars, tmp_irqs, dev, kind, irqnums, dbVars, pastVars>>

(* add_missing_irq and add_new_irq: type, class and level are set anew,    *)
(* also those of an entry that has just been banned.                       *)
AddMissingIrq(i) ==
    /\ pc = "missing" /\ i \in tmp_irqs
    /\ tmp_irqs' = tmp_irqs \ {i}
    /\ LET pol == UserPolicy(Sys, i)
           class == IF i \in Events THEN "virt_event" ELSE IRQ_OTHER
           Override(entry) == [entry EXCEPT !.class = class, !.level = map_class_to_level[class],
                                   !.type = IF i \in Events THEN "virt_event" ELSE "legacy"]
       IN  IF KnownIrq(i) THEN UNCHANGED dbVars
           ELSE IF pol.ban = 1 \/ CheckForIrqBan("", "", i)
           THEN Ban(i, Override(BannedEntry(i)))
           ELSE AddToDb(i, Override(NewEntry(Sys, i, pol)))
    /\ UNCHANGED <<worldVars, pc, dirVars, pastVars>>

Rebuilt ==
    /\ pc = "missing" /\ tmp_irqs = {}
    /\ pc' = "idle"
    /\ UNCHANGED <<worldVars, tmp_irqs, dirVars, dbVars, pastVars>>

RebuildIrqDb ==
    \/ FreeIrqDb \/ CollectFullIrqList \/ OpenSysdev \/ DeviceDone \/ CloseSysdev \/ Rebuilt
    \/ \E d \in Devices : OpenDevice(d)
    \/ \E i \in Irqs : BuildIrq(i) \/ AddMissingIrq(i)

Next == RebuildIrqDb \/ Driver

Spec == Init /\ [][Next]_vars

-----------------------------------------------------------------------------
(* Properties *)

Entries ==
    [irq : Nat, class : ToSet(class_codes) \cup {"virt_event"}, level : 0..3,
     type : {"legacy", "msix", "virt_event"}, node : {NULL, -1} \cup Nodes,
     cpumask : {"none", "all"} \cup Local, affinity_hint : BOOLEAN,
     hintpolicy : {"exact", "subset", "ignore"}]

(* What the rebuild keeps between its steps has its type (classify.c).     *)
TypeOK ==
    /\ mode \in [Devices -> {"absent", "idle", "line", "msi"}]
    /\ changes \in 0..MaxChanges /\ rebuilds \in 0..MaxRebuilds
    /\ pc \in {"idle", "collect", "open", "dir", "dev", "missing"}
    /\ tmp_irqs \subseteq Irqs /\ irqnums \subseteq Irqs /\ collected \subseteq Irqs
    /\ unread \subseteq Devices /\ listed \subseteq Devices
    /\ dev \in Paths /\ kind \in {"none", "line", "msi"}
    /\ ToSet(interrupts_db) \cup ToSet(banned_irqs) \subseteq Entries
    /\ quiet \in BOOLEAN

IrqsIn(list) == {list[k].irq : k \in DOMAIN list}

(* add_one_irq_to_db, add_banned_irq (lines 89, 142, 148): an interrupt    *)
(* has one entry, in one of the lists.                                     *)
EachOnce ==
    /\ \A j, k \in DOMAIN interrupts_db :
           interrupts_db[j].irq = interrupts_db[k].irq => j = k
    /\ \A j, k \in DOMAIN banned_irqs : banned_irqs[j].irq = banned_irqs[k].irq => j = k
    /\ IrqsIn(interrupts_db) \cap IrqsIn(banned_irqs) = {}

Done == pc = "idle" /\ rebuilds > 0

(* After a rebuild parse_proc_interrupts (procinterrupts.c, line 151)      *)
(* finds all that were in /proc/interrupts when it began, each once,       *)
(* whatever has been loaded and removed in the meantime.                   *)
KnownOnce ==
    EachOnce /\ (Done /\ HasSysdev => collected \subseteq IrqsIn(interrupts_db \o banned_irqs))

(* The devices that use an interrupt at the moment; a line 0 is none, also *)
(* when an interrupt 0 is in /proc/interrupts.                             *)
Owners(i) == {d \in Devices : \/ mode[d] = "msi" /\ i \in Messages[d]
                              \/ mode[d] \in {"idle", "line"} /\ i = Line[d] /\ i # 0}

Banned(d, i) ==
    UserPolicy(d, i).ban = 1 \/ CheckForIrqBan(d, IF mode[d] = "msi" THEN "" ELSE "irq", i)

(* What is done about an interrupt is what the user said of it and its     *)
(* device (irqbalance.1, banirq and policyscript): once a rebuild in which *)
(* nothing changed is over, the interrupt of one device is banned if and   *)
(* only if it was banned as that of the device, and is known as the kind   *)
(* the device has, also when it is in /proc/interrupts.  An interrupt of   *)
(* the command line is never balanced.                                     *)
OwnerDecides ==
    /\ IrqsIn(interrupts_db) \cap ClBanned = {}
    /\ Done /\ quiet /\ HasSysdev =>
           \A d \in Devices, i \in Irqs : Owners(i) = {d} =>
               IF Banned(d, i) THEN i \in IrqsIn(banned_irqs)
               ELSE \E k \in DOMAIN interrupts_db :
                        /\ interrupts_db[k].irq = i
                        /\ interrupts_db[k].type = IF mode[d] = "msi" THEN "msix" ELSE "legacy"
                        /\ interrupts_db[k].cpumask = IF d \in Local THEN d ELSE "all"
-----------------------------------------------------------------------------
(* Statements of the manual page and of the code that it does not keep.    *)

(* irqbalance.1, policyscript, ban: an interrupt is excluded, whichever of *)
(* its devices the script was asked about.                                 *)
SharedBansHold ==
    Done /\ quiet /\ HasSysdev =>
        \A d \in Devices, i \in Irqs : d \in Owners(i) /\ Banned(d, i) => i \in IrqsIn(banned_irqs)

(* irqbalance.1, balance_level: "By default the balance level is           *)
(* determined ... based on the pci device class"; without one placement.c, *)
(* line 130, leaves the interrupt where it is.                             *)
LevelFound ==
    \A k \in DOMAIN interrupts_db : interrupts_db[k].level = 0 =>
        \E path \in Paths : UserPolicy(path, interrupts_db[k].irq).level = 0

(* irqbalance.1, balance_level: "This allows a user to override the        *)
(* balance level of a given IRQ".                                          *)
LevelObeyed ==
    Done => \A k \in DOMAIN interrupts_db :
        LET pol == UserPolicy(Sys, interrupts_db[k].irq)
        IN  pol.level >= 0 /\ interrupts_db[k].irq \in Others => interrupts_db[k].level = pol.level

(* placement.c, line 133, follows numa_node without looking: a device on a *)
(* node that is not in the list has none.                                  *)
NodeFound == \A k \in DOMAIN interrupts_db : interrupts_db[k].node # NULL

(* procinterrupts.c, line 151, asks for a rescan until all are known:      *)
(* without SYSDEV_DIR for ever.                                            *)
AllKnown == Done => collected \subseteq IrqsIn(interrupts_db \o banned_irqs)
=============================================================================
