----------------------------- MODULE IrqDaemon -----------------------------
(***************************************************************************)
(* The life of the irqbalance daemon: main of irqbalance.c, its signals    *)
(* and its pidfile, while CPUs and interrupts come and go.                 *)
(*                                                                         *)
(* The daemon is one thread; what interleaves with it are the signal       *)
(* handlers and the kernel, whose files it reads one after the other.  The *)
(* balancing between two looks at the kernel is the subject of             *)
(* IrqPlacement and is one step here.                                      *)
(***************************************************************************)
EXTENDS Integers, FiniteSets

CONSTANTS
    Cpus,        \* the CPUs that can be online
    Irqs,        \* the interrupts that can be in /proc/interrupts
    Foreground,  \* foreground_mode
    PidOption,   \* pidfile # NULL
    MaxChanges   \* bound on what the kernel does

ASSUME DaemonAssumption ==
    /\ IsFiniteSet(Cpus)
    /\ Foreground \in BOOLEAN /\ PidOption \in BOOLEAN
    /\ MaxChanges \in Nat

VARIABLES
    online, irqs,        \* of the kernel: the CPUs online, the interrupts in use
    reborn,              \* interrupts whose count started again since it was read
    opens,               \* what of the files of the kernel can be opened
    changes,             \* what the kernel has done
    one_shot_mode,       \* the option, which stays as it is
    pc,                  \* where main is
    keep_going, need_rescan,
    cycle_count,         \* only whether it is zero makes a difference: stops at 1
    treeCpus,            \* those that do_one_cpu has counted
    db,                  \* interrupts_db and banned_irqs
    seenCpus, seenIrqs,  \* what parse_proc_interrupts read last for this tree
    pidfile,             \* whose process id is in the file
    hup                  \* a SIGHUP has come that no rescan has followed yet

worldVars  == <<online, irqs, reborn, opens, changes, one_shot_mode>>
flagVars   == <<keep_going, need_rescan, cycle_count>>
treeVars   == <<treeCpus, db>>
seenVars   == <<seenCpus, seenIrqs>>
vars       == <<worldVars, pc, flagVars, treeVars, seenVars, pidfile, hup>>

\* /sys/devices/system/cpu, SYSDEV_DIR and /proc/interrupts.
Files == {"cpu", "sysdev", "interrupts"}

\* The steps before the loop, of the loop, and of a rescan.
Starting  == {"cpus", "irqs", "pidfile", "read", "sighup"}
Looping   == {"loop", "parse", "test", "balance", "count"}
Rescans   == {"reset", "free", "recpus", "reirqs", "reread", "parseAgain"}

TypeOK ==
    /\ online \in SUBSET Cpus /\ irqs \in SUBSET Irqs /\ reborn \in SUBSET Irqs
    /\ opens \in SUBSET Files /\ changes \in 0..MaxChanges
    /\ pc \in Starting \cup Looping \cup Rescans \cup {"cleanup", "exited"}
    /\ one_shot_mode \in BOOLEAN
    /\ keep_going \in BOOLEAN /\ need_rescan \in BOOLEAN
    /\ cycle_count \in 0..1
    /\ treeCpus \in SUBSET Cpus
    /\ db \in SUBSET Irqs
    /\ seenCpus \in SUBSET Cpus /\ seenIrqs \in SUBSET Irqs
    /\ pidfile \in {"none", "mine", "other"}
    /\ hup \in BOOLEAN

Init ==
    /\ online \in (SUBSET Cpus) \ {{}} /\ irqs \in SUBSET Irqs
    /\ reborn = {} /\ opens \in SUBSET Files /\ changes = 0
    /\ one_shot_mode \in BOOLEAN
    /\ pc = "cpus"
    /\ keep_going = TRUE /\ need_rescan = FALSE /\ cycle_count = 0
    /\ treeCpus = {} /\ db = {}
    /\ seenCpus = {} /\ seenIrqs = {}
    /\ pidfile \in {"none", "other"}
    /\ hup = FALSE

Goto(from, to) == pc = from /\ pc' = to

-----------------------------------------------------------------------------
(* The kernel.                                                             *)

ChangeCpus ==
    \E c \in Cpus :
        /\ online' = IF c \in online THEN online \ {c} ELSE online \cup {c}
        /\ online' # {}
        /\ UNCHANGED <<irqs, reborn, opens>>

ChangeIrqs ==
    \E i \in Irqs :
        /\ irqs' = IF i \in irqs THEN irqs \ {i} ELSE irqs \cup {i}
        /\ reborn' = IF i \in irqs THEN reborn \ {i} ELSE reborn \cup {i}
        /\ UNCHANGED <<online, opens>>

\* For want of memory or of file descriptors, or because it is not there.
ChangeOpens ==
    \E f \in Files :
        /\ opens' = IF f \in opens THEN opens \ {f} ELSE opens \cup {f}
        /\ UNCHANGED <<online, irqs, reborn>>

Kernel ==
    /\ changes < MaxChanges /\ changes' = changes + 1
    /\ ChangeCpus \/ ChangeIrqs \/ ChangeOpens
    /\ UNCHANGED <<one_shot_mode, pc, flagVars, treeVars, seenVars, pidfile, hup>>

-----------------------------------------------------------------------------
(* Signals.  They come between any two steps of the daemon.                *)

\* handler (203-207), installed before anything else (282-285).
Sigint ==
    /\ pc # "exited" /\ keep_going
    /\ keep_going' = FALSE
    /\ UNCHANGED <<worldVars, pc, need_rescan, cycle_count, treeVars, seenVars, pidfile, hup>>

\* force_rescan (210-215), once it is installed (331-334).
Sighup ==
    /\ pc \notin Starting \cup {"cleanup", "exited"}
    /\ need_rescan' = (need_rescan \/ cycle_count # 0)
    /\ hup' = TRUE
    /\ UNCHANGED <<worldVars, pc, keep_going, cycle_count, treeVars, seenVars, pidfile>>

\* No handler: SIGTERM at any time, SIGHUP before line 334.
Killed ==
    /\ pc # "exited" /\ pc' = "exited"
    /\ UNCHANGED <<worldVars, flagVars, treeVars, seenVars, pidfile, hup>>

-----------------------------------------------------------------------------
(* main.                                                                   *)

core_count == Cardinality(treeCpus)

\* parse_cpu_tree counts every CPU online, the banned ones, too (numa.c:69-97,
\* cputree.c:177-183, 267, 338-369).
ParseCpuTree(from, to) ==
    /\ Goto(from, to)
    /\ treeCpus' = IF "cpu" \in opens THEN online ELSE {}
    /\ UNCHANGED <<worldVars, flagVars, db, seenVars, pidfile>>

\* rebuild_irq_db (classify.c:546-579): every interrupt of /proc/interrupts is
\* in one of the two lists afterwards, its counts at zero.  Without SYSDEV_DIR
\* none is, without /proc/interrupts those of the devices are.
RebuildIrqDb(from, to) ==
    /\ Goto(from, to)
    /\ db' \in CASE "sysdev" \notin opens -> {{}}
                  [] Files \ {"cpu"} \subseteq opens -> {irqs}
                  [] OTHER -> SUBSET irqs
    /\ reborn' = {}
    /\ UNCHANGED <<online, irqs, opens, changes, one_shot_mode, flagVars, treeCpus, seenVars,
                   pidfile, hup>>

\* parse_proc_interrupts (procinterrupts.c:98-203): a rescan is needed for an
\* interrupt that is not known, for a number of columns that is not the number
\* of CPUs, and for a count that went down.  Without lines there is nothing to
\* compare.
\* mutant: the number of columns is not compared
UnmatchedIrqs == ~(irqs \subseteq db)
Unmatched ==
    \/ ~(irqs \subseteq db)
    \/ irqs # {} /\ Cardinality(online) # core_count

\* A count is the sum of the columns (167): it may go down when the interrupt
\* has started again, or when a CPU it was counted on has lost its column.  In
\* either case what was added meanwhile may make up for it.
MayBeLower ==
    \/ reborn \cap irqs # {}
    \/ seenIrqs \cap irqs # {} /\ ~(seenCpus \subseteq online)

ReadInterrupts ==
    /\ \E lower \in BOOLEAN :
           /\ lower => MayBeLower
           /\ need_rescan' = (need_rescan \/ Unmatched \/ lower)
    /\ reborn' = reborn \ irqs
    /\ seenCpus' = online /\ seenIrqs' = irqs

\* A file that cannot be opened is passed over in silence, lines 104-106.
ParseProcInterrupts(from, to) ==
    /\ Goto(from, to)
    /\ \/ "interrupts" \in opens /\ ReadInterrupts
       \/ "interrupts" \notin opens /\ UNCHANGED <<need_rescan, reborn, seenVars>>
    /\ UNCHANGED <<online, irqs, opens, changes, one_shot_mode, keep_going, cycle_count, treeVars,
                   pidfile, hup>>

\* Lines 287-301, build_object_tree and the end on a single CPU.
BuildCpus == ParseCpuTree("cpus", "irqs") /\ UNCHANGED hup
BuildIrqs == RebuildIrqDb("irqs", IF core_count < 2 THEN "exited" ELSE "pidfile")

\* Lines 303-316: the file is written unless it is there already (O_EXCL).
WritePidfile ==
    /\ Goto("pidfile", "read")
    /\ pidfile' = IF ~Foreground /\ PidOption /\ pidfile = "none" THEN "mine" ELSE pidfile
    /\ UNCHANGED <<worldVars, flagVars, treeVars, seenVars, hup>>

\* Lines 326-334.
FirstRead == ParseProcInterrupts("read", "sighup")
InstallSighup ==
    /\ Goto("sighup", "loop")
    /\ UNCHANGED <<worldVars, flagVars, treeVars, seenVars, pidfile, hup>>

\* Lines 336-338, the sleep included: it ends early when a signal comes.
Loop ==
    /\ Goto("loop", IF keep_going THEN "parse" ELSE "cleanup")
    /\ UNCHANGED <<worldVars, flagVars, treeVars, seenVars, pidfile, hup>>

\* Lines 342-344.
Parse == ParseProcInterrupts("parse", "test")

\* Lines 347-349.
Test ==
    /\ Goto("test", IF need_rescan THEN "reset" ELSE "balance")
    /\ need_rescan' = FALSE
    /\ UNCHANGED <<worldVars, keep_going, cycle_count, treeVars, seenVars, pidfile, hup>>
\* mutants: the cycles are not counted anew; every flag is set as at the start
ResetForgotten ==
    /\ Goto("reset", "free")
    /\ UNCHANGED <<worldVars, flagVars, treeVars, seenVars, pidfile, hup>>
ResetAll ==
    /\ Goto("reset", "free")
    /\ keep_going' = TRUE /\ cycle_count' = 0
    /\ UNCHANGED <<worldVars, need_rescan, treeVars, seenVars, pidfile, hup>>
Reset ==
    /\ Goto("reset", "free")
    /\ cycle_count' = 0
    /\ UNCHANGED <<worldVars, keep_going, need_rescan, treeVars, seenVars, pidfile, hup>>

\* Lines 353-361.  The tree that is built is the answer to the SIGHUPs so far.
FreeObjectTree ==
    /\ Goto("free", "recpus")
    /\ treeCpus' = {} /\ db' = {}
    /\ seenCpus' = {} /\ seenIrqs' = {}
    /\ UNCHANGED <<worldVars, flagVars, pidfile, hup>>
RebuildCpus == ParseCpuTree("recpus", "reirqs") /\ hup' = FALSE
RebuildIrqs == RebuildIrqDb("reirqs", "reread")
Reread      == ParseProcInterrupts("reread", "parseAgain")
ParseAgain  == ParseProcInterrupts("parseAgain", "balance")

\* Lines 364-368: update_migration_status unless this is the first cycle, and
\* calculate_placement and activate_mappings.
Balance ==
    /\ Goto("balance", "count")
    /\ UNCHANGED <<worldVars, flagVars, treeVars, seenVars, pidfile, hup>>

\* mutant: need_rescan is reset at the end of the cycle
CountClears ==
    /\ Goto("count", "loop")
    /\ keep_going' = (keep_going /\ ~one_shot_mode) /\ need_rescan' = FALSE /\ cycle_count' = 1
    /\ UNCHANGED <<worldVars, treeVars, seenVars, pidfile, hup>>

\* Lines 372-374.
Count ==
    /\ Goto("count", "loop")
    /\ keep_going' = (keep_going /\ ~one_shot_mode)
    /\ cycle_count' = 1
    /\ UNCHANGED <<worldVars, need_rescan, treeVars, seenVars, pidfile, hup>>

\* Lines 377-383.
Cleanup ==
    /\ Goto("cleanup", "exited")
    /\ treeCpus' = {} /\ db' = {}
    /\ pidfile' = IF ~Foreground /\ PidOption THEN "none" ELSE pidfile
    /\ UNCHANGED <<worldVars, flagVars, seenVars, hup>>

Main ==
    \/ BuildCpus \/ BuildIrqs \/ WritePidfile \/ FirstRead \/ InstallSighup
    \/ Loop \/ Parse \/ Test \/ Reset
    \/ FreeObjectTree \/ RebuildCpus \/ RebuildIrqs \/ Reread \/ ParseAgain
    \/ Balance \/ Count \/ Cleanup

Next == Main \/ Kernel \/ Sigint \/ Sighup \/ Killed

Spec == Init /\ [][Next]_vars

\* The daemon is scheduled and its sleeps end; no signal and no change of the
\* machine has to come.
FairSpec == Spec /\ WF_vars(Main)

-----------------------------------------------------------------------------
(* Properties.                                                             *)

\* update_migration_status compares the loads of two looks at the kernel.  It
\* only runs (364) when the last look that could be taken found no interrupt
\* that the tree does not have, and as many CPUs as the tree has: a mismatch
\* leads to a rescan, which makes the next balancing a first one (349), even
\* when another mismatch is found on the way (356, 360).
SeenMatches ==
    /\ seenIrqs \subseteq db
    /\ seenIrqs # {} => Cardinality(seenCpus) = core_count
MigratesOnMatch == pc = "balance" /\ cycle_count # 0 => SeenMatches

\* A rescan that is asked for, by a signal or by parse_proc_interrupts, is done
\* unless the daemon is told to end.
RescanServed == need_rescan ~> (pc = "recpus" \/ ~keep_going \/ pc = "exited")

\* Once the machine stays as it is and its files can be opened, the daemon
\* balances all the interrupts there are, on as many CPUs as there are,
\* whatever changed between the files it read for the last tree, whatever could
\* not be opened then, and however many rescans are asked for.  Which CPUs they
\* are is not part of it: see SameCpus.
Known == irqs \subseteq db /\ (irqs # {} => Cardinality(online) = core_count)
CatchesUp == <>[](pc = "balance" /\ opens = Files => Known)

\* The daemon ends once it is told to, by SIGINT or by one-shot mode.
Ends == (~keep_going \/ one_shot_mode) ~> (pc = "exited")

-----------------------------------------------------------------------------
(* Statements of a message and of the manual page that the code does not   *)
(* keep.                                                                   *)

\* "didn't collect load info for all cpus, balancing is broken"
\* (procinterrupts.c:343): it only says so.  When one CPU goes and another comes
\* between two looks, and no count happens to go down, the tree keeps the one
\* that is gone.
SameCpus == <>[](pc = "balance" /\ opens = Files /\ irqs # {} => treeCpus = online)

\* irqbalance.1: SIGHUP forces a rescan of the available IRQs and topology.
HupRescans == hup ~> (~hup \/ ~keep_going \/ pc = "exited")

\* irqbalance.1, --pid: the written pidfile is automatically unlinked when
\* irqbalance exits.
PidfileUnlinked == pc = "exited" => pidfile # "mine"

\* The same sentence: it is the written pidfile that is unlinked, not another's.
OthersPidfileKept == [][pidfile = "other" => pidfile' = "other"]_vars
=============================================================================
