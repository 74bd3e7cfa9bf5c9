# TLA+ models of the nf10 driver and of irqbalance

The repository holds two C programs that have nothing to do with each other:

* `nf10_driver_0代码分析/`, a Linux driver for the NetFPGA-10G card: a PCIe card
  with four network ports, one transmit and one receive ring for all of them, and
  registers that processes reach through `/dev/nf10`;
* `irqbalance代码分析/`, the irqbalance daemon: it reads the interrupt load of the
  machine every ten seconds and spreads the interrupts over the CPUs.

Source names are kept. `nf10priv.c:81` and the like are lines of the files in
these two directories. Comments in the modules name lines of the file that the
section is about.

## 1. The parts of the system

### nf10 driver

| Part | State | Operations | What makes it correct |
|---|---|---|---|
| Transmit: `nf10i_tx`, `nf10priv_xmit`, TX half of `work_handler` | write pointers and counters of descriptor ring and packet buffer, `tx_bk_*` bookkeeping, the card's descriptors, completion ring, stopped queues | reserve under `tx_lock`, fill in bookkeeping and descriptor outside it, reap a completion, wake queues | no slot and no line of the buffer has two users; the worker frees exactly the packet that was sent; nothing is lost; a stopped queue is woken |
| Interrupts and polling: `int_handler`, `work_handler` | interrupt enable registers, pending work, `work_lock`, `tcnt`, `int_enabled` | queue work, switch interrupts off and on, count rounds | no completion is left unhandled when the driver rests; the loop ends |
| Receive: `nf10priv_send_rx_dsc`, RX half of `work_handler`, `nf10i_open`, `nf10i_stop` | ring and packet buffer of the receive side, `rx_bk_*`, `port_up` | post an empty packet, deliver, drop | the packet delivered is the one the card filled; the card writes only to packets it was given; its supply is kept up |
| Registers: `nf10fops_ioctl` | `axi_wr_cnt`, the card's write buffer | write a register, read one | the count does not fall behind the write buffer, whoever else writes or reads |
| Probe and remove: `nf10_probe`, `nf10_remove` and the parts of nf10iface.c and nf10fops.c they call | regions, mappings, buffers, work queue, interrupt, net devices, character device | set up in order, undo in reverse order at any failure, take down | whoever can enter the driver finds what it uses; each thing is given back, and once |

The network stack calls a transmitter per port, the card works on its own and
interrupts, and the work queue runs `work_handler` on any CPU, one at a time
(`work_lock`). They share the rings, and only the counters are atomic. Hard here:
the work on a slot goes on after the lock is left; the card completes slots while
others are being filled; interrupts that come while they are off are not
remembered; a mapping or an allocation fails in the middle of an operation; and
all of these callers can come in while probe or remove is half done.

### irqbalance

| Part | State | Operations | What makes it correct |
|---|---|---|---|
| Main loop: `main`, signal handlers | `keep_going`, `need_rescan`, `cycle_count`, the pidfile | look at the kernel, rescan, balance, sleep, end | loads are compared only on the topology they belong to; requests to rescan and to end are served |
| Measuring: `parse_proc_stat`, `clear_work_stats` | load of every object and interrupt | share loads out over the tree | the parts fit the whole (the code subtracts unsigned numbers) |
| Migration: `update_migration_status` | the lists of the objects, `rebalance_irq_list`, powersave mode | give interrupts up, put a CPU to sleep | never the last interrupt, never so many that the objects change places |
| Placement: `calculate_placement` | `assigned_obj`, the lists | put every interrupt on a node, then down the tree | every interrupt is on exactly one list and as far down as its level and its hint allow |
| Activation: `activate_mappings` | `smp_affinity` in the kernel, `moved` | write the masks | an interrupt is done only when the kernel has its mask; bans and hints are kept |
| Lists: `glist.c` | doubly linked lists | delete, append, merge sort | |
| Interrupt database: `classify.c` | `irq_info`: class, level, node, policy, hint | build it from sysfs, a policy script and ban lists | every interrupt is known once, and what was said of its device is what is done |
| Topology: `cputree.c`, `numa.c` | the forest of nodes, packages, cache domains, CPUs | build and free it | each object has one parent and the masks agree |
| Bitmaps: `bitmap.c` and headers | words of bits | shift, parse, print | agreement with sets; what is written is read back |

The daemon is one thread. What makes it hard is that it reads some ten files one
after the other while the machine changes, that signal handlers write its flags,
that every access to a file can fail, and that the balancing is a long
computation on lists that are changed while they are walked.

## 2. The modules

| Module | Models | Lines in the code |
|---|---|---|
| `Nf10Tx` | the transmit path: one thread per port, the card, the worker | nf10iface.c:26-69, nf10priv.c:24-114, 156-192 |
| `TxFifo` | what it promises: a bounded queue of packets; `SafetySpec` is the part without fairness | abstract |
| `Nf10Poll` | interrupts, work queue, the loop of `work_handler` | nf10priv.c:13-23, 117-160, 292-312 |
| `CompletionService` | what it promises: each completion is handled; `SafetySpec` likewise | abstract |
| `Nf10Rx` | the receive path: probe and worker post, the card fills, the worker delivers | nf10priv.c:194-290, 314-385, nf10iface.c:76-90, 197-201 |
| `Nf10Axi` | register access and the count of buffered writes | nf10fops.c:16-131 |
| `Nf10Lifecycle` | probe and remove, their error ladders, and who can call meanwhile | nf10driver.c:31-363, nf10iface.c:13-24, 154-235, nf10fops.c:29-36, 133-178 |
| `Nf10Device` | `Nf10Lifecycle` and `Nf10Axi` put together | nf10fops.c:16-131 |
| `CpuTree` | the building of the tree from sysfs while CPUs come and go, and its freeing | cputree.c:36-268, 337-410, numa.c:28-170 |
| `GList` | deletion and merge sort as they are used | glist.c:103-171, classify.c:611-646 |
| `IrqPlacement` | measuring, migration, placement, activation on a given topology | procinterrupts.c:205-359, irqlist.c, placement.c, activate.c |
| `IrqDaemon` | `main`, signals, pidfile, and a machine that changes | irqbalance.c:203-215, 275-384, procinterrupts.c:98-203, parts of classify.c, cputree.c, numa.c |
| `IrqDb` | the building of the interrupt database while drivers change | classify.c:24-579, procinterrupts.c:20-95, numa.c:155-171 |
| `Bitmap` | masks in words, printing and parsing | bitmap.c, bitmap.h, non-atomic.h, cpumask.h |
| `Nf10TxProofs`, `Nf10RxProofs`, `Nf10PollProofs`, `Nf10DeviceProofs` (also of `Nf10Lifecycle`), `IrqbalanceProofs` (of `Bitmap` and `IrqDaemon`), `IrqDbProofs`, `CpuTreeProofs`, `IrqPlacementProofs` (also of `GList`) | theorems and proofs | |
| `MC…` | constants of the instances for TLC | |

Operators marked `\* mutant` are wrong versions of the definition that follows
them. No specification uses them; put in place of that definition each breaks
the property it is there for, which shows that the property depends on the code.

### Nf10Tx

A packet is a model value; its size is its number of cache lines. Pointers count
descriptors and lines, so `(ptr + 64) & mask` is `Wrap(ptr + 1, N)`. Each port
has a program counter `pc`: `Reserve` takes `tx_lock` and moves the pointers,
`Count` raises the counters (line 63), `CheckFull` and `StopQueue` are the end of
the critical section, and `WriteBk`, `WriteDsc`, `Stats` come after it. Split like
this, the worker's atomic decrements and its test for room come between any two
of them, as they do in the code, which does not take `tx_lock` there. `MapError`
is the early return of lines 56-61. The worker is `Reap`, `DecDsc`, `Invalidate`,
`CheckWake`, `WakePort`, one for each access to shared state. The card is
external: it fetches descriptors in slot order and reports slot *i* in entry *i*,
which is what lines 159-178 rely on.

`SlowCard` is an assumption on the card, not on the driver: it does not complete
a slot between line 175 (which frees the slot) and line 178 (which invalidates
its old completion) of the same round. For that a transmitter would have to
reserve the slot, fill it in, and the card to send the packet within three lines
of the worker. The driver does nothing to exclude it: with `SlowCard = FALSE` the
new completion is wiped out and TLC finds `NoSkbLost` violated. The runs assume it.

### Nf10Poll

What a round does for a completion is the subject of `Nf10Tx` and `Nf10Rx`; here
`done[k]` counts those that are valid and not read. Every register write is a
step of its own. `Report` raises an interrupt only while interrupts of the kind
are on. `Start` and `Lock` are separate because the work is no longer pending
once a thread has taken it, so several CPUs can be waiting for `work_lock`.

### Nf10Rx

Two threads are in `nf10priv_send_rx_dsc`: probe, which posts the first
descriptors after interrupts are registered, and the worker. `SendNoRoom`,
`SendAllocFail`, `SendReserve` are the section under `rx_dsc_lock`; bookkeeping
and descriptor are written outside it. The last four steps of the worker decide
what becomes of a packet.

### Nf10Axi

The bit tests of lines 67-101 are translated as C evaluates them: `~(val & 0x2)`
is the complement, which is zero only for -1. Any number of processes can be in
`nf10fops_ioctl`; the count is changed under `axi_lock`, and read again (104) and the
write issued (111) after it is left, so each of these is a step. A write to a full
buffer is lost.

The count is an estimate, and the code makes it wrong in two ways: a buffer that is
almost full, or full, is taken for one that is not (line 72), and a count
set from a status (73) or to zero (122) forgets the writes that other processes have
counted and not issued yet, or issued since. `sure` is a history variable that no step reads:
it says that nothing of the kind happened when the count was last set. The runs and
the proofs go through all behaviours, sure or not, and the properties say what holds while
it is. It comes back with the next setting that nothing is in the way of.

### Nf10Lifecycle and Nf10Device

`pc` is where the thread of the driver core is, in `nf10_probe`, in its ladder of
labels, or in `nf10_remove`; `held` is the set of what has been set up and not
been taken down. `Try` is one block of the probe: it asks for some things and looks
at the results, so with two allocations in a block either, both or none may be
there when it goes to its label. `Undo` is one label, or a part of `nf10_remove`.
The other callers are actions of their own: `Interrupt` queues work, `Transmit` and
`WorkDone` are the stack and the work queue, `Open` and `Release` the processes.

The work queue is created (234) and never destroyed, so `"wq"` stays in `held` from the
first probe on; the field of the card that points to it is `cardWq`, which goes with the
card, and is `"failed"` when `create_workqueue` has returned NULL, which the code does not
look at. `work` says whose `work_handler` is queued or running: nothing in `nf10_remove`
waits for it (333-336), so it may belong to a card that has been freed. After a failure behind
`request_irq` the ladder frees the card but leaves the interrupt, and in `nf10fops_probe`
the net devices too (nf10iface.c:206-218 and nf10driver.c:276-284 do not take them back);
these states are part of the model, and no probe follows them.

The code does not keep what one would like it to keep in all states, so the properties name
the windows in which it does not, and say for each caller what holds in all others:

* `EntryPointsBacked` says nothing once a failure behind `request_irq` has reached the
  labels that unmap and free (`Abandoned`), nor of queued work once `nf10_remove` has unmapped the card (`TakenDown`).
  In the rest of the ladder, in every step of probe and up to that first iounmap it does.
  It does not need the work queue to be there, only that `card->wq` has been set, nor the
  net devices for work while `nf10iface_remove` frees them.
* `GivenBackOnce` says that what a label gives back is held when it does, so nothing is given back twice or
  without having been set up; and that after a probe that failed before `request_irq`, or after
  `nf10_remove`, only posted packets and work queues are left. The class is not in it: it is given back
  twice (nf10fops.c:173-174).

What the windows hide is stated as `FailedProbeClean`, `WorkFindsCard`, `HandlerHasQueue`,
`PortsOutliveWork`, `FilesFindCard` and `QueuesDestroyed`; the code keeps none of them (section 3).

`Unbind` tells whether the driver can also be taken away by writing to `unbind` in sysfs,
which open files do not forbid as they do rmmod (`.owner`, nf10fops.c:22). The run has
`Unbind = FALSE`; both properties hold with `TRUE` as well, where what they say of open files is empty, and
the proofs are for either.

`Nf10Device` lets a file be in `nf10fops_ioctl` while other processes and the driver core
go on; `axi_wr_cnt` is static and keeps its value from one card to the next.

### IrqDb

A device is `absent`, without a driver, on its line, or on messages, and `Driver`
changes that at any moment. `rebuild_irq_db` is cut at each file or directory it opens:
the list of `/proc/interrupts`, the directory of the devices, each device, each of
its interrupts. An interrupt's step contains the policy script, the ban script and
the entry made of them, since nothing the daemon does is between these and what they
read of a device does not depend on another. `PolScript` gives the lines that the
policy script prints, with keys that are unknown, values that make no sense and
keys that come twice; `ParseKey` is `parse_user_policy_key`. An entry of the
directory that appears or disappears while it is read may be missed.

### Bitmap

A word is the set of the positions of its bits, and a mask a function from word
numbers to words, so an operation on words is one on sets but still has to get
right what is at the seams: shifts across words, the last word, and the bits behind
the end, which may have any value. Destination and source may be the same mask.
`Parse` and `Printed` go through the text one character at a time; a character is
a digit with its bits, a comma, a white space, the end of the string, or anything else.

### CpuTree

An object is its place in its master list; `parent` and `children` hold places,
0 is NULL. `readdir` returns entries in any order, so each step takes any one of
`unread`. `do_one_cpu` reads four files per CPU, and each is a step of its own:
`ReadOnline`, `ReadSiblings`, `ReadCache`, and `Insert`, which reads the node and
then makes all the changes, for no file is read between them. The kernel is external:
its files list the CPUs that are online at the moment, and those of a CPU that has
gone are gone with it. Without the file `core_siblings` the code uses an
uninitialised mask with one bit set, which is any mask with that bit. The cache
level that is read (the deepest up to `deepest_cache`) is part of `CacheOf`.
The package number goes only into a log message and is left out.

### IrqPlacement and GList

The forest, the interrupts and their attributes are constants of an instance; a
mask is a set of CPU numbers. The four calls of a cycle are the four actions
(`Measure` or `MeasureFails`, `UpdateMigrationStatus`, `CalculatePlacement`,
`ActivateMappings`). Each changes many lists one element at a time; this is a fold
over the list in its order, on a record `w` of the lists, so the choice of one
interrupt depends on what was done to the ones before, as in the code. `IoOutcomes`
is how an access to `/proc/irq/N/smp_affinity` ends. `PlacementAssumption` is what
`LinksAgree` and `TreeIsMachine` of `CpuTree` say of a tree. The loads are chosen from
`Ticks` and `Counts`; whether they are jiffies or nanoseconds makes no difference
to any comparison. The standard deviation is compared as a square, which is exact.

### IrqDaemon

Each file that is read is a step, and so is each statement that touches a flag the
handlers write. `online` and `irqs` are the machine, `opens` which of its files can be
opened at the moment; `treeCpus` and `db` are what the daemon's tree was built from, and
`core_count` the number of the first, which is all of it that is compared; `seenCpus` and
`seenIrqs` what the last look at `/proc/interrupts` contained. Without the directory of
the CPUs the tree is empty; without that of the devices the database is (classify.c:557-559), without
`/proc/interrupts` it has only the devices' interrupts; and a look that fails is one that
never was (procinterrupts.c:104-106). Balancing does not touch any of these and is the
step `Balance`. `reborn` holds interrupts that were removed and came back, whose
counts start again: the daemon notices only when the new sum is lower, which can also happen when a
CPU takes its column with it (`MayBeLower`).
`one_shot_mode`, an option of the command line, is chosen in `Init`, so every run is
about both modes.

## 3. What is checked

Passing runs:

| Run | Instance | Shows |
|---|---|---|
| `tx_safety` | 2 ports, 3 packets, 2 slots, 3 lines, sizes 1 and 2, one failing mapping | slots and lines have one user, completions match, counters are exact, nothing is lost, a stopped queue has a waker; after a failed mapping the pointer is ahead of the counter by one; no deadlock |
| `tx_liveness` | 2 ports, 2 slots, 2 lines | queues are restarted; the path implements `TxFifo` |
| `poll` | 3 CPUs, 2 outstanding completions of a kind, `tcnt` up to 3 | nothing is left unhandled, the local flag tells the card's state, `CompletionService` is implemented, the loop ends |
| `rx` | 1 port, 4 packets, 3 slots, 5 lines, a failing allocation | slots and lines have one user, the delivered packet is the filled one, the card writes only to packets it was given, its supply is kept |
| `device` | 3 ports, 2 processes, every failure of probe, removal and new probe, a write buffer of 4 entries | interrupt, work, stack and open files find what they use at the points of probe, ladder and remove that section 2 names; each thing is given back once; the count covers the write buffer, over two processes and from one card to the next, as long as it is sure |
| `irq_place` | 3 nodes, 2 packages of which one spans 2 nodes, 3 CPUs and a banned one, 4 interrupts of every hint policy, powersave mode, files that cannot be read or written | lists and `assigned_obj` agree; every interrupt gets as far down as its hint and sleeping CPUs let it; hints are kept, and a banned CPU is written only for an interrupt left on a node; sleeping CPUs are empty; an interrupt that is not marked has the mask of its place |
| `irq_balance` | 2 CPUs in one cache domain, 5 interrupts, no NUMA | the unsigned differences do not wrap; no object gives up its last interrupt or falls below the one it gives to |
| `cpu_tree` | 5 CPUs, one banned, 2 packages of which one spans 2 nodes, 2 changes of the machine, rescans | parents and children agree at every moment; a tree built without a change in the middle is that of the machine, whatever the order of the directories |
| `irq_daemon` | 3 CPUs, an interrupt, files that cannot be opened, 2 changes of the machine, one-shot mode or not | migration only on a topology whose interrupts and number of CPUs match, rescans are served, the daemon catches up with the interrupts and the number of CPUs, and ends |
| `irq_db` | 3 devices of which two share a line, 8 interrupts, 2 changes by drivers, 2 rebuilds | every interrupt is known once; when nothing changed, what the user said of a device's interrupt is what is done, and its kind is the device's |
| `bitmap` | 6 bits in words of 4, every mask against 6 others, every text of up to 7 characters | operations and questions are those of sets; a mask that is printed is read back; a text is read as the comment says or refused |

A run in which a statement of the repository is refuted (with the quotation under
`findings` in `PROJECT.json`):

| Run | The statement | What the code does |
|---|---|---|
| `tx_slot_reuse` | nf10priv.c:40, "make sure we fit in the descriptor ring" | after a failed mapping the pointers are ahead of the counters, and a slot in use is overwritten |

### Statements the code does not keep

These are further statements of the documentation and of comments, written as
properties at the end of the modules. The code does not keep them; no run
checks them. With the change given, TLC shows a behaviour that violates each.

| Property | The statement | What the code does | To see it |
|---|---|---|---|
| `Nf10Tx!NoTransmitDeadlock` with errors | nf10priv.c:180, "restart queue if needed" | after a failed mapping the card waits for the skipped slot, the stopped queue for the card | `Nf10TxLive.cfg` with `MaxMapErrors = 1`, one port, `N = 4`, `M = 2` |
| `Nf10Tx!StatsReadLiveSkb` | nf10iface.c:64, "update stats" | line 66 reads the length of a packet the worker may have freed | add to `Nf10TxSafety.cfg` |
| `Nf10Rx!NoRxLeak` | nf10priv.c:286, "invalid or down port, drop packet" | an invalid packet (232-235) is neither delivered nor freed | add to `Nf10Rx.cfg` |
| `Nf10Device!NoOverflow` | nf10fops.c:59, "check for write buffer overflow" | `~(val & 0x2)` (72) is true whatever the bit, so a full buffer is taken for one with room; and a count that is set (73, 122) forgets the writes of others | add to `Nf10Device.cfg` |
| `Nf10Lifecycle!FailedProbeClean` | nf10driver.c:275, 282, "failed to initialize ..." | a failure behind `request_irq` leaves the interrupt, and in `nf10fops_probe` the net devices, registered for a card that is freed | add to `Nf10Device.cfg` |
| `Nf10Lifecycle!HandlerHasQueue` | nf10iface.c:21 queues work | nf10driver.c:234 does not look whether the queue was created | add to `Nf10Device.cfg` |
| `Nf10Lifecycle!WorkFindsCard` | nf10priv.c:119-160 use the card, its registers and buffers | `nf10_remove` unmaps and frees them (333-352) without a wait for queued work | add to `Nf10Device.cfg` |
| `Nf10Lifecycle!FilesFindCard` | nf10fops.c:41 takes the card of an open file | with `unbind` in sysfs `nf10_remove` does not wait for the files | `Nf10Device.cfg` with `Unbind = TRUE` |
| `Nf10Lifecycle!PortsOutliveWork` | nf10priv.c:185 and 236 use the net devices | `nf10iface_remove` frees them while work can run, and interrupts come before they are all there | add to `Nf10Device.cfg` |
| `Nf10Lifecycle!DmaTargetsHeld` | nf10driver.c:325, "releasing private memory" | the card is not told to stop before its completion buffers are freed | add to `Nf10Device.cfg` |
| `Nf10Lifecycle!QueuesDestroyed` | each other step of probe has its counterpart | the work queue is never destroyed | add to `Nf10Device.cfg` |
| `IrqPlacement!SleepersSpared` | manual, `--powerthresh`: a CPU in powersave mode gets no interrupt | a cache domain is not skipped when its CPUs sleep, and its mask is theirs | add to `IrqPlace.cfg` |
| `IrqPlacement!PowersaveEarned` | manual, `--powerthresh`: more than so many CPUs more than a deviation below the average | irqlist.c:103, 162 compare with `<=` and `>=`: equal loads are enough | add to `IrqPlace.cfg` |
| `IrqPlacement!BanKept` | manual, `IRQBALANCE_BANNED_CPUS`: CPUs that irqbalance should never assign interrupts to | node masks contain banned CPUs (numa.c:55), and an interrupt stays on a node whose packages it does not fit, as when a package spans two nodes and is a child of one | add to `IrqPlace.cfg` |
| `IrqPlacement!SubsetBalanced` | manual, `--hintpolicy`, "subset" | the node of the device is taken without a look at the hint (placement.c:133) | add to `IrqPlace.cfg` |
| `IrqPlacement!MappingDone` with refused masks | activate.c:102, the interrupts that moved have had their mapping done | fprintf and fclose are not checked: a mask the kernel refuses counts as done and is not tried again | `"rejected"` in `IoOutcomes` of `IrqPlace.cfg` |
| `IrqPlacement!MinIsLeast` | irqlist.c:16 | a minimum of zero is taken for none | add to `IrqPlace.cfg` |
| `IrqPlacement!LoadIsSum` | irqbalance.c:167 | the sum is divided by the number of children | add to `IrqBalance.cfg` |
| `IrqPlacement!SortsBySmallest` | irqlist.c:114 | larger loads come first | add to `IrqBalance.cfg` |
| `IrqDaemon!SameCpus` | procinterrupts.c:343, "didn't collect load info for all cpus, balancing is broken" | only the number of CPUs is compared (173): when one CPU goes and another comes between two looks the tree keeps the one that is gone, and the message comes back every cycle | `IrqDaemon.cfg`, in place of `CatchesUp` |
| `IrqDaemon!HupRescans` | manual, SIGHUP | ignored while `cycle_count` is 0 | add to `IrqDaemon.cfg` |
| `IrqDaemon!PidfileUnlinked`, `OthersPidfileKept` | manual, `--pid` | a killed daemon leaves its pidfile; a daemon that did not write the file unlinks it | add to `IrqDaemon.cfg` |
| `IrqDb!SharedBansHold` | manual, `--policyscript`, ban | on a shared line the first device that is read decides | add to `IrqDb.cfg` |
| `IrqDb!LevelFound` | manual, balance_level, "determined ... based on the pci device class" | a class that cannot be read or is not in the table leaves level 0, which is "none" | add to `IrqDb.cfg` |
| `IrqDb!LevelObeyed` | manual, balance_level, "allows a user to override" | for an interrupt without a device the level of the script is overwritten | add to `IrqDb.cfg` |
| `IrqDb!NodeFound` | placement.c:133 follows `numa_node` | the node of a device can be one that is not in the list: a null pointer | add to `IrqDb.cfg` |
| `IrqDb!AllKnown` | procinterrupts.c:151 asks for a rescan until all are known | without the directory of the devices nothing is added, and the rescans have no end | `IrqDb.cfg` with `HasSysdev = FALSE` |
| `Bitmap!EmbeddedRefused` | bitmap.c:277, "not embedded whitespace" | success is returned, with the chunks in front of the one that the white space is in | add to `Bitmap.cfg` |
| `Bitmap!AllBitsPrinted` | bitmap.c:229, "Exactly nmaskbits bits are displayed" | leading chunks that are zero are left out | add to `Bitmap.cfg` |
| `Bitmap!PrintParses` with a partial chunk | activate.c:98 and 32: what is written is what is read back | with the partial first chunk left out, the next one is cut to its width; the 4096 bits of this build have none | `Bitmap.cfg` with `NB = 7` |

`BanKept` fails only where `MasksAllowed` says that it may: an interrupt left on a node, of
whose usable CPUs the packages have none that its hint allows. `CpuTree` shows that the
daemon builds such trees.

### What the properties do not say

* `tx_safety` assumes `SlowCard`, and `tx_liveness` has no failing mapping: that the queues go
  on after one is not claimed (see the table above).
* `ReachesLevel` is about interrupts that are placed; one that no node will have stays on
  `rebalance_irq_list`. `SleepersEmpty` says that no interrupt comes to a sleeping CPU, not that
  the ones taken from it find another.
* `MigratesOnMatch` and `CatchesUp` have of the CPUs only their number, as the code does.
* `KnownOnce` says nothing of a rebuild that could not read `/proc/interrupts`. Scripts that
  cannot be started are not modelled.
* `ParseMeetsContract` leaves out texts with white space inside (`EmbeddedRefused`) and those that
  end in a comma, a lone comma among them, of which bitmap.c:275-276 says that they are refused.

### Bounds, and why they are enough

* Rings of two or three slots are full and empty all the time, wrap around after a
  few packets, and have each slot in all of its states at once. Two ports are two
  transmitters between lock and descriptor in either order; packets are used
  again after they have left, so runs have no end. `M` differs from `N` and sizes
  differ so that ring and buffer get full at different moments.
* `poll`: with three CPUs one holds the lock, one waits and one takes the
  interrupt. `MaxTcnt = 3` stands for 10000, the count where `tcnt` stops growing.
* `device`: 4 and 2 stand for the 64 and 48 entries of the write buffer; only their
  order matters. With three ports the loops over the ports have a first, a middle
  and a last turn. Two processes are one that counts and one that writes, reads or sets the
  count between any two of its steps.
* `irq_place`: the node with the banned CPU has another that belongs to a package which is a child of
  the other node, so it has no package of its own. One interrupt fits only this node, one goes
  there when the others are loaded, one has a hint the ban rules out, and one has
  a device on a node its hint leaves out. One count of what fired is enough, since the loads of
  the objects differ; `irq_balance` has two.
* `irq_db`: two devices on one line are what it takes for one to decide for the other;
  the third has messages and a class outside the table. Two changes are a device that
  goes and comes back, or two that swap, in one rebuild; the second rebuild starts from
  what the first left.
* `bitmap`: two words, the second in part used, in two chunks of two digits each, have
  every seam that 4096 bits in words of 64 have, and one more, the partial word. Seven
  characters are the digits of three chunks with commas, or of two with white space
  around them and an end of string.
* `IrqPlacement` stops `cycle_count` at `WarmUp + 1`, from where on the code makes
  no more use of it, so its runs go through any number of cycles. The two loads
  and counts are far enough apart that objects are under, over and on the
  average, and that rounding matters (1 does not divide into 3 shares).
* `CpuTree`: five CPUs are the fewest for a package with two caches over two nodes
  and another with a banned CPU beside one that is not. Two changes are a CPU that
  goes and comes back between two of its files.
* `IrqDaemon` lets the machine change `MaxChanges` times; two changes are enough
  for one that causes a rescan and one in the middle of it, or for one that undoes
  the other, or a CPU that goes and another that comes. Three CPUs let the number of
  CPUs change, or stay while they change, above one. Any of the files may be closed at the start. Signals are not bounded.
  `cycle_count` stops at 1: only whether it is zero is looked at in `main`.

### Fairness

`Nf10Tx`: the card goes on (`Fetch`, `Complete`), the worker goes on, and a
transmitter past the lock goes on, for its code has no wait in it. No thread has
to send, and no assumption is made about who gets the lock. `Nf10Poll` justifies the
worker's: an interrupt is delivered, the work queue runs its threads, and a
thread in `work_handler` waits for nothing but the lock. `IrqDaemon`: `WF(Main)`,
the daemon is scheduled and its sleeps end. Signals and changes of the machine
never have to happen.

Deadlock is checked except where the model really stops: a card waiting for a slot
that a failed mapping skipped (`tx_slot_reuse`), the
liveness run of the transmit path (its safety run checks it), a daemon that has
exited, a probe that has failed late, and the last rebuild of `irq_db`. In `tx_safety`
a failed mapping is followed until the next packet comes (`StopAfterMapError`); what
comes after that is `tx_slot_reuse`.

Every module of the system has a type invariant. `CpuTree`'s is checked in its
run; the other configurations leave theirs out for statements that say more. All are proved
(that of `Nf10Axi` is part of `Counted` in `Nf10DeviceProofs`).

## 4. What is proved

All proofs are for every value of the constants that the module's assumption
allows: any number of ports, packets, slots, CPUs, devices, interrupts. A hypothesis
beyond that is named with the theorem, and explained here or in section 2 or 3.

| Hypothesis | Theorems | Why |
|---|---|---|
| `mapErrors = 0` in the state | `Nf10TxProofs`, all but `TypeCorrect` and `PointersAlwaysAgree` | after a failed mapping they are false (`tx_slot_reuse`) |
| `SlowCard` | `NoPacketLost`, `StoppedQueuesHaveWaker`, `CountersAreExact`, `ImplementsQueue` | the race of lines 175 and 178 loses a completion, not a slot |
| `"rejected" \notin IoOutcomes` | `MappingIsDone` | fprintf's result is not looked at |
| `MasksNameCpus` | `PlacementTypeCorrect` | the cpumap of a node, or a hint, may name a CPU that does not exist |
| `NB % CHUNK = 0` | `PrintedIsRead` | false with a partial chunk (table in section 2); `NR_CPUS` has none |

### The driver

**`Nf10TxProofs`.** The invariants build on each other; each was an invariant of a run
of TLC before it was proved.

* `SlotsAreExclusive`: the slot that a transmitter fills in outside the lock is nobody
  else's. `SlotExclusive` is not inductive, for nothing in it says where the slots in use
  are. `Ring` adds that the counter counts the slots in use, that these lie in one window of
  the ring from the worker's pointer to the write pointer, and where in that window
  the card is. Reserving then extends the window by the one slot that the test of
  line 41 shows to be outside it.
* `PointersAlwaysAgree`: the write pointer is ahead by the window and one slot for each failed
  mapping. This one says what a failure leaves behind, and has no hypothesis.
* `CompletionsMatch`: the packet the worker frees is the one that was sent. `BkRight` says
  that the bookkeeping of a slot that is written names the packet in it, `OneOwner` that no
  packet is in two places.
* `NoPacketLost`: `KeptInv` says for each packet that is not freed where it is, up to the
  completion that is valid and not yet read.
* `BuffersAreDisjoint`, `CountersStayInRange`: the lines of the packets under way are stacked in the order of
  their slots, from a head on, without a gap (`Layout`, `Space`, `Stacked`, `Placed`), and are
  together no more than the counter says. The places of the packets are existentially quantified,
  for the code keeps them nowhere: it only has the write pointer and the counter.
* `CountersAreExact`: a packet that has a slot is in one of three sets, the transmitters that are
  still filling in, the slots of the card and the completions still to be read. `Tally` says
  that the counter is the number of these and the reserved buffer the sum of their sizes
  (`SizedTally`); each step keeps a member, adds one, takes one away or moves one. What that
  does to a sum over a finite set is proved by induction over its size, whatever order
  the sum is taken in (`SumsAdd`, `SumOneMore`, `SumOneFewer`). This one needs finitely many
  ports; the driver has four.
* `StoppedQueuesHaveWaker`: with nothing reserved, no queue stays stopped unless the worker is
  about to wake it (`IdleWakes`); a stopped queue with something reserved has a
  completion to come, by `NoneLost`.
* `ImplementsQueue`: with the refinement mapping of `tx_liveness`, each step is one of `TxFifo` or
  a stutter. `MapRight` and `SkbQueue` say that the mapped queue is the window of the ring.

**`Nf10RxProofs`.** The same for the receive path, where the two that post are probe and the
worker: `RxSlotsAreExclusive`, `CompletionsMatch`, `CardWritesOnlyHeld`, `RxBuffersAreDisjoint`,
`CountersStayInRange`. No hypothesis is needed, for an allocation that fails does
so before the pointers are moved. `SupplyIsKept` counts the descriptors that
circulate: each completion the worker reads asks for one more, each failed allocation
takes one away (`Circulating`), and those asked for are as many as fit (`Demand`, `RoomRight`).

**`Nf10PollProofs`.** `TypeCorrect`, `NothingIsLeft` and `FlagAndCardAgree`, from
four parts: who is in the critical section (`Exclusive`), what its holder knows of
the registers (`Registers`), that what was read in a round is still there when it
is handled (`Round`), and `NoneLost`: with a completion outstanding, an interrupt
or work is on its way, or the holder of the lock will look once more. A
holder that will not look again has read nothing in this round with interrupts on,
so whatever came since has raised one. `ServesCompletions`: each step is one of
`CompletionService` or a stutter.

**`Nf10DeviceProofs`.** About probe and remove, `TypeCorrect`, `EntryPointsAreBacked` and
`ResourcesAreGivenBackOnce`, for any number of ports and files, with `Unbind` or without, and
without a hypothesis: the windows in which the code gives no promise are in the properties. These speak
of single moments; the invariant says for each place in the code what is there. `BusHeld` does so
for the device, MSI and regions, `CardHeld` for the card with its maps and buffers, from the step that sets
each up to the label that takes it back, which is what a failure that goes to the wrong label would break; `CardGone` says where nothing of a
card is left to be found, and `Entrances` from where to where each caller can come in. About the
registers, `CountCoversBuffer`, and `BufferNeverOverflows`, that while the count is sure no
write is issued to a full buffer; for any size of the write buffer, any number of
processes, and over any number of cards. The invariant `Counted` is `CountCovers` with what a process
between lock and write can rely on: writes under way are counted one by one
(`OnTheWay`, whose size changes by one as a process enters or leaves it, `GotoMoves`), and a status read of a buffer that
is not almost full gives a count that covers what is in it and the one write to come (`StatusCovers`).

### irqbalance

**`IrqPlacementProofs`.** The four calls of a cycle are folds over lists that are changed on the way.
What such a loop does is proved by induction over its turns (`Least`, `Induct`, `EveryTurn`), from
the theorem of the library that every non-empty set of naturals has a least element;
`SortKeeps` says that the merge sort of `GList` permutes its list.

* `PlacesAreRight`: `Rightly(World)` holds between any two calls. `Homed`: each interrupt is on the one
  list that `assigned_obj` says, once, or on `rebalance_irq_list`. `Awake`: sleeping CPUs have
  none. `NotBelow`: none is deeper in the tree than its level. `OnUsable`: none is where it may not be. It is about
  a record of the lists, not about the variables, so that it can be carried
  through the turns of a loop. `OneHomeEach` and `SleepersAreEmpty` follow from it.
* `LevelsAreReached`: one pass over nodes, packages and cache domains, in this order, is enough.
  The pass over one list leaves on its objects only what is at its level or has
  no child that will take it, and puts nothing back on a list that was passed (`BelowTurned`,
  `NodeTurned`).
* `MappingIsDone`: whatever else fails, if the kernel takes the masks it is given.
* `LoadsAlwaysFit`: `Fitting` says it of every list. What an interrupt gets is a quotient of its object's
  load by what fired on the object, times its own part of that, and these parts add up to no more
  (`LoadsMeasured`); the sums are those of the code's loops over lists (`SumAdds`, `SumTimes`). What fired
  is handed down the tree and the loads are added up it; as the tree is four levels deep, these
  recursive functions are shown to exist level by level (`OneUp`, `OneDown`, `LoadsExist`, `SharesExist`). When
  `parse_proc_stat` gives up, no interrupt that is on a list has a load (`ClearedIs`).
* `GiversStayAhead`: `Steady`, the invariant of the loop on the interrupts of an object, says what `adjustment_load` and `min_load`
  are: the object's load less what was moved away (`Lost`), and the least load with that added.
  Each call of `find_overloaded_objs` touches the interrupts of its own objects only (`Within`, `FindDepth`), and
  `min_load` starts from the load of one of them (`MinIsOne`) and does not sink.
* `MasksAreAllowed`: an interrupt that stays on a node fits none of its packages (`NodesLeft`), so of what
  it may use there they have nothing; lower down no mask has a banned CPU (`TargetAllowed`).
* `PlacementTypeCorrect`: most of it is in `Rightly`; a list on which no interrupt is twice is no longer
  than there are interrupts (`ShortList`).

**`CpuTreeProofs`.** `LinksAlwaysAgree`, with the machine changing between any two files:
`Links` says it of each list as it grows, and `CountedOnce` keeps `core_count` within the CPUs.
`TreeIsTheMachine`: if nothing changed, the tree is the machine's. `Machine` says of a tree
that is half built what it has of the CPUs that were read (`CpusRight`, `MasksRight`), and
that its masks are nested as the machine's are (`Nested`), which is what makes the order
of the directories irrelevant: an object found by its mask is the one a CPU read
earlier has made.

**`IrqDbProofs`.** `EveryIrqKnownOnce`, for any devices, scripts and changes of the drivers
in the middle of a rebuild. `Lists` says that no interrupt has two entries;
`Progress` that an interrupt read from `/proc/interrupts` is, until the end, either still to be
looked up or in one of the lists. Nothing in the proof depends on when a device
comes or goes, since the interrupts no device owns up to are added at the end.
`OwnersDecide`: as long as nothing has changed, the walk over the devices finds what the
machine has (`Walk`, `Sees`), so an interrupt with one owner has the entry made of it
(`FromOwner`), and what the command line bans is in no list of balanced ones (`Unbalanced`).
`DbTypeCorrect`: no line that `polscript` prints takes the policy out of its type (`ParseKeyType`,
by induction over the lines in `UserPolicyType`), so no file and no script makes an entry without one.

**`IrqbalanceProofs`.** Two parts that stand by themselves. About `Bitmap`:

* `MasksAreSets`: all operations and questions of `bitmap.c` agree with those of sets, for words and
  masks of any size and any bits behind the end. A position is one of a word and a bit in it
  (`Position`, `OnePosition`), and the words cover the positions (`Places`), so a mask is known from its words
  (`Has`, `SameBits`). The shifts are shown for any memory of masks, dst and src the same
  or not: the array after each turn of the loop is given outright (`RightDone`, and its
  counterpart for the left), with the words that are still to be read as they were; that
  the loop ran in the wrong direction would break this. `WeightIs` is an induction over the words.
* `MaskTypeCorrect`: whatever `__bitmap_parse` is given and returns, what it leaves in the mask is a mask.
* `PrintedIsRead`: the invariant `Sofar` of the loop of `bitmap_scnprintf` says what `__bitmap_parse` makes of the text
  that is printed so far (`ReadsFrom`): the last chunk is the one being read, the chunks in front of it are in
  the mask, and `nbits` has not counted more than them, so the test for an overflow never
  fires. A chunk that is zero is only printed behind one that is not, or as the last; the
  first case is why `__bitmap_parse` counts it, and the second why it need not.
* `ParsesAsItSays`: the comment says where a digit goes by the commas behind it (`CommasTo`)
  and the digits up to the first of them (`DigitsTo`), which the loop cannot know yet. Stated for the first m
  characters, both only grow (`PlaceStep`, `PlaceGrows`): a comma moves all that was read up by a
  chunk, a digit what is in the chunk up by a digit (`AfterComma`, `AfterDigit`). So `GoodAt` holds of the loop
  as long as it reads: `chunk` is what is behind the last comma (`Inner`), the mask what is in front of it (`Outer`),
  `nbits` the number of its bits (`Counted`), nothing was wrong and all had a place. Where it gives up, the
  error is one of the text, and since places only grow it stays one (`BigStays`). `BodyIs` and `ReadsBody` deal with
  the white space around the body and with what follows a NUL.

About `IrqDaemon`, `DaemonTypeCorrect` and `MigratesOnlyOnMatch`. The strengthening
says what lies between the look and the comparison: a tree that is new has not been looked at
(`NotLooked`); after that an unset `need_rescan` means that the last look that succeeded
matched (`Looked`), for a look that fails leaves the flag alone; and during a rescan
`cycle_count` is zero.

### What is only model-checked

* Liveness, and the fairness of `TxFifo!Spec` and `CompletionService!Spec`: the prover has no
  rule for them. The safety halves of both refinements are proved.

## 5. What is not modelled

* The content of packets, statistics (but for when they are read), MAC addresses,
  `LOOPBACK_MODE`, which is not compiled. A receive buffer that cannot be mapped:
  what the card does with such an address is not in the code.
* The cells of the doubly linked lists: lists are sequences, and what `glist.c` does with
  `next` and `prev` is modelled by what becomes of the sequence (`GList`).
* `nf10_pcie_error`, registers of statistics, the registration of the module: no state.
* The functions of `bitmap.h` and `cpumask.h` that are declared and not defined, or defined
  and not used (regions, the list format, remapping). Allocations that fail in irqbalance:
  most are not checked, and the daemon ends.
* Command line, log, dumps, build files, headers with declarations.

## 6. Plan

Done, in this order: `Nf10Tx` with `TxFifo`, `Nf10Poll` with `CompletionService`,
`Nf10Rx`, `Nf10Axi`, `GList`, `IrqPlacement`, `IrqDaemon`, `CpuTree`, `Nf10Lifecycle` with
`Nf10Device`, `IrqDb`, `Bitmap`; the proofs above.

To come: `GListCells`, the doubly linked cells, as a refinement of the sequences.
