------------------------------ MODULE CpuTree ------------------------------
(***************************************************************************)
(* How irqbalance builds its tree of NUMA nodes, packages, cache domains   *)
(* and CPUs from /sys/devices/system, and frees it before a rescan         *)
(* (cputree.c, numa.c).                                                    *)
(*                                                                         *)
(* Directories are read in any order, one file per step, while CPUs go     *)
(* offline and come back.  An object is its place in its master list, 0 is *)
(* NULL, and the first NUMA node is unspecified_node.  Allocations do not  *)
(* fail here.                                                              *)
(***************************************************************************)
EXTENDS Integers, FiniteSets, SequencesExt

CONSTANTS
    Cpus,         \* the numbers of the CPUs that have a directory
    BootCpu,      \* the one that has no file "online" and is always online
    Nodes,        \* the numbers of the NUMA nodes
    Unspecified,  \* -1
    PackageOf, CacheOf, NodeOf,  \* of each CPU: what its files tell
    Banned,       \* banned_cpus
    NumaAvail,    \* numa_avail
    MaxChanges    \* bound on what the kernel does

Unbanned == Cpus \ Banned

ASSUME TreeAssumption ==
    /\ IsFiniteSet(Cpus) /\ BootCpu \in Cpus /\ Unspecified \notin Nodes
    /\ Banned \subseteq Cpus /\ NumaAvail \in BOOLEAN /\ MaxChanges \in Nat
    /\ NodeOf \in [Cpus -> Nodes]
    /\ \A c, d \in Cpus : CacheOf[c] = CacheOf[d] => PackageOf[c] = PackageOf[d]

VARIABLES
    online, changes,  \* of the kernel
    calm,             \* the CPUs have not changed since the building began
    numa_nodes,       \* records of number, mask and children
    packages,         \* records of mask, children and parent
    cache_domains,    \* the same
    cpus,             \* records of number and parent
    core_count,
    pc,               \* what is read next
    unread,           \* the entries readdir has not returned yet
    cpu, package_mask, cache_mask  \* of do_one_cpu

machineVars == <<online, changes>>
listVars    == <<numa_nodes, packages, cache_domains, cpus, core_count>>
localVars   == <<cpu, package_mask, cache_mask>>
vars        == <<machineVars, calm, listVars, pc, unread, localVars>>

Masks == (SUBSET Unbanned) \ {{}}

\* CPUs that are banned are in no mask but those of the NUMA nodes.
TypeOK ==
    /\ online \subseteq Cpus /\ changes \in 0..MaxChanges /\ calm \in BOOLEAN
    /\ \A n \in ToSet(numa_nodes) :
           n.number \in Nodes \cup {Unspecified} /\ n.mask \subseteq Cpus
    /\ \A p \in ToSet(packages) : p.mask \in Masks /\ p.parent \in 1..Len(numa_nodes)
    /\ \A d \in ToSet(cache_domains) : d.mask \in Masks /\ d.parent \in 1..Len(packages)
    /\ \A c \in ToSet(cpus) : c.number \in Unbanned /\ c.parent \in 1..Len(cache_domains)
    /\ core_count \in 0..Cardinality(Cpus)
    /\ pc \in {"build", "nodes", "cpus", "siblings", "cache", "node", "done"}
    /\ unread \subseteq Nodes \/ unread \subseteq Cpus
    /\ cpu \in Cpus /\ package_mask \subseteq Cpus /\ cache_mask \subseteq Cpus

Init ==
    /\ online \in {s \in SUBSET Cpus : BootCpu \in s} /\ changes = 0 /\ calm = TRUE
    /\ numa_nodes = <<>> /\ packages = <<>> /\ cache_domains = <<>> /\ cpus = <<>>
    /\ core_count = 0
    /\ pc = "build" /\ unread = {}
    /\ cpu = BootCpu /\ package_mask = {} /\ cache_mask = {}

-----------------------------------------------------------------------------
(* The kernel: its files list the CPUs that are online, and the files of a *)
(* CPU that is not online are gone.                                        *)

Siblings(c)   == {d \in online : PackageOf[d] = PackageOf[c]}
CacheMates(c) == {d \in online : CacheOf[d] = CacheOf[c]}
LocalCpus(n)  == {d \in online : NodeOf[d] = n}

Kernel ==
    /\ changes < MaxChanges /\ changes' = changes + 1
    /\ calm' = FALSE
    /\ \E c \in Cpus \ {BootCpu} :
           online' = IF c \in online THEN online \ {c} ELSE online \cup {c}
    /\ UNCHANGED <<listVars, pc, unread, localVars>>

-----------------------------------------------------------------------------
(* build_numa_node_list (numa.c:69-97).                                    *)

StartNodes ==
    /\ pc = "build" /\ pc' = "nodes"
    /\ numa_nodes' = <<[number |-> Unspecified, mask |-> Cpus, children |-> <<>>]>>
    /\ unread' = IF NumaAvail THEN Nodes ELSE {}
    /\ calm' = TRUE
    /\ UNCHANGED <<machineVars, packages, cache_domains, cpus, core_count, localVars>>

\* Lines 28-66.
AddOneNode(n) ==
    /\ pc = "nodes" /\ n \in unread /\ unread' = unread \ {n}
    /\ numa_nodes' = Append(numa_nodes, [number |-> n, mask |-> LocalCpus(n), children |-> <<>>])
    /\ UNCHANGED <<machineVars, calm, packages, cache_domains, cpus, core_count, pc, localVars>>

\* The beginning of parse_cpu_tree (cputree.c:343-347).
StartCpus ==
    /\ pc = "nodes" /\ unread = {}
    /\ pc' = "cpus" /\ unread' = Cpus
    /\ UNCHANGED <<machineVars, calm, listVars, localVars>>

-----------------------------------------------------------------------------
(* do_one_cpu (cputree.c:133-268).                                         *)

\* Lines 147-183: CPUs that are offline are passed over, and banned ones only
\* counted.
ReadOnline(c) ==
    /\ pc = "cpus" /\ c \in unread /\ unread' = unread \ {c}
    /\ core_count' = IF c \in online \cap Banned THEN core_count + 1 ELSE core_count
    /\ IF c \in online \ Banned THEN cpu' = c /\ pc' = "siblings" ELSE UNCHANGED <<cpu, pc>>
    /\ UNCHANGED <<machineVars, calm, numa_nodes, packages, cache_domains, cpus,
                   package_mask, cache_mask>>

\* Lines 185-207.  Without the file package_mask is what was on the stack, with
\* the bit of this CPU set (188).
ReadSiblings ==
    /\ pc = "siblings" /\ pc' = "cache"
    /\ IF cpu \in online THEN package_mask' = Siblings(cpu)
       ELSE \E left \in SUBSET Cpus : package_mask' = left \cup {cpu}
    /\ UNCHANGED <<machineVars, calm, listVars, unread, cpu, cache_mask>>

\* Lines 209-238.
ReadCache ==
    /\ pc = "cache" /\ pc' = "node"
    /\ cache_mask' = IF cpu \in online THEN CacheMates(cpu) ELSE {cpu}
    /\ UNCHANGED <<machineVars, calm, listVars, unread, cpu, package_mask>>

\* The place of the object with this mask, or of the one to be appended.
Place(list, mask) ==
    IF \E i \in DOMAIN list : list[i].mask = mask
    THEN CHOOSE i \in DOMAIN list : list[i].mask = mask
    ELSE Len(list) + 1
WithObject(list, mask) ==
    IF Place(list, mask) <= Len(list) THEN list
    ELSE Append(list, [mask |-> mask, children |-> <<>>, parent |-> 0])

\* mutant: the list is not searched first
AddChildTwice(list, i, children, child) ==
    [above |-> [list EXCEPT ![i].children = Append(@, child)],
     below |-> [children EXCEPT ![child].parent = i]]

\* Lines 68-81 and 116-127: a child that is not in the list is appended, and
\* its parent set, whatever it was.
AddChild(list, i, children, child) ==
    IF child \in ToSet(list[i].children) THEN [above |-> list, below |-> children]
    ELSE [above |-> [list EXCEPT ![i].children = Append(@, child)],
          below |-> [children EXCEPT ![child].parent = i]]

\* get_numa_node (numa.c:155-170), 0 if there is none.
NodePlace(nodeid) ==
    IF ~NumaAvail \/ nodeid = Unspecified THEN 1
    ELSE IF \E i \in DOMAIN numa_nodes : numa_nodes[i].number = nodeid
         THEN CHOOSE i \in DOMAIN numa_nodes : numa_nodes[i].number = nodeid
         ELSE 0

\* add_package_to_node (numa.c:127-142): only if the package has no node yet.
AddPackageToNode(list, j, n) ==
    IF n = 0 \/ list[j].parent # 0 THEN [above |-> numa_nodes, below |-> list]
    ELSE [above |-> [numa_nodes EXCEPT ![n].children = Append(@, j)],
          below |-> [list EXCEPT ![j].parent = n]]

\* mutant: banned CPUs stay in the masks
AllowedAll(mask) == mask

\* Lines 255-257.
Allowed(mask) == mask \cap Unbanned

\* Lines 240-267: the last file is read, and the CPU goes into the tree.
Insert ==
    LET cm     == Allowed(cache_mask)
        pm     == Allowed(package_mask)
        x      == Append(cpus, [number |-> cpu, parent |-> 0])
        k      == Place(cache_domains, cm)
        j      == Place(packages, pm)
        inCache   == AddChild(WithObject(cache_domains, cm), k, x, Len(x))
        inPackage == AddChild(WithObject(packages, pm), j, inCache.above, k)
        nodeid    == IF NumaAvail /\ cpu \in online THEN NodeOf[cpu] ELSE Unspecified
        inNode    == AddPackageToNode(inPackage.above, j, NodePlace(nodeid))
    IN  /\ pc = "node" /\ pc' = "cpus"
        /\ cpus' = inCache.below /\ cache_domains' = inPackage.below
        /\ packages' = inNode.below /\ numa_nodes' = inNode.above
        /\ core_count' = core_count + 1
        /\ UNCHANGED <<machineVars, calm, unread, localVars>>

Finish ==
    /\ pc = "cpus" /\ unread = {} /\ pc' = "done"
    /\ UNCHANGED <<machineVars, calm, listVars, unread, localVars>>

-----------------------------------------------------------------------------
(* free_object_tree, when main rescans: free_numa_node_list (numa.c:111)   *)
(* and clear_cpu_tree (cputree.c:373-410).                                 *)

\* mutant: core_count goes on
FreeObjectTreeCounting ==
    /\ pc = "done" /\ pc' = "build"
    /\ numa_nodes' = <<>> /\ packages' = <<>> /\ cache_domains' = <<>> /\ cpus' = <<>>
    /\ UNCHANGED <<machineVars, calm, core_count, unread, localVars>>

FreeObjectTree ==
    /\ pc = "done" /\ pc' = "build"
    /\ numa_nodes' = <<>> /\ packages' = <<>> /\ cache_domains' = <<>> /\ cpus' = <<>>
    /\ core_count' = 0
    /\ UNCHANGED <<machineVars, calm, unread, localVars>>

Next ==
    \/ Kernel
    \/ StartNodes
    \/ \E n \in Nodes : AddOneNode(n)
    \/ StartCpus
    \/ \E c \in Cpus : ReadOnline(c)
    \/ ReadSiblings \/ ReadCache \/ Insert \/ Finish
    \/ FreeObjectTree

Spec == Init /\ [][Next]_vars

-----------------------------------------------------------------------------
(* Properties.                                                             *)

Occurs(x, list) == Cardinality({i \in DOMAIN list : list[i] = x})
Usable == online \cap Unbanned

\* Whatever the kernel does in the meantime, children and parents agree at every
\* moment, which all walks over the tree rely on: a CPU is in the list of its
\* cache domain and no other, a package in that of its node and no other, and a
\* cache domain is in the list of its parent; nothing is listed twice, no object
\* is without children, and a CPU is in the mask of its cache domain.  (A cache
\* domain can be in a second list: that of its parent before, line 80.)
LinksAgree ==
    /\ \A x \in DOMAIN cpus, k \in DOMAIN cache_domains :
           Occurs(x, cache_domains[k].children) = IF cpus[x].parent = k THEN 1 ELSE 0
    /\ \A k \in DOMAIN cache_domains, j \in DOMAIN packages :
           Occurs(k, packages[j].children) \in IF cache_domains[k].parent = j THEN {1} ELSE {0, 1}
    /\ \A j \in DOMAIN packages, n \in DOMAIN numa_nodes :
           Occurs(j, numa_nodes[n].children) = IF packages[j].parent = n THEN 1 ELSE 0
    /\ \A o \in ToSet(packages) \cup ToSet(cache_domains) : o.children # <<>>
    /\ \A x \in DOMAIN cpus : cpus[x].number \in cache_domains[cpus[x].parent].mask

\* If no CPU came or went meanwhile the tree is that of the machine, whatever the
\* order of the directories: the CPUs that are online and not banned, under one
\* cache domain for each of their caches and one package for each of their
\* sockets, with the CPUs below an object in its mask and no others; and
\* core_count is the number of CPUs in /proc/interrupts.
BelowCache(d)   == {cpus[x].number : x \in ToSet(d.children)}
BelowPackage(p) == UNION {BelowCache(cache_domains[k]) : k \in ToSet(p.children)}
Covers(list, classes, Below(_)) ==
    /\ Len(list) = Cardinality(classes)
    /\ {o.mask : o \in ToSet(list)} = classes
    /\ \A o \in ToSet(list) : Below(o) = o.mask
TreeIsMachine ==
    pc = "done" /\ calm =>
        /\ {c.number : c \in ToSet(cpus)} = Usable /\ Len(cpus) = Cardinality(Usable)
        /\ Covers(cache_domains, {CacheMates(c) \cap Unbanned : c \in Usable}, BelowCache)
        /\ Covers(packages, {Siblings(c) \cap Unbanned : c \in Usable}, BelowPackage)
        /\ \A p \in ToSet(packages) :
               numa_nodes[p.parent].number \in
                   IF NumaAvail THEN {NodeOf[c] : c \in p.mask} ELSE {Unspecified}
        /\ \A n \in ToSet(numa_nodes) :
               n.mask = IF n.number = Unspecified THEN Cpus ELSE LocalCpus(n.number)
        /\ core_count = Cardinality(online)
=============================================================================
