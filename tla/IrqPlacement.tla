---------------------------- MODULE IrqPlacement ----------------------------
(***************************************************************************)
(* The balancing cycle of irqbalance on a topology that does not change:   *)
(* the loads are measured, overloaded objects give interrupts up, the      *)
(* interrupts given up are placed again, and the new places are written to *)
(* /proc/irq/N/smp_affinity.                                               *)
(*                                                                         *)
(* The topology is a forest of NUMA nodes, packages, cache domains and     *)
(* CPUs, in the order of their master lists.  An interrupt is on the list  *)
(* of one object, or on rebalance_irq_list while it looks for one.         *)
(***************************************************************************)
EXTENDS Integers, FiniteSets, SequencesExt, GList

CONSTANTS
    NodeList, PackageList, CacheList, CpuList,  \* the objects, as sequences
    Unspecified,  \* the node numbered -1, the first of NodeList
    NoObj,        \* no object: assigned_obj = NULL, the parent of a node
    Parent,       \* of each object
    Mask,         \* the CPUs of each object
    NumaAvail,    \* numa_avail
    Banned,       \* banned_cpus
    CpuNumbers,   \* the numbers of the CPUs, banned ones included
    Irqs,         \* interrupts_db
    Rebalance,    \* rebalance_irq_list
    Level,        \* of an interrupt: 0 none, 1 package, 2 cache, 3 core
    Class, Address,  \* of an interrupt and of its irq_info: what sort_irqs reads
    Home,         \* numa_node of an interrupt, Unspecified for -1
    Policy, Hint, \* hint_policy and affinity_hint
    PowerThresh,  \* power_thresh
    PowersaveOff, \* power_thresh is ULONG_MAX
    WarmUp,       \* 5, the cycles before powersave mode may be used
    Ticks,        \* the loads a CPU may have had in a cycle
    Counts,       \* how often an interrupt may have fired in a cycle
    IoOutcomes    \* how an access to smp_affinity may end

Objs     == ToSet(NodeList) \cup ToSet(PackageList) \cup ToSet(CacheList) \cup ToSet(CpuList)
CpuObjs  == ToSet(CpuList)
Unbanned == CpuNumbers \ Banned
depth    == [o \in Objs |-> CASE o \in ToSet(NodeList) -> 0
                              [] o \in ToSet(PackageList) -> 1
                              [] o \in ToSet(CacheList) -> 2
                              [] OTHER -> 3]
\* Each object is appended to the children of its parent when it is made.
children == [o \in Objs |-> FoldLeft(LAMBDA s, c : IF Parent[c] = o THEN Append(s, c) ELSE s,
                                     <<>>, NodeList \o PackageList \o CacheList \o CpuList)]

ASSUME PlacementAssumption ==
    /\ Unspecified \in ToSet(NodeList)
    /\ NoObj \notin Objs \cup {Rebalance} /\ Rebalance \notin Objs
    /\ {NodeList, PackageList, CacheList, CpuList} \subseteq Seq(Objs)
    /\ IsInjective(NodeList \o PackageList \o CacheList \o CpuList)
    /\ \A o \in Objs : IF depth[o] = 0 THEN Parent[o] = NoObj
                                       ELSE Parent[o] \in Objs /\ depth[Parent[o]] = depth[o] - 1
    /\ \A o \in Objs : depth[o] \in 1..2 => children[o] # <<>>
    /\ \A o \in Objs : depth[o] > 0 => Mask[o] # {} /\ Mask[o] \subseteq Unbanned
    /\ IsFiniteSet(Irqs) /\ Ticks \cup Counts \subseteq Nat /\ WarmUp \in Nat
    /\ \A i \in Irqs : Level[i] \in 0..3 /\ Home[i] \in ToSet(NodeList)
    /\ \A i, j \in Irqs : i # j => Address[i] # Address[j]

VARIABLES
    interrupts,      \* the lists, of every object and Rebalance
    assigned_obj, moved, load,          \* of every interrupt
    objLoad, powersave_mode,            \* load of every object, mode of every CPU
    affinity,        \* smp_affinity of every interrupt, in the kernel
    cycle_count,     \* stops at WarmUp + 1, from where on it makes no difference
    pc               \* which call of main's loop comes next

irqVars == <<interrupts, assigned_obj, moved>>
vars    == <<irqVars, load, objLoad, powersave_mode, affinity, cycle_count, pc>>

TypeOK ==
    /\ interrupts \in [Objs \cup {Rebalance} -> SeqOf(Irqs, Cardinality(Irqs))]
    /\ assigned_obj \in [Irqs -> Objs \cup {NoObj}]
    /\ moved \in [Irqs -> BOOLEAN]
    /\ load \in [Irqs -> Nat] /\ objLoad \in [Objs -> Nat]
    /\ powersave_mode \in [CpuObjs -> BOOLEAN]
    /\ affinity \in [Irqs -> SUBSET CpuNumbers]
    /\ cycle_count \in 0..(WarmUp + 1)
    /\ pc \in {"measure", "migrate", "place", "activate"}

\* The state main's loop starts from (irqbalance.c:326, force_rebalance_irq
\* 190-201): every interrupt that wants balancing is on the rebalance list.
Init ==
    /\ interrupts = [l \in Objs \cup {Rebalance} |->
                        IF l = Rebalance THEN SetToSeq({i \in Irqs : Level[i] # 0}) ELSE <<>>]
    /\ assigned_obj = [i \in Irqs |-> NoObj]
    /\ moved = [i \in Irqs |-> FALSE]
    /\ load = [i \in Irqs |-> 0]
    /\ objLoad = [o \in Objs |-> 0]
    /\ powersave_mode = [c \in CpuObjs |-> FALSE]
    /\ affinity = [i \in Irqs |-> CpuNumbers]
    /\ cycle_count = 0
    /\ pc = "measure"

-----------------------------------------------------------------------------
(* Measuring: clear_work_stats, parse_proc_interrupts, parse_proc_stat.    *)

SumOver(list, f) == FoldLeft(LAMBDA sum, x : sum + f[x], 0, list)
On(o) == ToSet(interrupts[o])

\* clear_work_stats (cputree.c:318-335).  for_each_irq takes an empty list for
\* the whole database, so an object without interrupts clears them all.
Cleared ==
    [i \in Irqs |-> IF \E o \in Objs : i \in On(o) \/ interrupts[o] = <<>>
                    THEN 0 ELSE load[i]]

\* compute_irq_branch_load_share (243-260) on objects: a CPU's own load; above
\* it the sum of the children's divided by their number.  reset_load starts
\* from the cache domains, so a node without children keeps what it had.
ObjLoads(cpuLoad) ==
    LET l[o \in Objs] ==
            IF o \in CpuObjs THEN cpuLoad[o]
            ELSE IF children[o] = <<>> THEN objLoad[o]
            ELSE SumOver(children[o], l) \div Len(children[o])
    IN  l

\* get_parent_branch_irq_count_share (228-241): what fired on the object and
\* its share of what fired on the objects above it.
Share(fired) ==
    LET s[o \in Objs] ==
            (IF Parent[o] = NoObj THEN 0
             ELSE s[Parent[o]] \div Len(children[Parent[o]]))
            + SumOver(interrupts[o], fired)
    IN  s

\* mutant: the load per interrupt is rounded up
IrqLoadsRoundedUp(fired, loads) ==
    LET share    == Share(fired)
        slice(o) == IF share[o] = 0 THEN 1 ELSE loads[o] \div share[o] + 1
    IN  [i \in Irqs |->
            IF assigned_obj[i] = NoObj THEN Cleared[i] ELSE fired[i] * slice(assigned_obj[i])]

\* assign_load_slice (214-222): an interrupt's part of the load, never zero.
IrqLoads(fired, loads) ==
    LET share    == Share(fired)
        slice(o) == IF share[o] = 0 THEN 1 ELSE loads[o] \div share[o]
    IN  [i \in Irqs |->
            IF \E o \in Objs : i \in On(o)
            THEN LET o == CHOOSE x \in Objs : i \in On(x)
                     n == fired[i] * slice(o)
                 IN  IF n = 0 THEN 1 ELSE n
            ELSE Cleared[i]]

AfterMeasure == IF cycle_count = 0 THEN "place" ELSE "migrate"

\* Lines 342-344 of main and parse_proc_stat (271-359).  In the first cycle
\* the CPUs keep their loads, for there is nothing to subtract yet (327).
Measure ==
    \E ticks \in [CpuObjs -> Ticks], fired \in [Irqs -> Counts] :
        LET loads == ObjLoads(IF cycle_count = 0 THEN objLoad ELSE ticks) IN
        /\ pc = "measure" /\ pc' = AfterMeasure
        /\ objLoad' = loads
        /\ load' = IrqLoads(fired, loads)
        /\ UNCHANGED <<irqVars, powersave_mode, affinity, cycle_count>>

\* parse_proc_stat gives up (342-345) when CPUs are missing from the file, all
\* of them when it cannot be opened: the others have their new load, the
\* objects above keep their old one and no interrupt has any.
MeasureFails ==
    \E ticks \in [CpuObjs -> Ticks], missing \in (SUBSET CpuObjs) \ {{}} :
        /\ pc = "measure" /\ pc' = AfterMeasure
        /\ objLoad' = [o \in Objs |-> IF o \in CpuObjs \ missing /\ cycle_count # 0
                                      THEN ticks[o] ELSE objLoad[o]]
        /\ load' = Cleared
        /\ UNCHANGED <<irqVars, powersave_mode, affinity, cycle_count>>

-----------------------------------------------------------------------------
(* What the later calls do to the lists is computed on a record of them,   *)
(* w, one irq_info and one topo_obj at a time, in the order of the lists.  *)

World == [on |-> interrupts, at |-> assigned_obj, moved |-> moved, load |-> objLoad]

Becomes(w) ==
    /\ interrupts' = w.on /\ assigned_obj' = w.at /\ moved' = w.moved
    /\ objLoad' = w.load

\* mutant: the interrupt is not marked
MigrateIrqUnmarked(w, i, from, to) ==
    IF i \notin ToSet(w.on[from]) THEN w
    ELSE [w EXCEPT !.on = [w.on EXCEPT ![from] = Delete(@, i), ![to] = Append(@, i)]]

\* migrate_irq (classify.c:611-628): nothing when i is not on the list.
MigrateIrq(w, i, from, to) ==
    IF i \notin ToSet(w.on[from]) THEN w
    ELSE [w EXCEPT !.on = [w.on EXCEPT ![from] = Delete(@, i), ![to] = Append(@, i)],
                   !.moved[i] = TRUE]

\* mutant: assigned_obj is not reset
GiveUpKeepsObj(w, i) == MigrateIrq(w, i, w.at[i], Rebalance)

\* force_irq_migration (irqlist.c:124-128), and the end of move_candidate_irqs.
GiveUp(w, i) ==
    [MigrateIrq(w, i, w.at[i], Rebalance) EXCEPT !.at[i] = NoObj]

\* sort_irqs and sort_irq_list (classify.c:631-646).  One smaller field is
\* enough for a to go after b, so the order is not one when they disagree.
SortsAfter ==
    {p \in Irqs \X Irqs :
        \/ Class[p[1]] < Class[p[2]] \/ load[p[1]] < load[p[2]]
        \/ Address[p[1]] < Address[p[2]]}
SortIrqList(w, l) == [w EXCEPT !.on[l] = Sort(Irqs, SortsAfter, @)]

-----------------------------------------------------------------------------
(* update_migration_status (irqlist.c).                                    *)

\* gather_load_stats (28-36): a minimum of zero counts as no minimum yet.
MinLoad(objs) ==
    FoldLeft(LAMBDA m, o : IF m = 0 \/ objLoad[o] < m THEN objLoad[o] ELSE m, 0, objs)

\* compute_deviations and find_overloaded_objs (39-49, 141-151).  The standard
\* deviation is the root of Variance: it is only compared, as a square.
AvgLoad(objs) ==
    SumOver(objs, objLoad) \div (IF objs = <<>> THEN 1 ELSE Len(objs))
Variance(objs) ==
    LET d(o) == objLoad[o] - AvgLoad(objs) IN
    IF Len(objs) < 2 THEN 0
    ELSE SumOver(objs, [o \in ToSet(objs) |-> d(o) * d(o)]) \div (Len(objs) - 1)

\* More than one standard deviation off the average, or just that far (103, 108).
IsUnder(o, objs) ==
    LET d == AvgLoad(objs) - objLoad[o] IN d >= 0 /\ Variance(objs) <= d * d
IsOver(o, objs) ==
    LET d == objLoad[o] - AvgLoad(objs) IN
    ~IsUnder(o, objs) /\ d >= 0 /\ Variance(objs) <= d * d

\* The tests of move_candidate_irqs (52-90); g holds what it goes by.
IsCandidate(g, i) ==
    /\ ~(Policy[i] = "exact" /\ Hint[i] # {})
    /\ Level[i] # 0
    /\ Len(g.w.on[g.w.at[i]]) > 1
    /\ load[i] > 1
    /\ g.adjustment_load - load[i] > g.min_load + load[i]

\* mutant: the loads it goes by are not updated
MoveCandidateStale(g, i) == IF IsCandidate(g, i) THEN [g EXCEPT !.w = GiveUp(g.w, i)] ELSE g

MoveCandidate(g, i) ==
    IF ~IsCandidate(g, i) THEN g
    ELSE [w |-> GiveUp(g.w, i),
          adjustment_load |-> g.adjustment_load - load[i],
          min_load |-> g.min_load + load[i]]

\* migrate_overloaded_irqs (112-120).
MigrateOverloaded(g, o) ==
    IF objLoad[o] <= g.min_load \/ Len(g.w.on[o]) <= 1 THEN g
    ELSE LET w == SortIrqList(g.w, o)
         IN  FoldLeft(MoveCandidate,
                      [w |-> w, adjustment_load |-> objLoad[o], min_load |-> g.min_load], w.on[o])

\* find_overloaded_objs (137-154): the lists after it.
FindOverloaded(w, objs) ==
    FoldLeft(MigrateOverloaded,
             [w |-> w, adjustment_load |-> 0, min_load |-> MinLoad(objs)], objs).w

\* Lines 98-110 and 161-171.  The CPU to put to sleep is the first that is
\* under the average and awake.
Drowsy      == {n \in DOMAIN CpuList :
                   IsUnder(CpuList[n], CpuList) /\ ~powersave_mode[CpuList[n]]}
Sleeper     == CpuList[Min(Drowsy)]
NumUnder    == Cardinality({c \in CpuObjs : IsUnder(c, CpuList)})
NumOver     == Cardinality({c \in CpuObjs : IsOver(c, CpuList)})
PowerManaged == ~PowersaveOff /\ cycle_count > WarmUp
EntersPowersave == PowerManaged /\ NumOver = 0 /\ NumUnder >= PowerThresh /\ Drowsy # {}
LeavesPowersave == PowerManaged /\ NumOver # 0 /\ \E c \in CpuObjs : powersave_mode[c]

UpdatePowersave ==
    powersave_mode' =
        [c \in CpuObjs |->
            CASE EntersPowersave /\ c = Sleeper -> TRUE
              [] LeavesPowersave -> FALSE
              [] OTHER -> powersave_mode[c]]

EvictSleeper(w) ==
    IF EntersPowersave THEN FoldLeft(GiveUp, w, w.on[Sleeper]) ELSE w

\* update_migration_status (157-175).
UpdateMigrationStatus ==
    /\ pc = "migrate" /\ pc' = "place"
    /\ LET w1 == FindOverloaded(World, CpuList)
           w2 == FindOverloaded(EvictSleeper(w1), CacheList)
           w3 == FindOverloaded(w2, PackageList)
       IN  Becomes(FindOverloaded(w3, NodeList))
    /\ UpdatePowersave
    /\ UNCHANGED <<load, affinity, cycle_count>>

-----------------------------------------------------------------------------
(* calculate_placement (placement.c).                                      *)

\* mutant: CPUs in powersave mode are not skipped
EligibleAsleep(i, o) ==
    /\ ~(NumaAvail /\ o = Unspecified)
    /\ depth[o] = 0 => Mask[o] \cap Unbanned # {}
    /\ Policy[i] = "subset" /\ Hint[i] # {} => Hint[i] \cap Mask[o] # {}

\* The early returns of find_best_object (29-47).
Eligible(i, o) ==
    /\ ~(NumaAvail /\ o = Unspecified)
    /\ depth[o] = 0 => Mask[o] \cap Unbanned # {}
    /\ Policy[i] = "subset" /\ Hint[i] # {} => Hint[i] \cap Mask[o] # {}
    /\ ~(o \in CpuObjs /\ powersave_mode[o])

\* find_best_object (49-62): the first object of the least load, and the last
\* of that load whose list is shorter than that object's.
FindBestObject(w, i, best, o) ==
    IF ~Eligible(i, o) THEN best
    ELSE IF best.best = NoObj \/ w.load[o] < w.load[best.best]
         THEN [best |-> o, least_irqs |-> NoObj]
    ELSE IF w.load[o] = w.load[best.best] /\ Len(w.on[o]) < Len(w.on[best.best])
         THEN [best EXCEPT !.least_irqs = o]
         ELSE best

BestObject(w, i, objs) ==
    LET found == FoldLeft(LAMBDA best, o : FindBestObject(w, i, best, o),
                          [best |-> NoObj, least_irqs |-> NoObj], objs)
    IN  IF found.least_irqs # NoObj THEN found.least_irqs ELSE found.best

\* Lines 110-114, 139-141 and 156-160.
Assign(w, i, from, to, cost) ==
    IF to = NoObj THEN w
    ELSE [MigrateIrq(w, i, from, to) EXCEPT !.at[i] = to, !.load[to] = @ + cost]

\* place_irq_in_node (125-161): the node of the device if it has one that can
\* be used, or the best of all.
PlaceInNode(w, i) ==
    IF Level[i] = 0 /\ Banned = {} THEN w
    ELSE IF Home[i] # Unspecified /\ Mask[Home[i]] \cap Unbanned # {}
         THEN Assign(w, i, Rebalance, Home[i], load[i] + 1)
         ELSE Assign(w, i, Rebalance, BestObject(w, i, NodeList), load[i])

\* find_best_object_for_irq (66-115): an interrupt that has just been moved
\* goes one object down, unless its level is reached.
PlaceBelow(w, i, o) ==
    IF ~w.moved[i] \/ Level[i] = depth[o] THEN w
    ELSE Assign(w, i, o, BestObject(w, i, children[o]), load[i])

\* place_irq_in_object (118-122), for each object of a list.
PlaceInObject(w, o) == FoldLeft(LAMBDA v, i : PlaceBelow(v, i, o), w, w.on[o])
PlaceInObjects(w, objs) == FoldLeft(PlaceInObject, w, objs)

\* mutant: cache domains are left out
CalculatePlacementNoCaches ==
    /\ pc = "place" /\ pc' = "activate"
    /\ LET sorted == SortIrqList(World, Rebalance)
           inNode == FoldLeft(PlaceInNode, sorted, sorted.on[Rebalance])
       IN  Becomes(IF interrupts[Rebalance] = <<>> THEN World
                   ELSE PlaceInObjects(inNode, NodeList \o PackageList))
    /\ UNCHANGED <<load, powersave_mode, affinity, cycle_count>>

\* calculate_placement (187-198).
CalculatePlacement ==
    /\ pc = "place" /\ pc' = "activate"
    /\ LET sorted == SortIrqList(World, Rebalance)
           inNode == FoldLeft(PlaceInNode, sorted, sorted.on[Rebalance])
       IN  Becomes(IF interrupts[Rebalance] = <<>> THEN World
                   ELSE PlaceInObjects(inNode, NodeList \o PackageList \o CacheList))
    /\ UNCHANGED <<load, powersave_mode, affinity, cycle_count>>

-----------------------------------------------------------------------------
(* activate_mappings (activate.c).                                         *)

\* applied_mask and valid_mask (50-83).
IsExact(i) == Policy[i] = "exact" /\ Hint[i] # {}
Target(i) ==
    IF IsExact(i) THEN Hint[i]
    ELSE IF Policy[i] = "subset" /\ Hint[i] # {} THEN Mask[assigned_obj[i]] \cap Hint[i]
    ELSE Mask[assigned_obj[i]]
\* mutant: the conflict with the banned CPUs is only logged
HasTargetConflict(i) ==
    /\ assigned_obj[i] # NoObj
    /\ Policy[i] = "subset" /\ Hint[i] # {} => Target(i) \cap Unbanned # {}
HasTarget(i) ==
    /\ assigned_obj[i] # NoObj
    /\ IsExact(i) => Hint[i] \cap Banned = {}
    /\ Policy[i] = "subset" /\ Hint[i] # {} => Target(i) \cap Unbanned # {}

\* check_affinity (10-34) and the write (85-103).  An unreadable file passes
\* for one that needs no write; a rejected write is not noticed.
Writes(i, io)  == moved[i] /\ HasTarget(i) /\ io # "unreadable" /\ affinity[i] # Target(i)
Written(i, io) == Writes(i, io) /\ io # "unwritable"

\* activate_mappings (107-110) and the end of main's loop (374).
ActivateMappings ==
    \E io \in [Irqs -> IoOutcomes] :
        /\ pc = "activate" /\ pc' = "measure"
        /\ moved' = [i \in Irqs |-> moved[i] /\ ~Written(i, io[i])]
        /\ affinity' = [i \in Irqs |-> IF Written(i, io[i]) /\ io[i] # "rejected"
                                       THEN Target(i) ELSE affinity[i]]
        /\ cycle_count' = IF cycle_count > WarmUp THEN cycle_count ELSE cycle_count + 1
        /\ UNCHANGED <<interrupts, assigned_obj, load, objLoad, powersave_mode>>

Next == Measure \/ MeasureFails \/ UpdateMigrationStatus \/ CalculatePlacement \/ ActivateMappings

Spec == Init /\ [][Next]_vars

-----------------------------------------------------------------------------
(* Properties.                                                             *)

\* migrate_irq and assigned_obj are kept in step: an interrupt is on the list
\* of assigned_obj and no other, once; without one it is on the rebalance list
\* if it may be balanced, and one that may not be is on no list.  The callbacks
\* follow assigned_obj without a test (irqlist.c:68, 87, 126).
OneHome ==
    \A i \in Irqs, l \in Objs \cup {Rebalance} :
        Cardinality({n \in DOMAIN interrupts[l] : interrupts[l][n] = i}) =
            IF l = assigned_obj[i] \/ (l = Rebalance /\ assigned_obj[i] = NoObj /\ Level[i] # 0)
            THEN 1 ELSE 0

\* An interrupt is never put below its level (placement.c:75-95), and above it
\* only where no object one step down will have it.
ReachesLevel ==
    [][pc = "place" =>
        \A i \in Irqs :
            assigned_obj'[i] # assigned_obj[i] =>
                LET o == assigned_obj'[i] IN
                \/ depth[o] = Level[i]
                \/ /\ depth[o] < Level[i]
                   /\ \A c \in ToSet(children[o]) : ~Eligible(i, c)]_vars

\* The interrupts of an object that move_candidate_irqs may choose from do not
\* have more load than the object, so that the unsigned differences of line 78
\* of irqlist.c do not wrap.
LoadsFit ==
    pc = "migrate" =>
        \A o \in Objs :
            SumOver(interrupts[o], [i \in Irqs |-> IF load[i] > 1 THEN load[i] ELSE 0])
                <= objLoad[o]

\* An object that gives interrupts up keeps at least one (irqlist.c:68), and is
\* left above the least loaded object of its list even if that one gets all of
\* them (77-80), so balancing does not swap the two; only powersave mode empties
\* an object.
Peers(o)   == {p \in Objs : depth[p] = depth[o]}
GivenUp(o) == {i \in On(o) : assigned_obj'[i] = NoObj}
LoadGivenUp(o) ==
    SumOver(interrupts[o], [i \in Irqs |-> IF assigned_obj'[i] = NoObj THEN load[i] ELSE 0])
StaysAhead ==
    [][pc = "migrate" =>
        \A o \in Objs :
            LET out == LoadGivenUp(o) IN
            GivenUp(o) # {} /\ (EntersPowersave => o # Sleeper) =>
                /\ GivenUp(o) # On(o)
                /\ \E p \in Peers(o) : objLoad[o] - out > objLoad[p] + out]_vars

\* A CPU in powersave mode has no interrupts once they are placed: the others
\* leave it (irqlist.c:162-166) and none comes (placement.c:46).
SleepersEmpty ==
    pc = "activate" => \A c \in CpuObjs : powersave_mode[c] => interrupts[c] = <<>>

\* activate.c:102, after the write: the interrupts that moved have had their
\* mapping done.  One that is not marked as moved has the affinity of its place.
MappingDone ==
    \A i \in Irqs : ~moved[i] /\ HasTarget(i) => affinity[i] = Target(i)

\* irqbalance.1: with --hintpolicy=exact the hint is never violated, with subset
\* an interrupt gets only CPUs of its hint.
WithinHint(i, cpus) ==
    Hint[i] # {} =>
        /\ Policy[i] = "exact" => cpus = Hint[i]
        /\ Policy[i] = "subset" => cpus # {} /\ cpus \subseteq Hint[i]

\* The masks of nodes have banned CPUs in them (numa.c:55).  One is written only
\* for an interrupt that could not leave a node: what it may use of that node is
\* in none of its packages, as when a package spans two nodes and is a child of
\* one (numa.c:138).
LeftOnNode(i, cpus) ==
    \E n \in ToSet(NodeList) :
        /\ assigned_obj[i] = n
        /\ cpus \ Banned # {}
        /\ \A c \in ToSet(children[n]) : Mask[c] \cap cpus = {}
MasksAllowed ==
    [][\A i \in Irqs : affinity'[i] # affinity[i] =>
        /\ WithinHint(i, affinity'[i])
        /\ affinity'[i] \cap Banned # {} => LeftOnNode(i, affinity'[i])]_vars

\* The cpumap of a node and an affinity_hint may name a CPU that does not exist.
MasksNameCpus ==
    /\ \A o \in Objs : Mask[o] \subseteq CpuNumbers
    /\ \A i \in Irqs : Hint[i] \subseteq CpuNumbers

-----------------------------------------------------------------------------
(* Statements of the manual page and of comments that the code does not    *)
(* keep.                                                                   *)

\* irqbalance.1, IRQBALANCE_BANNED_CPUS: CPUs irqbalance should never assign
\* interrupts to.
BanKept ==
    [][\A i \in Irqs : affinity'[i] # affinity[i] => affinity'[i] \cap Banned = {}]_vars

\* irqbalance.1, --hintpolicy=subset: the interrupt is balanced, within its hint.
SubsetBalanced ==
    pc = "activate" =>
        \A i \in Irqs :
            Policy[i] = "subset" /\ Hint[i] \cap Unbanned # {} /\ Level[i] # 0 => HasTarget(i)

\* irqbalance.1, --powerthresh: in powersave mode, a CPU will not have any IRQs
\* balanced to it.  No interrupt is given only CPUs in that mode.
Sleeping == UNION {Mask[c] : c \in {c \in CpuObjs : powersave_mode[c]}}
SleepersSpared ==
    [][\A i \in Irqs : affinity'[i] # affinity[i] => ~(affinity'[i] \subseteq Sleeping)]_vars

\* irqbalance.1, --powerthresh: a CPU is put in powersave mode if more than
\* <threshold> CPUs are more than one standard deviation below the average.
FarBelow == {c \in CpuObjs : LET d == AvgLoad(CpuList) - objLoad[c] IN
                             d > 0 /\ Variance(CpuList) < d * d}
PowersaveEarned ==
    [][(\E c \in CpuObjs : ~powersave_mode[c] /\ powersave_mode'[c]) =>
        Cardinality(FarBelow) > PowerThresh]_vars

\* irqlist.c:16, min_load: the smallest interrupt load in the system.
MinIsLeast ==
    pc = "migrate" => \A c \in CpuObjs : MinLoad(CpuList) <= objLoad[c]

\* irqbalance.c:167: the load of a domain is the sum of its children's loads.
LoadIsSum ==
    pc = "migrate" =>
        \A o \in Objs : children[o] # <<>> =>
            objLoad[o] = SumOver(children[o], objLoad)

\* irqlist.c:114: the list of the object is sorted by load, smallest first.
SortsBySmallest ==
    pc = "migrate" =>
        \A o \in Objs :
            LET s == Sort(Irqs, SortsAfter, interrupts[o]) IN
            \A m, n \in DOMAIN s : m < n => load[s[m]] <= load[s[n]]
=============================================================================
