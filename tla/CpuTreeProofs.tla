---------------------------- MODULE CpuTreeProofs ----------------------------
(***************************************************************************)
(* CpuTree: that the tree hangs together at every moment, whatever the     *)
(* kernel does meanwhile, and that it is the machine's when nothing        *)
(* changed, for any CPUs, caches, packages and nodes.                      *)
(***************************************************************************)
EXTENDS CpuTree, FiniteSetTheorems, TLAPS

-----------------------------------------------------------------------------
(* The lists                                                               *)

Objects     == [mask : Masks, children : Seq(Nat), parent : Nat]
NodeObjects == [number : Nodes \cup {Unspecified}, mask : SUBSET Cpus, children : Seq(Nat)]
CpuObjects  == [number : Unbanned, parent : Nat]

In(x, s)    == \E a \in DOMAIN s : s[a] = x
NoRepeat(s) == \A a, b \in DOMAIN s : s[a] = s[b] => a = b

(* One more at the end of a list (g_list_append).                          *)
LEMMA AppendOne ==
    ASSUME NEW T, NEW s \in Seq(T), NEW e \in T
    PROVE  /\ Append(s, e) \in Seq(T)
           /\ DOMAIN Append(s, e) = (DOMAIN s) \cup {Len(s) + 1}
           /\ Len(s) + 1 \notin DOMAIN s /\ Append(s, e)[Len(s) + 1] = e
           /\ \A a \in DOMAIN s : Append(s, e)[a] = s[a]
           /\ DOMAIN s = 1..Len(s) /\ Len(s) \in Nat
<1>1. DOMAIN s = 1..Len(s) /\ Len(s) \in Nat
  OBVIOUS
<1>2. /\ Append(s, e) \in Seq(T) /\ Len(Append(s, e)) = Len(s) + 1
      /\ Append(s, e)[Len(s) + 1] = e /\ \A a \in 1..Len(s) : Append(s, e)[a] = s[a]
  OBVIOUS
<1>3. DOMAIN Append(s, e) = 1..(Len(s) + 1)
  BY <1>2
<1> QED
  BY <1>1, <1>2, <1>3

(* A child that was not there is there once.                               *)
LEMMA AppendChild ==
    ASSUME NEW s \in Seq(Nat), NEW x \in Nat
    PROVE  /\ Append(s, x) \in Seq(Nat)
           /\ \A y : In(y, Append(s, x)) <=> (In(y, s) \/ y = x)
           /\ NoRepeat(s) /\ ~In(x, s) => NoRepeat(Append(s, x))
<1>. DEFINE t == Append(s, x)
            l == Len(s) + 1
<1>1. /\ t \in Seq(Nat) /\ DOMAIN t = (DOMAIN s) \cup {l} /\ l \notin DOMAIN s
      /\ t[l] = x /\ \A a \in DOMAIN s : t[a] = s[a]
  BY AppendOne
<1>. HIDE DEF t, l
<1>2. \A y : In(y, t) <=> (In(y, s) \/ y = x)
  BY <1>1 DEF In
<1>3. ASSUME NoRepeat(s), ~In(x, s) PROVE NoRepeat(t)
  BY <1>1, <1>3 DEF NoRepeat, In
<1> QED
  BY <1>1, <1>2, <1>3 DEF t

(* How often something is in a list without repetitions.                   *)
LEMMA OccursOnce ==
    ASSUME NEW s, NEW x, NoRepeat(s)
    PROVE  Occurs(x, s) = IF In(x, s) THEN 1 ELSE 0
<1>. DEFINE at == {a \in DOMAIN s : s[a] = x}
<1>1. CASE In(x, s)
  <2>1. PICK a \in DOMAIN s : s[a] = x
    BY <1>1 DEF In
  <2>2. at = {a}
    BY <2>1 DEF NoRepeat
  <2> QED
    BY <1>1, <2>2, FS_Singleton DEF Occurs
<1>2. CASE ~In(x, s)
  <2>1. at = {}
    BY <1>2 DEF In
  <2> QED
    BY <1>2, <2>1, FS_EmptySet DEF Occurs
<1> QED
  BY <1>1, <1>2

(* A mask is found, or added at the end with an object of its own (lines   *)
(* 53-67 and 101-115).                                                     *)
LEMMA PlaceFound ==
    ASSUME NEW list \in Seq(Objects), NEW mask \in Masks
    PROVE  /\ WithObject(list, mask) \in Seq(Objects)
           /\ DOMAIN WithObject(list, mask) = (DOMAIN list) \cup {Place(list, mask)}
           /\ WithObject(list, mask)[Place(list, mask)].mask = mask
           /\ \A i \in DOMAIN list : WithObject(list, mask)[i] = list[i]
           /\ \A i \in DOMAIN list : list[i].mask = mask => Place(list, mask) \in DOMAIN list
           /\ Place(list, mask) \notin DOMAIN list =>
                  WithObject(list, mask)[Place(list, mask)]
                      = [mask |-> mask, children |-> <<>>, parent |-> 0]
           /\ Place(list, mask) \in Nat \ {0}
<1>1. DOMAIN list = 1..Len(list) /\ Len(list) \in Nat
  OBVIOUS
<1>2. CASE \E i \in DOMAIN list : list[i].mask = mask
  <2>1. Place(list, mask) \in DOMAIN list /\ list[Place(list, mask)].mask = mask
    BY <1>2 DEF Place
  <2>2. WithObject(list, mask) = list
    BY <1>1, <2>1 DEF WithObject
  <2> QED
    BY <1>1, <2>1, <2>2
<1>3. CASE ~\E i \in DOMAIN list : list[i].mask = mask
  <2>. DEFINE e == [mask |-> mask, children |-> <<>>, parent |-> 0]
  <2>1. e \in Objects
    BY DEF Objects
  <2>2. Place(list, mask) = Len(list) + 1 /\ Place(list, mask) \notin DOMAIN list
    BY <1>1, <1>3 DEF Place
  <2>3. WithObject(list, mask) = Append(list, e)
    BY <1>1, <2>2 DEF WithObject
  <2>4. e.mask = mask
    OBVIOUS
  <2>. HIDE DEF e
  <2>5. /\ Append(list, e) \in Seq(Objects)
        /\ DOMAIN Append(list, e) = (DOMAIN list) \cup {Len(list) + 1}
        /\ Append(list, e)[Len(list) + 1] = e
        /\ \A a \in DOMAIN list : Append(list, e)[a] = list[a]
    BY <2>1, AppendOne
  <2> QED
    BY <1>1, <1>3, <2>2, <2>3, <2>4, <2>5 DEF e
<1> QED
  BY <1>2, <1>3

(* The same in the words that the proof of an insertion uses.              *)
FoundOrAdded(list, mask, with, place) ==
    /\ with \in Seq(Objects) /\ DOMAIN with = (DOMAIN list) \cup {place}
    /\ with[place].mask = mask /\ place \in Nat \ {0}
    /\ \A i \in DOMAIN list : with[i] = list[i]
    /\ \A i \in DOMAIN list : list[i].mask = mask => place \in DOMAIN list
    /\ place \notin DOMAIN list => with[place] = [mask |-> mask, children |-> <<>>, parent |-> 0]

LEMMA PlaceOf ==
    ASSUME NEW list \in Seq(Objects), NEW mask \in Masks
    PROVE  FoundOrAdded(list, mask, WithObject(list, mask), Place(list, mask))
  BY PlaceFound, ZenonT(30) DEF FoundOrAdded

(* The parent's list after a child was added to it.                        *)
ChildAdded(list, i, child, a) ==
    /\ a \in Seq(Objects) /\ DOMAIN a = DOMAIN list
    /\ \A m \in DOMAIN list : m # i => a[m] = list[m]
    /\ a[i].mask = list[i].mask /\ a[i].parent = list[i].parent
    /\ a[i].children = IF In(child, list[i].children) THEN list[i].children
                       ELSE Append(list[i].children, child)

LEMMA AboveAfter ==
    ASSUME NEW list \in Seq(Objects), NEW i \in DOMAIN list, NEW kids, NEW child \in Nat
    PROVE  ChildAdded(list, i, child, AddChild(list, i, kids, child).above)
<1>1. list[i] \in Objects /\ list[i].children \in Seq(Nat) /\ DOMAIN list = 1..Len(list)
  <2>1. list[i] \in Objects /\ DOMAIN list = 1..Len(list)
    OBVIOUS
  <2> QED
    BY <2>1 DEF Objects
<1>2. In(child, list[i].children) <=> child \in ToSet(list[i].children)
  BY DEF In, ToSet
<1>3. CASE In(child, list[i].children)
  <2>1. AddChild(list, i, kids, child).above = list
    BY <1>2, <1>3 DEF AddChild
  <2> QED
    BY <1>3, <2>1 DEF ChildAdded
<1>4. CASE ~In(child, list[i].children)
  <2>. DEFINE e == [list[i] EXCEPT !.children = Append(@, child)]
              a == [list EXCEPT ![i] = e]
  <2>1. AddChild(list, i, kids, child).above = a
    BY <1>2, <1>4 DEF AddChild
  <2>2. /\ e \in Objects /\ e.mask = list[i].mask /\ e.parent = list[i].parent
        /\ e.children = Append(list[i].children, child)
    BY <1>1, AppendChild DEF Objects
  <2>. HIDE DEF e
  <2>3. a \in Seq(Objects) /\ DOMAIN a = DOMAIN list /\ a[i] = e
        /\ \A m \in DOMAIN list : m # i => a[m] = list[m]
    BY <1>1, <2>2
  <2> QED
    BY <1>4, <2>1, <2>2, <2>3 DEF ChildAdded
<1> QED
  BY <1>3, <1>4

(* The child, if it was not in the list.                                   *)
LEMMA BelowAfter ==
    ASSUME NEW list, NEW i \in Nat, NEW T, NEW kids \in Seq(T), NEW child \in DOMAIN kids,
           [kids[child] EXCEPT !.parent = i] \in T
    PROVE  LET b == AddChild(list, i, kids, child).below
           IN  /\ b \in Seq(T) /\ DOMAIN b = DOMAIN kids
               /\ \A m \in DOMAIN kids : m # child => b[m] = kids[m]
               /\ b[child] = IF In(child, list[i].children) THEN kids[child]
                             ELSE [kids[child] EXCEPT !.parent = i]
<1>1. In(child, list[i].children) <=> child \in ToSet(list[i].children)
  BY DEF In, ToSet
<1>2. CASE In(child, list[i].children)
  BY <1>1, <1>2 DEF AddChild
<1>3. CASE ~In(child, list[i].children)
  <2>. DEFINE e == [kids[child] EXCEPT !.parent = i]
              b == [kids EXCEPT ![child] = e]
  <2>1. AddChild(list, i, kids, child).below = b
    BY <1>1, <1>3 DEF AddChild
  <2>. HIDE DEF e
  <2>2. b \in Seq(T) /\ DOMAIN b = DOMAIN kids /\ b[child] = e
        /\ \A m \in DOMAIN kids : m # child => b[m] = kids[m]
    BY DEF e
  <2> QED
    BY <1>3, <2>1, <2>2 DEF e
<1> QED
  BY <1>2, <1>3

-----------------------------------------------------------------------------
(* What a step relies on                                                   *)

InHand == pc \in {"siblings", "cache", "node"}
InTree == InHand \/ pc \in {"cpus", "done"}

Typed ==
    /\ numa_nodes \in Seq(NodeObjects) /\ packages \in Seq(Objects)
    /\ cache_domains \in Seq(Objects) /\ cpus \in Seq(CpuObjects)
    /\ online \subseteq Cpus /\ BootCpu \in online /\ changes \in 0..MaxChanges /\ calm \in BOOLEAN
    /\ pc \in {"build", "nodes", "cpus", "siblings", "cache", "node", "done"}
    /\ cpu \in Cpus /\ package_mask \subseteq Cpus /\ cache_mask \subseteq Cpus

(* The files are read one after the other, the nodes before the CPUs, and  *)
(* the CPU in hand is in the masks that were read for it.                  *)
Reading ==
    /\ InHand => cpu \in Unbanned /\ cpu \notin unread
    /\ pc \in {"cache", "node"} => cpu \in package_mask
    /\ pc = "node" => cpu \in cache_mask
    /\ ~InTree => packages = <<>> /\ cache_domains = <<>> /\ cpus = <<>> /\ core_count = 0
    /\ pc # "build" => 1 \in DOMAIN numa_nodes
    /\ pc = "build" \/ pc = "done" => unread = {}
    /\ pc = "nodes" => unread \subseteq Nodes
    /\ InTree => unread \subseteq Cpus
    /\ pc = "nodes" /\ ~NumaAvail => unread = {}
    /\ NumaAvail /\ pc # "build" =>
           \A n \in Nodes : InTree \/ n \notin unread =>
               \E i \in DOMAIN numa_nodes : numa_nodes[i].number = n

(* Every CPU is counted once (lines 147-183 and 266).                      *)
CountedOnce ==
    /\ core_count \in Nat
    /\ InTree => core_count + Cardinality(unread) + (IF InHand THEN 1 ELSE 0)
                     <= Cardinality(Cpus)

-----------------------------------------------------------------------------
(* What Insert does                                                        *)

(* The list of an object that may be new has nothing in it before.         *)
Kids(list, i)  == IF i \in DOMAIN list THEN list[i].children ELSE <<>>
Above(list, i) == IF i \in DOMAIN list THEN list[i].parent ELSE 0

(* The CPU is x, its cache domain k, its package j, and n the node for a   *)
(* package that has none.                                                  *)
Inserted(x, k, j, n) ==
    /\ x = Len(cpus) + 1 /\ x \notin DOMAIN cpus /\ DOMAIN cpus' = (DOMAIN cpus) \cup {x}
    /\ cpus' \in Seq(CpuObjects)
    /\ \A y \in DOMAIN cpus : cpus'[y] = cpus[y]
    /\ cpus'[x].number = cpu /\ cpus'[x].parent = k
    /\ DOMAIN cache_domains' = (DOMAIN cache_domains) \cup {k}
    /\ cache_domains' \in Seq(Objects)
    /\ \A i \in DOMAIN cache_domains : /\ cache_domains'[i].mask = cache_domains[i].mask
                                       /\ i # k => cache_domains'[i] = cache_domains[i]
    /\ cache_domains'[k].mask = Allowed(cache_mask)
    /\ \A i \in DOMAIN cache_domains :
           cache_domains[i].mask = Allowed(cache_mask) => k \in DOMAIN cache_domains
    /\ cache_domains'[k].children = Append(Kids(cache_domains, k), x)
    /\ cache_domains'[k].parent = IF In(k, Kids(packages, j)) THEN Above(cache_domains, k) ELSE j
    /\ DOMAIN packages' = (DOMAIN packages) \cup {j}
    /\ packages' \in Seq(Objects)
    /\ \A i \in DOMAIN packages : /\ packages'[i].mask = packages[i].mask
                                  /\ i # j => packages'[i] = packages[i]
    /\ packages'[j].mask = Allowed(package_mask)
    /\ \A i \in DOMAIN packages :
           packages[i].mask = Allowed(package_mask) => j \in DOMAIN packages
    /\ packages'[j].children = IF In(k, Kids(packages, j)) THEN Kids(packages, j)
                               ELSE Append(Kids(packages, j), k)
    /\ packages'[j].parent = IF Above(packages, j) = 0 THEN n ELSE Above(packages, j)
    /\ DOMAIN numa_nodes' = DOMAIN numa_nodes
    /\ numa_nodes' \in Seq(NodeObjects)
    /\ \A i \in DOMAIN numa_nodes : /\ numa_nodes'[i].number = numa_nodes[i].number
                                    /\ numa_nodes'[i].mask = numa_nodes[i].mask
                                    /\ i # n => numa_nodes'[i] = numa_nodes[i]
    /\ numa_nodes'[n].children = IF Above(packages, j) = 0 THEN Append(numa_nodes[n].children, j)
                                 ELSE numa_nodes[n].children

(* The node of a CPU is in the list, or the CPU gets the first one.        *)
LEMMA NodeFound ==
    ASSUME Typed, Reading, InTree, NEW id \in Nodes \cup {Unspecified},
           ~NumaAvail => id = Unspecified
    PROVE  /\ NodePlace(id) \in DOMAIN numa_nodes /\ NodePlace(id) \in Nat \ {0}
           /\ id # Unspecified => numa_nodes[NodePlace(id)].number = id
           /\ id = Unspecified => NodePlace(id) = 1
<1>1. 1 \in DOMAIN numa_nodes /\ DOMAIN numa_nodes = 1..Len(numa_nodes) /\ Len(numa_nodes) \in Nat
  BY DEF Typed, Reading, InTree, InHand
<1>2. CASE id = Unspecified
  BY <1>1, <1>2 DEF NodePlace
<1>3. CASE id # Unspecified
  <2>1. \E i \in DOMAIN numa_nodes : numa_nodes[i].number = id
    BY <1>3 DEF Reading, InTree, InHand
  <2>2. NodePlace(id) = CHOOSE i \in DOMAIN numa_nodes : numa_nodes[i].number = id
    BY <1>3, <2>1 DEF NodePlace
  <2>3. NodePlace(id) \in DOMAIN numa_nodes /\ numa_nodes[NodePlace(id)].number = id
    BY <2>1, <2>2
  <2> QED
    BY <1>1, <1>3, <2>3
<1> QED
  BY <1>2, <1>3

(* The package is put below the node if it has none (numa.c:127-142).      *)
LEMMA NodeAfter ==
    ASSUME numa_nodes \in Seq(NodeObjects), NEW list \in Seq(Objects), NEW j \in DOMAIN list,
           NEW n \in DOMAIN numa_nodes, j \in Nat, n \in Nat \ {0}
    PROVE  LET r == AddPackageToNode(list, j, n)
           IN  /\ r.below \in Seq(Objects) /\ DOMAIN r.below = DOMAIN list
               /\ \A i \in DOMAIN list : i # j => r.below[i] = list[i]
               /\ r.below[j].mask = list[j].mask /\ r.below[j].children = list[j].children
               /\ r.below[j].parent = IF list[j].parent = 0 THEN n ELSE list[j].parent
               /\ r.above \in Seq(NodeObjects) /\ DOMAIN r.above = DOMAIN numa_nodes
               /\ \A i \in DOMAIN numa_nodes :
                      /\ r.above[i].number = numa_nodes[i].number
                      /\ r.above[i].mask = numa_nodes[i].mask
                      /\ i # n => r.above[i] = numa_nodes[i]
               /\ r.above[n].children = IF list[j].parent = 0 THEN Append(numa_nodes[n].children, j)
                                        ELSE numa_nodes[n].children
<1>1. CASE list[j].parent # 0
  BY <1>1 DEF AddPackageToNode
<1>2. CASE list[j].parent = 0
  <2>. DEFINE a == [numa_nodes[n] EXCEPT !.children = Append(@, j)]
              b == [list[j] EXCEPT !.parent = n]
              above == [numa_nodes EXCEPT ![n] = a]
              below == [list EXCEPT ![j] = b]
  <2>1. AddPackageToNode(list, j, n) = [above |-> above, below |-> below]
    BY <1>2 DEF AddPackageToNode
  <2>2. list[j] \in Objects /\ numa_nodes[n] \in NodeObjects
    OBVIOUS
  <2>3. /\ b \in Objects /\ b.mask = list[j].mask /\ b.children = list[j].children
        /\ b.parent = n
    BY <2>2 DEF Objects
  <2>4. numa_nodes[n].children \in Seq(Nat)
    BY <2>2 DEF NodeObjects
  <2>5. /\ a \in NodeObjects /\ a.number = numa_nodes[n].number /\ a.mask = numa_nodes[n].mask
        /\ a.children = Append(numa_nodes[n].children, j)
    BY <2>2, <2>4, AppendChild DEF NodeObjects
  <2>. HIDE DEF a, b
  <2>6. /\ below \in Seq(Objects) /\ DOMAIN below = DOMAIN list /\ below[j] = b
        /\ \A i \in DOMAIN list : i # j => below[i] = list[i]
    BY <2>3
  <2>7. /\ above \in Seq(NodeObjects) /\ DOMAIN above = DOMAIN numa_nodes /\ above[n] = a
        /\ \A i \in DOMAIN numa_nodes : i # n => above[i] = numa_nodes[i]
    BY <2>5
  <2>. HIDE DEF above, below
  <2> QED
    BY <1>2, <2>1, <2>3, <2>5, <2>6, <2>7
<1> QED
  BY <1>1, <1>2

(* Where the CPU in hand belongs.                                          *)
NodeId == IF NumaAvail /\ cpu \in online THEN NodeOf[cpu] ELSE Unspecified

ChildrenAreCpus ==
    \A i \in DOMAIN cache_domains : \A y : In(y, cache_domains[i].children) => y \in DOMAIN cpus

(* add_cpu_to_cache_domain, add_cache_domain_to_package and                *)
(* add_package_to_node (numa.c and cputree.c, lines 44-131) put the CPU in *)
(* hand into one cache domain, one package and one node, each the one with *)
(* its mask or number, found or new.                                       *)
LEMMA InsertIs ==
    ASSUME Typed, Reading, ChildrenAreCpus, Insert
    PROVE  \E x, k, j, n \in Nat \ {0} :
               /\ Inserted(x, k, j, n) /\ n = NodePlace(NodeId) /\ n \in DOMAIN numa_nodes
               /\ NodeId # Unspecified => numa_nodes[n].number = NodeId
               /\ NodeId = Unspecified => n = 1
<1>. DEFINE cm   == Allowed(cache_mask)
            pm   == Allowed(package_mask)
            new  == [number |-> cpu, parent |-> 0]
            all  == Append(cpus, new)
            x    == Len(all)
            k    == Place(cache_domains, cm)
            j    == Place(packages, pm)
            W    == WithObject(cache_domains, cm)
            V    == WithObject(packages, pm)
            in1  == AddChild(W, k, all, x)
            in2  == AddChild(V, j, in1.above, k)
            n    == NodePlace(NodeId)
            in3  == AddPackageToNode(in2.above, j, n)
<1>1. /\ cpus' = in1.below /\ cache_domains' = in2.below
      /\ packages' = in3.below /\ numa_nodes' = in3.above
      /\ pc = "node"
  BY DEF Insert, NodeId
<1>2. cm \in Masks /\ pm \in Masks /\ cpu \in Unbanned
  BY <1>1 DEF Reading, InHand, Allowed, Masks
<1>3. /\ all \in Seq(CpuObjects) /\ DOMAIN all = (DOMAIN cpus) \cup {x}
      /\ x \notin DOMAIN cpus /\ all[x] = new /\ x = Len(cpus) + 1 /\ x \in Nat \ {0}
      /\ \A y \in DOMAIN cpus : all[y] = cpus[y]
  <2>1. new \in CpuObjects
    BY <1>2 DEF CpuObjects
  <2>. HIDE DEF new
  <2>2. /\ Append(cpus, new) \in Seq(CpuObjects)
        /\ DOMAIN Append(cpus, new) = (DOMAIN cpus) \cup {Len(cpus) + 1}
        /\ Len(cpus) + 1 \notin DOMAIN cpus /\ Append(cpus, new)[Len(cpus) + 1] = new
        /\ \A a \in DOMAIN cpus : Append(cpus, new)[a] = cpus[a]
        /\ DOMAIN cpus = 1..Len(cpus) /\ Len(cpus) \in Nat
    BY <2>1, AppendOne DEF Typed
  <2>3. Len(Append(cpus, new)) = Len(cpus) + 1
    BY <2>1 DEF Typed
  <2> QED
    BY <2>2, <2>3
<1>4. /\ new.number = cpu /\ [new EXCEPT !.parent = k].number = cpu
      /\ [new EXCEPT !.parent = k].parent = k
  OBVIOUS
<1>5. /\ W \in Seq(Objects) /\ DOMAIN W = (DOMAIN cache_domains) \cup {k}
      /\ W[k].mask = cm /\ k \in Nat \ {0}
      /\ \A i \in DOMAIN cache_domains : W[i] = cache_domains[i]
      /\ \A i \in DOMAIN cache_domains :
             cache_domains[i].mask = cm => k \in DOMAIN cache_domains
      /\ W[k].children = Kids(cache_domains, k) /\ W[k].parent = Above(cache_domains, k)
  <2>1. cache_domains \in Seq(Objects) /\ cm \in Masks
    BY <1>2 DEF Typed
  <2>2. FoundOrAdded(cache_domains, cm, W, k)
    BY <2>1, PlaceOf
  <2>. HIDE DEF W, k, cm
  <2> QED
    BY <2>2 DEF FoundOrAdded, Kids, Above
<1>6. /\ V \in Seq(Objects) /\ DOMAIN V = (DOMAIN packages) \cup {j}
      /\ V[j].mask = pm /\ j \in Nat \ {0}
      /\ \A i \in DOMAIN packages : V[i] = packages[i]
      /\ \A i \in DOMAIN packages : packages[i].mask = pm => j \in DOMAIN packages
      /\ V[j].children = Kids(packages, j) /\ V[j].parent = Above(packages, j)
  <2>1. packages \in Seq(Objects) /\ pm \in Masks
    BY <1>2 DEF Typed
  <2>2. FoundOrAdded(packages, pm, V, j)
    BY <2>1, PlaceOf
  <2>. HIDE DEF V, j, pm
  <2> QED
    BY <2>2 DEF FoundOrAdded, Kids, Above
<1>. HIDE DEF new, all, x, k, j, W, V, cm, pm
<1>7. ~In(x, Kids(cache_domains, k))
  <2>1. CASE k \in DOMAIN cache_domains
    BY <1>3, <2>1 DEF ChildrenAreCpus, Kids
  <2>2. CASE k \notin DOMAIN cache_domains
    BY <2>2 DEF Kids, In
  <2> QED
    BY <2>1, <2>2
<1>8. [all[x] EXCEPT !.parent = k] \in CpuObjects
  <2>1. all[x] \in CpuObjects
    BY <1>3
  <2> QED
    BY <2>1, <1>5 DEF CpuObjects
<1>9. /\ in1.above \in Seq(Objects) /\ DOMAIN in1.above = DOMAIN W
      /\ \A i \in DOMAIN W : i # k => in1.above[i] = W[i]
      /\ in1.above[k].mask = cm /\ in1.above[k].parent = Above(cache_domains, k)
      /\ in1.above[k].children = Append(Kids(cache_domains, k), x)
  <2>1. W \in Seq(Objects) /\ k \in DOMAIN W /\ x \in Nat /\ ~In(x, W[k].children)
    BY <1>3, <1>5, <1>7
  <2>2. ChildAdded(W, k, x, in1.above)
    BY <2>1, AboveAfter
  <2>. HIDE DEF in1
  <2> QED
    BY <1>5, <2>1, <2>2 DEF ChildAdded
<1>10. /\ in1.below \in Seq(CpuObjects) /\ DOMAIN in1.below = DOMAIN all
       /\ \A y \in DOMAIN all : y # x => in1.below[y] = all[y]
       /\ in1.below[x] = [all[x] EXCEPT !.parent = k]
  <2>1. k \in Nat /\ x \in DOMAIN all /\ ~In(x, W[k].children)
    BY <1>3, <1>5, <1>7
  <2> QED
    BY <1>3, <1>8, <2>1, BelowAfter
<1>. HIDE DEF in1
<1>11. in1.above[k] \in Objects
  BY <1>5, <1>9
<1>12. [in1.above[k] EXCEPT !.parent = j] \in Objects
  BY <1>6, <1>11 DEF Objects
<1>13. /\ in2.above \in Seq(Objects) /\ DOMAIN in2.above = DOMAIN V
       /\ \A i \in DOMAIN V : i # j => in2.above[i] = V[i]
       /\ in2.above[j].mask = pm /\ in2.above[j].parent = Above(packages, j)
       /\ in2.above[j].children = IF In(k, Kids(packages, j)) THEN Kids(packages, j)
                                  ELSE Append(Kids(packages, j), k)
  <2>1. V \in Seq(Objects) /\ j \in DOMAIN V /\ k \in Nat
    BY <1>5, <1>6
  <2>2. ChildAdded(V, j, k, in2.above)
    BY <2>1, AboveAfter
  <2>. HIDE DEF in2
  <2> QED
    BY <1>6, <2>2 DEF ChildAdded
<1>14. /\ in2.below \in Seq(Objects) /\ DOMAIN in2.below = DOMAIN W
       /\ \A i \in DOMAIN W : i # k => in2.below[i] = in1.above[i]
       /\ in2.below[k] = IF In(k, Kids(packages, j)) THEN in1.above[k]
                         ELSE [in1.above[k] EXCEPT !.parent = j]
  <2>1. j \in Nat /\ k \in DOMAIN in1.above
    BY <1>5, <1>6, <1>9
  <2> QED
    BY <1>6, <1>9, <1>12, <2>1, BelowAfter
<1>. HIDE DEF in2
<1>15. [in1.above[k] EXCEPT !.parent = j].mask = in1.above[k].mask
       /\ [in1.above[k] EXCEPT !.parent = j].children = in1.above[k].children
       /\ [in1.above[k] EXCEPT !.parent = j].parent = j
  BY <1>11 DEF Objects
<1>16. NodeId \in Nodes \cup {Unspecified} /\ (~NumaAvail => NodeId = Unspecified)
  BY TreeAssumption DEF NodeId, Typed
<1>17. /\ n \in DOMAIN numa_nodes /\ n \in Nat \ {0}
       /\ NodeId # Unspecified => numa_nodes[n].number = NodeId
       /\ NodeId = Unspecified => n = 1
  BY <1>1, <1>16, NodeFound DEF InTree, InHand
<1>. HIDE DEF n
<1>18. /\ in3.below \in Seq(Objects) /\ DOMAIN in3.below = DOMAIN V
       /\ \A i \in DOMAIN V : i # j => in3.below[i] = in2.above[i]
       /\ in3.below[j].mask = pm /\ in3.below[j].children = in2.above[j].children
       /\ in3.below[j].parent = IF Above(packages, j) = 0 THEN n ELSE Above(packages, j)
       /\ in3.above \in Seq(NodeObjects) /\ DOMAIN in3.above = DOMAIN numa_nodes
       /\ \A i \in DOMAIN numa_nodes : /\ in3.above[i].number = numa_nodes[i].number
                                       /\ in3.above[i].mask = numa_nodes[i].mask
                                       /\ i # n => in3.above[i] = numa_nodes[i]
       /\ in3.above[n].children = IF Above(packages, j) = 0 THEN Append(numa_nodes[n].children, j)
                                  ELSE numa_nodes[n].children
  <2>1. numa_nodes \in Seq(NodeObjects) /\ j \in DOMAIN in2.above /\ j \in Nat
    BY <1>6, <1>13 DEF Typed
  <2> QED
    BY <1>13, <1>17, <2>1, NodeAfter
<1>. HIDE DEF in3
<1>19. /\ DOMAIN cpus' = (DOMAIN cpus) \cup {x} /\ cpus' \in Seq(CpuObjects)
       /\ \A y \in DOMAIN cpus : cpus'[y] = cpus[y]
       /\ cpus'[x].number = cpu /\ cpus'[x].parent = k
  BY <1>1, <1>3, <1>4, <1>10
<1>20. /\ DOMAIN cache_domains' = (DOMAIN cache_domains) \cup {k}
       /\ cache_domains' \in Seq(Objects)
       /\ \A i \in DOMAIN cache_domains : i # k => cache_domains'[i] = cache_domains[i]
       /\ cache_domains'[k].mask = cm
       /\ k \in DOMAIN cache_domains => cache_domains[k].mask = cm
       /\ cache_domains'[k].children = Append(Kids(cache_domains, k), x)
       /\ cache_domains'[k].parent
              = IF In(k, Kids(packages, j)) THEN Above(cache_domains, k) ELSE j
  BY <1>1, <1>5, <1>9, <1>14, <1>15
<1>21. /\ DOMAIN packages' = (DOMAIN packages) \cup {j} /\ packages' \in Seq(Objects)
       /\ \A i \in DOMAIN packages : i # j => packages'[i] = packages[i]
       /\ packages'[j].mask = pm /\ j \in DOMAIN packages => packages[j].mask = pm
       /\ packages'[j].children = IF In(k, Kids(packages, j)) THEN Kids(packages, j)
                                  ELSE Append(Kids(packages, j), k)
       /\ packages'[j].parent = IF Above(packages, j) = 0 THEN n ELSE Above(packages, j)
  BY <1>1, <1>6, <1>13, <1>18
<1>22. Inserted(x, k, j, n)
  BY <1>1, <1>3, <1>5, <1>6, <1>18, <1>19, <1>20, <1>21, SMTT(30) DEF Inserted, cm, pm
<1> QED
  BY <1>3, <1>5, <1>6, <1>17, <1>22 DEF n

-----------------------------------------------------------------------------
(* Every variable keeps its type                                           *)

(* Every step keeps the types.                                             *)
LEMMA TypedNext ==
    ASSUME Typed, Reading, ChildrenAreCpus, [Next]_vars
    PROVE  Typed'
<1>1. CASE Kernel
  <2>1. PICK c \in Cpus \ {BootCpu} :
            online' = IF c \in online THEN online \ {c} ELSE online \cup {c}
    BY <1>1 DEF Kernel
  <2>2. changes' \in 0..MaxChanges
    BY <1>1, TreeAssumption DEF Kernel, Typed
  <2> QED
    BY <1>1, <2>1, <2>2 DEF Kernel, Typed, listVars, localVars
<1>2. CASE StartNodes
  <2>1. [number |-> Unspecified, mask |-> Cpus, children |-> <<>>] \in NodeObjects
    BY DEF NodeObjects
  <2> QED
    BY <1>2, <2>1 DEF StartNodes, Typed, machineVars, localVars
<1>3. ASSUME NEW m \in Nodes, AddOneNode(m) PROVE Typed'
  <2>1. [number |-> m, mask |-> LocalCpus(m), children |-> <<>>] \in NodeObjects
    BY DEF NodeObjects, LocalCpus, Typed
  <2>2. numa_nodes' \in Seq(NodeObjects)
    BY <1>3, <2>1 DEF AddOneNode, Typed
  <2> QED
    BY <1>3, <2>2 DEF AddOneNode, Typed, machineVars, localVars
<1>4. CASE StartCpus
  BY <1>4 DEF StartCpus, Typed, machineVars, listVars, localVars
<1>5. ASSUME NEW c \in Cpus, ReadOnline(c) PROVE Typed'
  BY <1>5 DEF ReadOnline, Typed, machineVars
<1>6. CASE ReadSiblings
  <2>1. package_mask' \subseteq Cpus
    BY <1>6 DEF ReadSiblings, Siblings, Typed
  <2> QED
    BY <1>6, <2>1 DEF ReadSiblings, Typed, machineVars, listVars
<1>7. CASE ReadCache
  <2>1. cache_mask' \subseteq Cpus
    BY <1>7 DEF ReadCache, CacheMates, Typed
  <2> QED
    BY <1>7, <2>1 DEF ReadCache, Typed, machineVars, listVars
<1>8. CASE Insert
  <2>1. PICK x, k, j, n \in Nat \ {0} : Inserted(x, k, j, n)
    BY <1>8, InsertIs
  <2>2. UNCHANGED <<machineVars, calm, localVars>> /\ pc' = "cpus"
    BY <1>8 DEF Insert
  <2> QED
    BY <2>1, <2>2 DEF Inserted, Typed, machineVars, localVars
<1>9. CASE Finish
  BY <1>9 DEF Finish, Typed, machineVars, listVars, localVars
<1>10. CASE FreeObjectTree
  BY <1>10 DEF FreeObjectTree, Typed, machineVars, localVars
<1>11. CASE UNCHANGED vars
  BY <1>11 DEF vars, Typed, machineVars, listVars, localVars
<1> QED
  BY <1>1, <1>2, <1>3, <1>4, <1>5, <1>6, <1>7, <1>8, <1>9, <1>10, <1>11 DEF Next

(* Every step finds what it relies on.                                     *)
LEMMA ReadingNext ==
    ASSUME Typed, Reading, ChildrenAreCpus, [Next]_vars
    PROVE  Reading'
<1>. USE DEF Reading, InTree, InHand
<1>1. CASE Kernel \/ UNCHANGED vars
  BY <1>1 DEF Kernel, vars, listVars, localVars
<1>2. CASE StartNodes
  <2>1. numa_nodes' = <<[number |-> Unspecified, mask |-> Cpus, children |-> <<>>]>>
    BY <1>2 DEF StartNodes
  <2>2. 1 \in DOMAIN numa_nodes'
    BY <2>1
  <2> QED
    BY <1>2, <2>2 DEF StartNodes, localVars
<1>3. ASSUME NEW m \in Nodes, AddOneNode(m) PROVE Reading'
  <2>. DEFINE e == [number |-> m, mask |-> LocalCpus(m), children |-> <<>>]
  <2>1. numa_nodes' = Append(numa_nodes, e) /\ e.number = m
    BY <1>3 DEF AddOneNode
  <2>2. e \in NodeObjects
    BY DEF NodeObjects, LocalCpus, Typed
  <2>. HIDE DEF e
  <2>3. /\ DOMAIN numa_nodes' = (DOMAIN numa_nodes) \cup {Len(numa_nodes) + 1}
        /\ numa_nodes'[Len(numa_nodes) + 1] = e
        /\ \A a \in DOMAIN numa_nodes : numa_nodes'[a] = numa_nodes[a]
    BY <2>1, <2>2, AppendOne DEF Typed
  <2>4. /\ pc = "nodes" /\ pc' = "nodes" /\ unread' = unread \ {m}
        /\ UNCHANGED <<packages, cache_domains, cpus, core_count, localVars>>
    BY <1>3 DEF AddOneNode
  <2>5. ASSUME NumaAvail, NEW n \in Nodes, n \notin unread'
        PROVE  \E i \in DOMAIN numa_nodes' : numa_nodes'[i].number = n
    BY <2>1, <2>3, <2>4, <2>5
  <2>6. 1 \in DOMAIN numa_nodes'
    BY <2>3, <2>4
  <2> QED
    BY <2>4, <2>5, <2>6
<1>4. CASE StartCpus
  BY <1>4 DEF StartCpus, listVars, localVars
<1>5. ASSUME NEW c \in Cpus, ReadOnline(c) PROVE Reading'
  BY <1>5 DEF ReadOnline, Typed, Unbanned
<1>6. CASE ReadSiblings
  BY <1>6 DEF ReadSiblings, Siblings, listVars
<1>7. CASE ReadCache
  BY <1>7 DEF ReadCache, CacheMates, listVars
<1>8. CASE Insert
  <2>1. PICK x, k, j, n \in Nat \ {0} : Inserted(x, k, j, n)
    BY <1>8, InsertIs
  <2>2. UNCHANGED <<unread, localVars>> /\ pc = "node" /\ pc' = "cpus"
    BY <1>8 DEF Insert
  <2>3. /\ DOMAIN numa_nodes' = DOMAIN numa_nodes
        /\ \A i \in DOMAIN numa_nodes : numa_nodes'[i].number = numa_nodes[i].number
    BY <2>1 DEF Inserted
  <2> QED
    BY <2>2, <2>3
<1>9. CASE Finish
  BY <1>9 DEF Finish, listVars, localVars
<1>10. CASE FreeObjectTree
  BY <1>10 DEF FreeObjectTree, localVars
<1> QED
  BY <1>1, <1>2, <1>3, <1>4, <1>5, <1>6, <1>7, <1>8, <1>9, <1>10 DEF Next

(* A CPU is counted when its directory has been read, which happens once.  *)
LEMMA CountedNext ==
    ASSUME Typed, Reading, CountedOnce, [Next]_vars
    PROVE  CountedOnce'
<1>1. /\ InTree => IsFiniteSet(unread) /\ Cardinality(unread) \in Nat
      /\ IsFiniteSet(Cpus) /\ Cardinality(Cpus) \in Nat
  BY TreeAssumption, FS_Subset, FS_CardinalityType DEF Reading
<1>2. ASSUME UNCHANGED <<core_count, unread, pc>> PROVE CountedOnce'
  BY <1>2 DEF CountedOnce, InTree, InHand
<1>3. CASE StartNodes
  BY <1>3 DEF StartNodes, CountedOnce, InTree, InHand, Typed
<1>4. CASE StartCpus
  <2>1. core_count = 0 /\ core_count' = 0 /\ unread' = Cpus /\ pc' = "cpus"
    BY <1>4 DEF StartCpus, Reading, InTree, InHand, listVars
  <2> QED
    BY <1>1, <2>1 DEF CountedOnce, InHand
<1>5. ASSUME NEW c \in Cpus, ReadOnline(c) PROVE CountedOnce'
  <2>1. /\ c \in unread /\ unread' = unread \ {c} /\ pc = "cpus"
        /\ \/ core_count' = core_count + 1 /\ pc' = "cpus"
           \/ core_count' = core_count /\ pc' \in {"siblings", "cpus"}
    BY <1>5 DEF ReadOnline
  <2>2. Cardinality(unread') = Cardinality(unread) - 1 /\ InTree
    BY <1>1, <2>1, FS_RemoveElement DEF InTree
  <2> QED
    BY <1>1, <2>1, <2>2 DEF CountedOnce, InTree, InHand
<1>6. CASE ReadSiblings \/ ReadCache
  BY <1>6 DEF ReadSiblings, ReadCache, CountedOnce, InTree, InHand, listVars
<1>7. CASE Insert
  <2>1. core_count' = core_count + 1 /\ unread' = unread /\ pc = "node" /\ pc' = "cpus"
    BY <1>7 DEF Insert
  <2> QED
    BY <1>1, <2>1 DEF CountedOnce, InTree, InHand
<1>8. CASE Finish
  BY <1>8 DEF Finish, CountedOnce, InTree, InHand, listVars
<1>9. CASE FreeObjectTree
  BY <1>9 DEF FreeObjectTree, CountedOnce, InTree, InHand
<1>10. ASSUME NEW m \in Nodes, AddOneNode(m) PROVE CountedOnce'
  BY <1>10 DEF AddOneNode, CountedOnce, InTree, InHand
<1>11. CASE Kernel \/ UNCHANGED vars
  BY <1>2, <1>11 DEF Kernel, vars, listVars
<1> QED
  BY <1>3, <1>4, <1>5, <1>6, <1>7, <1>8, <1>9, <1>10, <1>11 DEF Next

-----------------------------------------------------------------------------
(* Children and parents agree                                              *)

CpuLinks ==
    /\ \A i \in DOMAIN cache_domains :
           /\ NoRepeat(cache_domains[i].children) /\ cache_domains[i].children # <<>>
           /\ \A y : In(y, cache_domains[i].children) => y \in DOMAIN cpus /\ cpus[y].parent = i
    /\ \A y \in DOMAIN cpus :
           /\ cpus[y].parent \in DOMAIN cache_domains
           /\ In(y, cache_domains[cpus[y].parent].children)
           /\ cpus[y].number \in cache_domains[cpus[y].parent].mask

(* A cache domain is in the list of its parent, and perhaps in others.     *)
CacheLinks ==
    /\ \A i \in DOMAIN packages :
           /\ NoRepeat(packages[i].children) /\ packages[i].children # <<>>
           /\ \A y : In(y, packages[i].children) => y \in DOMAIN cache_domains
    /\ \A i \in DOMAIN cache_domains :
           /\ cache_domains[i].parent \in DOMAIN packages
           /\ In(i, packages[cache_domains[i].parent].children)

PackageLinks ==
    /\ \A i \in DOMAIN numa_nodes :
           /\ NoRepeat(numa_nodes[i].children)
           /\ \A y : In(y, numa_nodes[i].children) =>
                        y \in DOMAIN packages /\ packages[y].parent = i
    /\ \A i \in DOMAIN packages :
           /\ packages[i].parent \in DOMAIN numa_nodes
           /\ In(i, numa_nodes[packages[i].parent].children)

Links == CpuLinks /\ CacheLinks /\ PackageLinks

(* What the lists of children hold.                                        *)
LEMMA ChildLists ==
    ASSUME Typed
    PROVE  /\ \A i \in DOMAIN cache_domains : cache_domains[i].children \in Seq(Nat)
           /\ \A i \in DOMAIN packages : packages[i].children \in Seq(Nat)
           /\ \A i \in DOMAIN numa_nodes : numa_nodes[i].children \in Seq(Nat)
           /\ \A i : Kids(cache_domains, i) \in Seq(Nat) /\ Kids(packages, i) \in Seq(Nat)
           /\ DOMAIN numa_nodes \subseteq Nat \ {0}
<1>1. /\ \A i \in DOMAIN cache_domains : cache_domains[i] \in Objects
      /\ \A i \in DOMAIN packages : packages[i] \in Objects
      /\ \A i \in DOMAIN numa_nodes : numa_nodes[i] \in NodeObjects
      /\ <<>> \in Seq(Nat) /\ DOMAIN numa_nodes = 1..Len(numa_nodes)
  BY DEF Typed
<1> QED
  BY <1>1 DEF Objects, NodeObjects, Kids

(* The new CPU points to the cache domain that lists it; no other does.    *)
LEMMA InsertCpuLinks ==
    ASSUME Typed, Reading, CpuLinks, NEW x \in Nat \ {0}, NEW k \in Nat \ {0},
           NEW j \in Nat \ {0}, NEW n \in Nat \ {0}, Insert, Inserted(x, k, j, n)
    PROVE  CpuLinks'
<1>. DEFINE kids == Kids(cache_domains, k)
<1>1. kids \in Seq(Nat) /\ ~In(x, kids) /\ NoRepeat(kids)
      /\ \A y : In(y, kids) => y \in DOMAIN cpus /\ cpus[y].parent = k
  <2>1. x \notin DOMAIN cpus
    BY DEF Inserted
  <2>2. CASE k \in DOMAIN cache_domains
    BY <2>1, <2>2, ChildLists DEF Kids, CpuLinks
  <2>3. CASE k \notin DOMAIN cache_domains
    <3>1. kids = <<>>
      BY <2>3 DEF Kids
    <3>. HIDE DEF kids
    <3> QED
      BY <3>1 DEF In, NoRepeat
  <2> QED
    BY <2>2, <2>3
<1>2. /\ x \notin DOMAIN cpus /\ DOMAIN cpus' = (DOMAIN cpus) \cup {x}
      /\ \A y \in DOMAIN cpus : cpus'[y] = cpus[y]
      /\ cpus'[x].number = cpu /\ cpus'[x].parent = k
      /\ DOMAIN cache_domains' = (DOMAIN cache_domains) \cup {k}
      /\ \A i \in DOMAIN cache_domains : /\ cache_domains'[i].mask = cache_domains[i].mask
                                         /\ i # k => cache_domains'[i] = cache_domains[i]
      /\ cache_domains'[k].mask = Allowed(cache_mask)
      /\ cache_domains'[k].children = Append(kids, x)
  BY DEF Inserted
<1>3. cpu \in Allowed(cache_mask)
  BY DEF Insert, Reading, InHand, Allowed
<1>. HIDE DEF kids
<1>4. /\ \A y : In(y, cache_domains'[k].children) <=> (In(y, kids) \/ y = x)
      /\ NoRepeat(cache_domains'[k].children)
  BY <1>1, <1>2, AppendChild
<1>5. cache_domains'[k].children # <<>>
  BY <1>4 DEF In
<1>6. ASSUME NEW i \in DOMAIN cache_domains'
      PROVE  /\ NoRepeat(cache_domains'[i].children) /\ cache_domains'[i].children # <<>>
             /\ \A y : In(y, cache_domains'[i].children)
                           => y \in DOMAIN cpus' /\ cpus'[y].parent = i
  <2>1. CASE i = k
    <3>1. ASSUME NEW y, In(y, cache_domains'[k].children)
          PROVE  y \in DOMAIN cpus' /\ cpus'[y].parent = k
      <4>1. CASE y = x
        BY <1>2, <4>1
      <4>2. CASE In(y, kids)
        BY <1>1, <1>2, <4>2
      <4> QED
        BY <1>4, <3>1, <4>1, <4>2
    <3> QED
      BY <1>4, <1>5, <2>1, <3>1
  <2>2. CASE i # k
    BY <1>2, <2>2 DEF CpuLinks
  <2> QED
    BY <2>1, <2>2
<1>7. k \in DOMAIN cache_domains => kids = cache_domains[k].children
  BY DEF kids, Kids
<1>8. ASSUME NEW y \in DOMAIN cpus'
      PROVE  /\ cpus'[y].parent \in DOMAIN cache_domains'
             /\ In(y, cache_domains'[cpus'[y].parent].children)
             /\ cpus'[y].number \in cache_domains'[cpus'[y].parent].mask
  <2>1. CASE y = x
    BY <1>2, <1>3, <1>4, <2>1
  <2>2. CASE y # x
    <3>1. /\ y \in DOMAIN cpus /\ cpus'[y] = cpus[y] /\ cpus[y].parent \in DOMAIN cache_domains
          /\ In(y, cache_domains[cpus[y].parent].children)
          /\ cpus[y].number \in cache_domains[cpus[y].parent].mask
      BY <1>2, <2>2 DEF CpuLinks
    <3>2. CASE cpus[y].parent = k
      <4>1. In(y, kids) /\ cpus[y].number \in cache_domains[k].mask /\ k \in DOMAIN cache_domains
        BY <1>7, <3>1, <3>2
      <4>2. cpus'[y].parent = k /\ cpus'[y].number = cpus[y].number
        BY <3>1, <3>2
      <4>3. k \in DOMAIN cache_domains' /\ cache_domains'[k].mask = cache_domains[k].mask
        BY <1>2, <4>1
      <4>4. In(y, cache_domains'[k].children)
        BY <1>4, <4>1
      <4> QED
        BY <4>1, <4>2, <4>3, <4>4
    <3>3. CASE cpus[y].parent # k
      BY <1>2, <3>1, <3>3
    <3> QED
      BY <3>2, <3>3
  <2> QED
    BY <2>1, <2>2
<1> QED
  BY <1>6, <1>8 DEF CpuLinks

(* A cache domain points to the package that lists it.                     *)
LEMMA InsertCacheLinks ==
    ASSUME Typed, CacheLinks, NEW x \in Nat \ {0}, NEW k \in Nat \ {0},
           NEW j \in Nat \ {0}, NEW n \in Nat \ {0}, Inserted(x, k, j, n)
    PROVE  CacheLinks'
<1>. DEFINE kids == Kids(packages, j)
<1>1. kids \in Seq(Nat) /\ NoRepeat(kids) /\ \A y : In(y, kids) => y \in DOMAIN cache_domains
  BY ChildLists DEF Kids, CacheLinks, In, NoRepeat
<1>2. /\ DOMAIN cache_domains' = (DOMAIN cache_domains) \cup {k}
      /\ \A i \in DOMAIN cache_domains : i # k => cache_domains'[i] = cache_domains[i]
      /\ cache_domains'[k].parent = IF In(k, kids) THEN Above(cache_domains, k) ELSE j
      /\ DOMAIN packages' = (DOMAIN packages) \cup {j}
      /\ \A i \in DOMAIN packages : i # j => packages'[i] = packages[i]
      /\ packages'[j].children = IF In(k, kids) THEN kids ELSE Append(kids, k)
  BY DEF Inserted
<1>3. j \in DOMAIN packages => kids = packages[j].children
  BY DEF Kids
<1>. HIDE DEF kids
<1>4. /\ \A y : In(y, packages'[j].children) <=> (In(y, kids) \/ y = k)
      /\ NoRepeat(packages'[j].children)
  BY <1>1, <1>2, AppendChild
<1>5. packages'[j].children # <<>>
  BY <1>4 DEF In
<1>6. ASSUME NEW i \in DOMAIN packages'
      PROVE  /\ NoRepeat(packages'[i].children) /\ packages'[i].children # <<>>
             /\ \A y : In(y, packages'[i].children) => y \in DOMAIN cache_domains'
  <2>1. CASE i = j
    BY <1>1, <1>2, <1>4, <1>5, <2>1
  <2>2. CASE i # j
    BY <1>2, <2>2 DEF CacheLinks
  <2> QED
    BY <2>1, <2>2
<1>7. ASSUME NEW i \in DOMAIN packages, NEW y, In(y, packages[i].children)
      PROVE  i \in DOMAIN packages' /\ In(y, packages'[i].children)
  BY <1>2, <1>3, <1>4, <1>7
<1>8. ASSUME NEW i \in DOMAIN cache_domains'
      PROVE  /\ cache_domains'[i].parent \in DOMAIN packages'
             /\ In(i, packages'[cache_domains'[i].parent].children)
  <2>1. CASE i = k /\ ~In(k, kids)
    BY <1>2, <1>4, <2>1
  <2>2. CASE i # k \/ In(k, kids)
    <3>1. i \in DOMAIN cache_domains /\ cache_domains'[i].parent = cache_domains[i].parent
      BY <1>1, <1>2, <2>2 DEF Above
    <3> QED
      BY <1>7, <3>1 DEF CacheLinks
  <2> QED
    BY <2>1, <2>2
<1> QED
  BY <1>6, <1>8 DEF CacheLinks

(* A package points to the node that lists it.                             *)
LEMMA InsertPackageLinks ==
    ASSUME Typed, PackageLinks, NEW x \in Nat \ {0}, NEW k \in Nat \ {0},
           NEW j \in Nat \ {0}, NEW n \in DOMAIN numa_nodes, Inserted(x, k, j, n)
    PROVE  PackageLinks'
<1>1. /\ DOMAIN packages' = (DOMAIN packages) \cup {j}
      /\ \A i \in DOMAIN packages : i # j => packages'[i] = packages[i]
      /\ packages'[j].parent = IF Above(packages, j) = 0 THEN n ELSE Above(packages, j)
      /\ DOMAIN numa_nodes' = DOMAIN numa_nodes
      /\ \A i \in DOMAIN numa_nodes : i # n => numa_nodes'[i] = numa_nodes[i]
      /\ numa_nodes'[n].children = IF Above(packages, j) = 0 THEN Append(numa_nodes[n].children, j)
                                   ELSE numa_nodes[n].children
  BY DEF Inserted
<1>2. CASE j \in DOMAIN packages
  <2>1. Above(packages, j) = packages[j].parent /\ packages[j].parent # 0
    BY <1>2, ChildLists DEF PackageLinks, Above
  <2>2. /\ DOMAIN packages' = DOMAIN packages
        /\ \A i \in DOMAIN packages : packages'[i].parent = packages[i].parent
        /\ \A i \in DOMAIN numa_nodes : numa_nodes'[i].children = numa_nodes[i].children
    BY <1>1, <1>2, <2>1
  <2> QED
    BY <1>1, <2>2 DEF PackageLinks
<1>3. CASE j \notin DOMAIN packages
  <2>1. packages'[j].parent = n /\ numa_nodes'[n].children = Append(numa_nodes[n].children, j)
    BY <1>1, <1>3 DEF Above
  <2>2. numa_nodes[n].children \in Seq(Nat) /\ NoRepeat(numa_nodes[n].children)
        /\ ~In(j, numa_nodes[n].children)
    BY <1>3, ChildLists DEF PackageLinks
  <2>3. /\ \A y : In(y, numa_nodes'[n].children) <=> (In(y, numa_nodes[n].children) \/ y = j)
        /\ NoRepeat(numa_nodes'[n].children)
    BY <2>1, <2>2, AppendChild
  <2>4. ASSUME NEW i \in DOMAIN numa_nodes'
        PROVE  /\ NoRepeat(numa_nodes'[i].children)
               /\ \A y : In(y, numa_nodes'[i].children)
                             => y \in DOMAIN packages' /\ packages'[y].parent = i
    <3>1. CASE i = n
      BY <1>1, <1>3, <2>1, <2>3, <3>1 DEF PackageLinks
    <3>2. CASE i # n
      BY <1>1, <1>3, <3>2 DEF PackageLinks
    <3> QED
      BY <3>1, <3>2
  <2>5. ASSUME NEW i \in DOMAIN packages'
        PROVE  /\ packages'[i].parent \in DOMAIN numa_nodes'
               /\ In(i, numa_nodes'[packages'[i].parent].children)
    <3>1. CASE i = j
      BY <1>1, <2>1, <2>3, <3>1
    <3>2. CASE i # j
      BY <1>1, <2>3, <3>2 DEF PackageLinks
    <3> QED
      BY <3>1, <3>2
  <2> QED
    BY <2>4, <2>5 DEF PackageLinks
<1> QED
  BY <1>2, <1>3

(* Every step keeps both directions of the links in agreement.             *)
LEMMA LinksNext ==
    ASSUME Typed, Reading, Links, [Next]_vars
    PROVE  Links'
<1>1. /\ CpuLinks /\ CacheLinks /\ PackageLinks /\ ChildrenAreCpus
      /\ DOMAIN <<>> = {} /\ NoRepeat(<<>>) /\ \A y : ~In(y, <<>>)
  BY DEF Links, CpuLinks, ChildrenAreCpus, NoRepeat, In
<1>2. ASSUME UNCHANGED listVars PROVE Links'
  BY <1>2 DEF listVars, Links, CpuLinks, CacheLinks, PackageLinks
<1>3. ASSUME packages' = <<>>, cache_domains' = <<>>, cpus' = <<>>, PackageLinks' PROVE Links'
  BY <1>1, <1>3 DEF Links, CpuLinks, CacheLinks
<1>4. CASE StartNodes
  <2>. DEFINE e == [number |-> Unspecified, mask |-> Cpus, children |-> <<>>]
  <2>1. /\ numa_nodes' = <<e>> /\ packages' = <<>> /\ cache_domains' = <<>> /\ cpus' = <<>>
        /\ e.children = <<>>
    BY <1>4 DEF StartNodes, Reading, InTree, InHand
  <2>. HIDE DEF e
  <2>2. DOMAIN numa_nodes' = {1} /\ numa_nodes'[1] = e
    BY <2>1
  <2>3. PackageLinks'
    BY <1>1, <2>1, <2>2 DEF PackageLinks
  <2> QED
    BY <1>3, <2>1, <2>3
<1>5. ASSUME NEW m \in Nodes, AddOneNode(m) PROVE Links'
  <2>. DEFINE e == [number |-> m, mask |-> LocalCpus(m), children |-> <<>>]
  <2>1. /\ numa_nodes' = Append(numa_nodes, e) /\ e.children = <<>>
        /\ packages = <<>> /\ packages' = <<>> /\ cache_domains' = <<>> /\ cpus' = <<>>
    BY <1>5 DEF AddOneNode, Reading, InTree, InHand
  <2>2. e \in NodeObjects
    BY DEF NodeObjects, LocalCpus, Typed
  <2>. HIDE DEF e
  <2>3. /\ DOMAIN numa_nodes' = (DOMAIN numa_nodes) \cup {Len(numa_nodes) + 1}
        /\ numa_nodes'[Len(numa_nodes) + 1] = e
        /\ \A a \in DOMAIN numa_nodes : numa_nodes'[a] = numa_nodes[a]
    BY <2>1, <2>2, AppendOne DEF Typed
  <2>4. \A a \in DOMAIN numa_nodes' : /\ NoRepeat(numa_nodes'[a].children)
                                      /\ \A y : ~In(y, numa_nodes'[a].children)
    BY <1>1, <2>1, <2>3 DEF PackageLinks
  <2>5. PackageLinks'
    BY <1>1, <2>1, <2>4 DEF PackageLinks
  <2> QED
    BY <1>3, <2>1, <2>5
<1>6. CASE Insert
  <2>1. PICK x, k, j, n \in Nat \ {0} : Inserted(x, k, j, n) /\ n \in DOMAIN numa_nodes
    BY <1>1, <1>6, InsertIs
  <2>2. CpuLinks'
    BY <1>1, <1>6, <2>1, InsertCpuLinks
  <2>3. CacheLinks'
    BY <1>1, <2>1, InsertCacheLinks
  <2>4. PackageLinks'
    BY <1>1, <2>1, InsertPackageLinks
  <2> QED
    BY <2>2, <2>3, <2>4 DEF Links
<1>7. CASE FreeObjectTree
  <2>1. numa_nodes' = <<>> /\ packages' = <<>> /\ cache_domains' = <<>> /\ cpus' = <<>>
    BY <1>7 DEF FreeObjectTree
  <2>2. PackageLinks'
    BY <1>1, <2>1 DEF PackageLinks
  <2> QED
    BY <1>3, <2>1, <2>2
<1>8. CASE Kernel \/ StartCpus \/ ReadSiblings \/ ReadCache \/ Finish \/ UNCHANGED vars
  BY <1>2, <1>8 DEF Kernel, StartCpus, ReadSiblings, ReadCache, Finish, vars
<1>9. ASSUME NEW c \in Cpus, ReadOnline(c) PROVE Links'
  BY <1>9 DEF ReadOnline, Links, CpuLinks, CacheLinks, PackageLinks
<1> QED
  BY <1>4, <1>5, <1>6, <1>7, <1>8, <1>9 DEF Next

IInv == Typed /\ Reading /\ CountedOnce /\ Links

(* The invariant with which both theorems are proved.                      *)
LEMMA TreeInvariant == Spec => []IInv
<1>1. Init => IInv
  <2> SUFFICES ASSUME Init PROVE IInv
    OBVIOUS
  <2>1. /\ <<>> \in Seq(Objects) /\ <<>> \in Seq(NodeObjects) /\ <<>> \in Seq(CpuObjects)
        /\ DOMAIN <<>> = {}
    OBVIOUS
  <2>2. Typed
    BY <2>1, TreeAssumption DEF Init, Typed
  <2>3. Reading /\ CountedOnce
    BY DEF Init, Reading, CountedOnce, InTree, InHand
  <2>4. Links
    BY <2>1 DEF Init, Links, CpuLinks, CacheLinks, PackageLinks
  <2> QED
    BY <2>2, <2>3, <2>4 DEF IInv
<1>2. IInv /\ [Next]_vars => IInv'
  <2> SUFFICES ASSUME IInv, [Next]_vars PROVE IInv'
    OBVIOUS
  <2>1. Typed /\ Reading /\ CountedOnce /\ Links /\ ChildrenAreCpus
    BY DEF IInv, Links, CpuLinks, ChildrenAreCpus
  <2> QED
    BY <2>1, TypedNext, ReadingNext, CountedNext, LinksNext DEF IInv
<1> QED
  BY <1>1, <1>2, PTL DEF Spec

(* The lists of objects, and what their fields point to, keep their types, *)
(* and core_count never exceeds the number of CPUs (lines 147-183).        *)
THEOREM TypeCorrect == Spec => []TypeOK
<1>1. IInv => TypeOK
  <2> SUFFICES ASSUME IInv PROVE TypeOK
    OBVIOUS
  <2>. USE DEF IInv
  <2>1. /\ \A n \in ToSet(numa_nodes) : n \in NodeObjects
        /\ \A s \in ToSet(packages) \cup ToSet(cache_domains) : s \in Objects
        /\ \A c \in ToSet(cpus) : c \in CpuObjects
        /\ DOMAIN numa_nodes = 1..Len(numa_nodes) /\ DOMAIN packages = 1..Len(packages)
        /\ DOMAIN cache_domains = 1..Len(cache_domains)
    BY DEF Typed, ToSet
  <2>2. \A n \in ToSet(numa_nodes) :
            n.number \in Nodes \cup {Unspecified} /\ n.mask \subseteq Cpus
    BY <2>1 DEF NodeObjects
  <2>3. \A s \in ToSet(packages) : s.mask \in Masks /\ s.parent \in 1..Len(numa_nodes)
    BY <2>1 DEF Objects, Links, PackageLinks, ToSet
  <2>4. \A d \in ToSet(cache_domains) : d.mask \in Masks /\ d.parent \in 1..Len(packages)
    BY <2>1 DEF Objects, Links, CacheLinks, ToSet
  <2>5. \A c \in ToSet(cpus) : c.number \in Unbanned /\ c.parent \in 1..Len(cache_domains)
    BY <2>1 DEF CpuObjects, Links, CpuLinks, ToSet
  <2>6. core_count \in 0..Cardinality(Cpus)
    <3>1. Cardinality(Cpus) \in Nat
      BY TreeAssumption, FS_CardinalityType
    <3>2. InTree => Cardinality(unread) \in Nat
      BY TreeAssumption, FS_Subset, FS_CardinalityType DEF Reading
    <3> QED
      BY <3>1, <3>2 DEF CountedOnce, Reading
  <2>7. unread \subseteq Nodes \/ unread \subseteq Cpus
    BY DEF Reading, Typed, InTree, InHand
  <2> QED
    BY <2>2, <2>3, <2>4, <2>5, <2>6, <2>7 DEF TypeOK, Typed
<1> QED
  BY <1>1, TreeInvariant, PTL

(* Whatever the kernel does between two files, the tree hangs together:    *)
(* every CPU, cache domain and package is in the list of its parent and is *)
(* listed once, every list agrees with the parents, and no object is       *)
(* without children (lines 44-131, numa.c:127-142).                        *)
THEOREM LinksAlwaysAgree == Spec => []LinksAgree
<1>1. Links => LinksAgree
  <2> SUFFICES ASSUME Links PROVE LinksAgree
    OBVIOUS
  <2>. USE DEF Links
  <2>1. ASSUME NEW x \in DOMAIN cpus, NEW k \in DOMAIN cache_domains
        PROVE  Occurs(x, cache_domains[k].children) = IF cpus[x].parent = k THEN 1 ELSE 0
    <3>1. NoRepeat(cache_domains[k].children)
             /\ (In(x, cache_domains[k].children) <=> cpus[x].parent = k)
      BY DEF CpuLinks
    <3> QED
      BY <3>1, OccursOnce
  <2>2. ASSUME NEW k \in DOMAIN cache_domains, NEW j \in DOMAIN packages
        PROVE  Occurs(k, packages[j].children)
                   \in IF cache_domains[k].parent = j THEN {1} ELSE {0, 1}
    <3>1. NoRepeat(packages[j].children)
             /\ (cache_domains[k].parent = j => In(k, packages[j].children))
      BY DEF CacheLinks
    <3> QED
      BY <3>1, OccursOnce
  <2>3. ASSUME NEW j \in DOMAIN packages, NEW n \in DOMAIN numa_nodes
        PROVE  Occurs(j, numa_nodes[n].children) = IF packages[j].parent = n THEN 1 ELSE 0
    <3>1. NoRepeat(numa_nodes[n].children)
             /\ (In(j, numa_nodes[n].children) <=> packages[j].parent = n)
      BY DEF PackageLinks
    <3> QED
      BY <3>1, OccursOnce
  <2>4. \A s \in ToSet(packages) \cup ToSet(cache_domains) : s.children # <<>>
    BY DEF CpuLinks, CacheLinks, ToSet
  <2>5. \A x \in DOMAIN cpus : cpus[x].number \in cache_domains[cpus[x].parent].mask
    BY DEF CpuLinks
  <2> QED
    BY <2>1, <2>2, <2>3, <2>4, <2>5 DEF LinksAgree
<1>2. IInv => Links
  BY DEF IInv
<1> QED
  BY <1>1, <1>2, TreeInvariant, PTL

-----------------------------------------------------------------------------
(* The tree is the machine's                                               *)

CMates(c) == CacheMates(c) \cap Unbanned
PMates(c) == Siblings(c) \cap Unbanned

(* The CPUs that do_one_cpu is through with.                               *)
SeenAll == {c \in online : c \notin unread /\ ~(InHand /\ c = cpu)}
Seen    == SeenAll \cap Unbanned

HandRight ==
    /\ InHand => cpu \in online
    /\ pc \in {"cache", "node"} => package_mask = Siblings(cpu)
    /\ pc = "node" => cache_mask = CacheMates(cpu)

CpusRight ==
    /\ \A y \in DOMAIN cpus : cpus[y].number \in Seen
    /\ \A y, z \in DOMAIN cpus : cpus[y].number = cpus[z].number => y = z
    /\ \A c \in Seen : \E y \in DOMAIN cpus : cpus[y].number = c

MasksRight ==
    /\ \A i \in DOMAIN cache_domains : \E c \in Usable : cache_domains[i].mask = CMates(c)
    /\ \A i, l \in DOMAIN cache_domains : cache_domains[i].mask = cache_domains[l].mask => i = l
    /\ \A i \in DOMAIN packages : \E c \in Usable : packages[i].mask = PMates(c)
    /\ \A i, l \in DOMAIN packages : packages[i].mask = packages[l].mask => i = l

Nested ==
    \A i \in DOMAIN packages : \A y : In(y, packages[i].children)
        => y \in DOMAIN cache_domains /\ cache_domains[y].mask \subseteq packages[i].mask

NodesRight ==
    /\ \A i \in DOMAIN numa_nodes :
           numa_nodes[i].mask = IF numa_nodes[i].number = Unspecified THEN Cpus
                                ELSE LocalCpus(numa_nodes[i].number)
    /\ ~NumaAvail => \A i \in DOMAIN numa_nodes : numa_nodes[i].number = Unspecified

ParentsRight ==
    NumaAvail => \A i \in DOMAIN packages :
        \E c \in packages[i].mask : numa_nodes[packages[i].parent].number = NodeOf[c]

CountRight == core_count = Cardinality(SeenAll)

Machine ==
    /\ calm /\ pc # "build" => NodesRight
    /\ calm /\ InTree => HandRight /\ CpusRight /\ MasksRight /\ Nested /\ ParentsRight /\ CountRight

(* A CPU of a mask has that mask itself.                                   *)
LEMMA SameClass ==
    ASSUME NEW c, NEW d
    PROVE  /\ d \in CMates(c) => CMates(d) = CMates(c)
           /\ d \in PMates(c) => PMates(d) = PMates(c)
           /\ c \in Usable => c \in CMates(c) /\ c \in PMates(c)
           /\ c \in Cpus /\ online \subseteq Cpus => CMates(c) \subseteq PMates(c)
  BY TreeAssumption DEF CMates, PMates, CacheMates, Siblings, Usable

(* What is in the tree after a CPU went in.                                *)
LEMMA InsertMachine ==
    ASSUME IInv, Machine, calm, Insert, NEW x \in Nat \ {0}, NEW k \in Nat \ {0},
           NEW j \in Nat \ {0}, NEW n \in DOMAIN numa_nodes, Inserted(x, k, j, n),
           NodeId # Unspecified => numa_nodes[n].number = NodeId
    PROVE  Machine'
<1>1. /\ pc = "node" /\ pc' = "cpus" /\ online' = online /\ unread' = unread /\ calm' = calm
      /\ core_count' = core_count + 1
  BY DEF Insert, machineVars
<1>2. /\ HandRight /\ CpusRight /\ MasksRight /\ Nested /\ ParentsRight /\ CountRight
      /\ NodesRight /\ InHand /\ InTree
  BY <1>1 DEF Machine, InTree, InHand
<1>3. PICK me \in Usable : me = cpu
  BY <1>2 DEF HandRight, Usable, IInv, Reading
<1>4. me \notin unread /\ me \notin SeenAll /\ me \in online /\ me \in Unbanned /\ me \in Cpus
  BY <1>2, <1>3, <1>1 DEF IInv, Reading, SeenAll, Usable, Typed
<1>5. SeenAll' = SeenAll \cup {me} /\ Seen' = Seen \cup {me}
  <2>1. ~InHand'
    BY <1>1 DEF InHand
  <2> QED
    BY <1>1, <1>2, <1>3, <1>4, <2>1 DEF SeenAll, Seen
<1>6. Allowed(cache_mask) = CMates(me) /\ Allowed(package_mask) = PMates(me)
  BY <1>1, <1>2, <1>3 DEF HandRight, Allowed, CMates, PMates
<1>7. CpusRight'
  <2>1. /\ DOMAIN cpus' = (DOMAIN cpus) \cup {x} /\ x \notin DOMAIN cpus
        /\ \A y \in DOMAIN cpus : cpus'[y] = cpus[y]
        /\ cpus'[x].number = me
    BY <1>3 DEF Inserted
  <2> QED
    BY <1>2, <1>4, <1>5, <2>1 DEF CpusRight, Seen
<1>8. \A c : CMates(c)' = CMates(c) /\ PMates(c)' = PMates(c) /\ Usable' = Usable
  BY <1>1 DEF CMates, PMates, CacheMates, Siblings, Usable
<1>9. /\ DOMAIN cache_domains' = (DOMAIN cache_domains) \cup {k}
      /\ \A i \in DOMAIN cache_domains : cache_domains'[i].mask = cache_domains[i].mask
      /\ cache_domains'[k].mask = CMates(me)
      /\ \A i \in DOMAIN cache_domains :
             cache_domains[i].mask = CMates(me) => k \in DOMAIN cache_domains
  BY <1>6 DEF Inserted
<1>10. /\ DOMAIN packages' = (DOMAIN packages) \cup {j}
       /\ \A i \in DOMAIN packages : packages'[i].mask = packages[i].mask
       /\ packages'[j].mask = PMates(me)
       /\ \A i \in DOMAIN packages : packages[i].mask = PMates(me) => j \in DOMAIN packages
  BY <1>6 DEF Inserted
<1>11. MasksRight'
  <2>1. \A i \in DOMAIN cache_domains' : \E c \in Usable : cache_domains'[i].mask = CMates(c)
    BY <1>2, <1>3, <1>9 DEF MasksRight
  <2>2. \A i, l \in DOMAIN cache_domains' : cache_domains'[i].mask = cache_domains'[l].mask => i = l
    BY <1>2, <1>9 DEF MasksRight
  <2>3. \A i \in DOMAIN packages' : \E c \in Usable : packages'[i].mask = PMates(c)
    BY <1>2, <1>3, <1>10 DEF MasksRight
  <2>4. \A i, l \in DOMAIN packages' : packages'[i].mask = packages'[l].mask => i = l
    BY <1>2, <1>10 DEF MasksRight
  <2> QED
    BY <1>8, <2>1, <2>2, <2>3, <2>4 DEF MasksRight
<1>12. Nested'
  <2>1. /\ \A i \in DOMAIN packages : i # j => packages'[i] = packages[i]
        /\ packages'[j].children = IF In(k, Kids(packages, j)) THEN Kids(packages, j)
                                   ELSE Append(Kids(packages, j), k)
    BY DEF Inserted
  <2>2. Kids(packages, j) \in Seq(Nat)
    BY ChildLists DEF IInv
  <2>3. \A y : In(y, packages'[j].children) => In(y, Kids(packages, j)) \/ y = k
    BY <2>1, <2>2, AppendChild
  <2>4. CMates(me) \subseteq PMates(me)
    BY <1>4, SameClass DEF IInv, Typed
  <2>5. ASSUME NEW i \in DOMAIN packages', NEW y, In(y, packages'[i].children)
        PROVE  y \in DOMAIN cache_domains' /\ cache_domains'[y].mask \subseteq packages'[i].mask
    <3>1. CASE i = j /\ y = k
      BY <1>9, <1>10, <2>4, <3>1
    <3>2. CASE i = j /\ In(y, Kids(packages, j))
      <4>1. j \in DOMAIN packages /\ In(y, packages[j].children)
        BY <3>2 DEF Kids, In
      <4> QED
        BY <1>2, <1>9, <1>10, <3>2, <4>1 DEF Nested
    <3>3. CASE i # j
      BY <1>2, <1>9, <1>10, <2>1, <2>5, <3>3 DEF Nested
    <3> QED
      BY <2>3, <2>5, <3>1, <3>2, <3>3
  <2> QED
    BY <2>5 DEF Nested
<1>13. /\ DOMAIN numa_nodes' = DOMAIN numa_nodes
       /\ \A i \in DOMAIN numa_nodes : /\ numa_nodes'[i].number = numa_nodes[i].number
                                       /\ numa_nodes'[i].mask = numa_nodes[i].mask
  BY DEF Inserted
<1>14. NodesRight'
  <2>1. \A m : LocalCpus(m)' = LocalCpus(m)
    BY <1>1 DEF LocalCpus
  <2> QED
    BY <1>2, <1>13, <2>1 DEF NodesRight
<1>15. ParentsRight'
  <2> SUFFICES ASSUME NumaAvail, NEW i \in DOMAIN packages'
               PROVE  \E c \in packages'[i].mask :
                          numa_nodes'[packages'[i].parent].number = NodeOf[c]
    BY DEF ParentsRight
  <2>1. /\ \A l \in DOMAIN packages : l # j => packages'[l] = packages[l]
        /\ packages'[j].parent = IF Above(packages, j) = 0 THEN n ELSE Above(packages, j)
    BY DEF Inserted
  <2>2. CASE i = j /\ Above(packages, j) = 0
    <3>1. NodeId = NodeOf[me] /\ NodeOf[me] \in Nodes /\ NodeOf[me] # Unspecified
      BY <1>3, <1>4, TreeAssumption DEF NodeId
    <3>2. numa_nodes'[packages'[i].parent].number = NodeOf[me]
      BY <1>13, <2>1, <2>2, <3>1
    <3>3. me \in packages'[i].mask
      BY <1>3, <1>10, <2>2, SameClass
    <3> QED
      BY <3>2, <3>3
  <2>3. CASE i # j \/ Above(packages, j) # 0
    <3>1. i \in DOMAIN packages /\ packages'[i].parent = packages[i].parent
            /\ packages[i].parent \in DOMAIN numa_nodes
      BY <1>10, <2>1, <2>3 DEF Above, IInv, Links, PackageLinks
    <3> QED
      BY <1>2, <1>10, <1>13, <3>1 DEF ParentsRight
  <2> QED
    BY <2>2, <2>3
<1>16. CountRight'
  <2>1. IsFiniteSet(SeenAll)
    BY TreeAssumption, FS_Subset DEF SeenAll, IInv, Typed
  <2>2. Cardinality(SeenAll \cup {me}) = Cardinality(SeenAll) + 1
    BY <1>4, <2>1, FS_AddElement
  <2> QED
    BY <1>1, <1>2, <1>5, <2>2 DEF CountRight
<1>17. HandRight'
  BY <1>1 DEF HandRight, InHand
<1> QED
  BY <1>1, <1>7, <1>11, <1>12, <1>14, <1>15, <1>16, <1>17 DEF Machine

(* Steps that change nothing in the tree and keep the same CPUs seen.      *)
LEMMA MachineSame ==
    ASSUME Machine, InTree, InTree',
           UNCHANGED <<online, calm, numa_nodes, packages, cache_domains, cpus>>,
           calm => HandRight' /\ CountRight' /\ Seen' = Seen
    PROVE  Machine'
<1> SUFFICES ASSUME calm PROVE Machine'
  BY DEF Machine
<1>1. /\ CpusRight /\ MasksRight /\ Nested /\ ParentsRight /\ NodesRight
      /\ HandRight' /\ CountRight' /\ Seen' = Seen
  BY DEF Machine, InTree, InHand
<1>2. /\ \A c : CMates(c)' = CMates(c) /\ PMates(c)' = PMates(c) /\ LocalCpus(c)' = LocalCpus(c)
      /\ Usable' = Usable
  BY DEF CMates, PMates, CacheMates, Siblings, LocalCpus, Usable
<1>3. CpusRight'
  BY <1>1 DEF CpusRight
<1>4. MasksRight' /\ NodesRight'
  BY <1>1, <1>2 DEF MasksRight, NodesRight
<1>5. Nested' /\ ParentsRight'
  BY <1>1 DEF Nested, ParentsRight
<1> QED
  BY <1>1, <1>3, <1>4, <1>5 DEF Machine

(* As long as the kernel changes nothing, every step keeps what is in the  *)
(* tree in agreement with what the kernel says.                            *)
LEMMA MachineNext ==
    ASSUME IInv, Machine, [Next]_vars
    PROVE  Machine'
<1>1. CASE Kernel
  BY <1>1 DEF Kernel, Machine
<1>2. CASE StartNodes
  <2>. DEFINE e == [number |-> Unspecified, mask |-> Cpus, children |-> <<>>]
  <2>1. numa_nodes' = <<e>> /\ e.number = Unspecified /\ e.mask = Cpus /\ pc' = "nodes"
    BY <1>2 DEF StartNodes
  <2>. HIDE DEF e
  <2>2. DOMAIN numa_nodes' = {1} /\ numa_nodes'[1] = e
    BY <2>1
  <2>3. NodesRight'
    BY <2>1, <2>2 DEF NodesRight
  <2> QED
    BY <2>1, <2>3 DEF Machine, InTree, InHand
<1>3. ASSUME NEW m \in Nodes, AddOneNode(m) PROVE Machine'
  <2>. DEFINE e == [number |-> m, mask |-> LocalCpus(m), children |-> <<>>]
  <2>1. /\ numa_nodes' = Append(numa_nodes, e) /\ e.number = m /\ e.mask = LocalCpus(m)
        /\ pc = "nodes" /\ pc' = "nodes" /\ m \in unread /\ online' = online /\ calm' = calm
    BY <1>3 DEF AddOneNode, machineVars
  <2>2. e \in NodeObjects /\ numa_nodes \in Seq(NodeObjects)
    BY DEF NodeObjects, LocalCpus, IInv, Typed
  <2>. HIDE DEF e
  <2>3. /\ DOMAIN numa_nodes' = (DOMAIN numa_nodes) \cup {Len(numa_nodes) + 1}
        /\ numa_nodes'[Len(numa_nodes) + 1] = e
        /\ \A a \in DOMAIN numa_nodes : numa_nodes'[a] = numa_nodes[a]
    BY <2>1, <2>2, AppendOne
  <2>4. m # Unspecified /\ \A c : LocalCpus(c)' = LocalCpus(c)
    BY <2>1, TreeAssumption DEF LocalCpus
  <2>5. CASE ~calm
    BY <2>1, <2>5 DEF Machine
  <2>6. CASE calm /\ NumaAvail
    <3>1. NodesRight
      BY <2>1, <2>6 DEF Machine
    <3>2. NodesRight'
      BY <2>1, <2>3, <2>4, <2>6, <3>1 DEF NodesRight
    <3> QED
      BY <2>1, <3>2 DEF Machine, InTree, InHand
  <2>7. CASE ~NumaAvail
    <3>1. FALSE
      BY <2>1, <2>7 DEF IInv, Reading
    <3> QED
      BY <3>1
  <2> QED
    BY <2>5, <2>6, <2>7
<1>4. CASE StartCpus
  <2>1. /\ pc = "nodes" /\ pc' = "cpus" /\ unread' = Cpus
        /\ UNCHANGED <<online, calm, numa_nodes, packages, cache_domains, cpus, core_count>>
        /\ packages = <<>> /\ cache_domains = <<>> /\ cpus = <<>> /\ core_count = 0
        /\ online \subseteq Cpus
    BY <1>4 DEF StartCpus, machineVars, listVars, IInv, Reading, Typed, InTree, InHand
  <2>2. SeenAll' = {} /\ Seen' = {}
    BY <2>1 DEF SeenAll, Seen
  <2>3. DOMAIN packages' = {} /\ DOMAIN cache_domains' = {} /\ DOMAIN cpus' = {}
    BY <2>1
  <2>4. CpusRight' /\ MasksRight' /\ Nested' /\ ParentsRight'
    BY <2>2, <2>3 DEF CpusRight, MasksRight, Nested, ParentsRight
  <2>5. CountRight' /\ HandRight'
    BY <2>1, <2>2, FS_EmptySet DEF CountRight, HandRight, InHand
  <2>6. \A c : LocalCpus(c)' = LocalCpus(c)
    BY <2>1 DEF LocalCpus
  <2>7. NodesRight => NodesRight'
    BY <2>1, <2>6 DEF NodesRight
  <2> QED
    BY <2>1, <2>4, <2>5, <2>7 DEF Machine
<1>5. ASSUME NEW c \in Cpus, ReadOnline(c) PROVE Machine'
  <2>1. /\ pc = "cpus" /\ c \in unread /\ unread' = unread \ {c}
        /\ core_count' = IF c \in online \cap Banned THEN core_count + 1 ELSE core_count
        /\ IF c \in online \ Banned THEN cpu' = c /\ pc' = "siblings" ELSE cpu' = cpu /\ pc' = pc
        /\ UNCHANGED <<online, calm, numa_nodes, packages, cache_domains, cpus>>
    BY <1>5 DEF ReadOnline, machineVars
  <2>2. InTree /\ InTree' /\ ~InHand /\ (InHand' <=> c \in online \ Banned)
    BY <2>1 DEF InTree, InHand
  <2>3. SeenAll' = SeenAll \cup (IF c \in online \cap Banned THEN {c} ELSE {}) /\ c \notin SeenAll
    BY <2>1, <2>2 DEF SeenAll
  <2>4. Seen' = Seen
    BY <2>3 DEF Seen, Unbanned
  <2>5. ASSUME CountRight PROVE CountRight'
    <3>1. IsFiniteSet(SeenAll)
      BY TreeAssumption, FS_Subset DEF SeenAll, IInv, Typed
    <3>2. Cardinality(SeenAll \cup {c}) = Cardinality(SeenAll) + 1
      BY <2>3, <3>1, FS_AddElement
    <3>3. SeenAll \cup {} = SeenAll
      OBVIOUS
    <3> QED
      BY <2>1, <2>3, <2>5, <3>2, <3>3 DEF CountRight
  <2>6. HandRight'
    BY <2>1 DEF HandRight, InHand
  <2>7. calm => CountRight
    BY <2>2 DEF Machine
  <2> QED
    BY <2>1, <2>2, <2>4, <2>5, <2>6, <2>7, MachineSame
<1>6. CASE ReadSiblings \/ ReadCache \/ Finish
  <2>1. /\ InTree /\ InTree' /\ (InHand' <=> InHand)
        /\ UNCHANGED <<online, calm, numa_nodes, packages, cache_domains, cpus, core_count, unread>>
        /\ InHand => cpu' = cpu
    BY <1>6 DEF ReadSiblings, ReadCache, Finish, InTree, InHand, machineVars, listVars, localVars
  <2>2. SeenAll' = SeenAll /\ Seen' = Seen
    BY <2>1 DEF SeenAll, Seen
  <2>3. calm => HandRight /\ CountRight
    BY <2>1 DEF Machine
  <2>4. HandRight => HandRight'
    BY <1>6, <2>1
       DEF HandRight, ReadSiblings, ReadCache, Finish, InHand, Siblings, CacheMates, machineVars
  <2>5. CountRight => CountRight'
    BY <2>1, <2>2 DEF CountRight
  <2> QED
    BY <2>1, <2>2, <2>3, <2>4, <2>5, MachineSame
<1>7. CASE Insert
  <2>1. calm' = calm
    BY <1>7 DEF Insert
  <2>2. CASE ~calm
    BY <2>1, <2>2 DEF Machine
  <2>3. CASE calm
    <3>1. ChildrenAreCpus
      BY DEF IInv, Links, CpuLinks, ChildrenAreCpus
    <3>2. PICK x, k, j, n \in Nat \ {0} :
              /\ Inserted(x, k, j, n) /\ n \in DOMAIN numa_nodes
              /\ NodeId # Unspecified => numa_nodes[n].number = NodeId
      BY <1>7, <3>1, InsertIs DEF IInv
    <3> QED
      BY <1>7, <2>3, <3>2, InsertMachine
  <2> QED
    BY <2>2, <2>3
<1>8. CASE FreeObjectTree
  BY <1>8 DEF FreeObjectTree, Machine, InTree, InHand
<1>9. CASE UNCHANGED vars
  <2>1. UNCHANGED <<online, calm, numa_nodes, packages, cache_domains, cpus, core_count, unread, pc,
                    cpu, package_mask, cache_mask>>
    BY <1>9 DEF vars, machineVars, listVars, localVars
  <2>2. InTree' = InTree /\ SeenAll' = SeenAll /\ Seen' = Seen
    BY <2>1 DEF InTree, InHand, SeenAll, Seen
  <2>3. CASE InTree
    <3>1. calm => HandRight /\ CountRight
      BY <2>3 DEF Machine
    <3>2. (HandRight => HandRight') /\ (CountRight => CountRight')
      BY <2>1, <2>2 DEF HandRight, CountRight, InHand, Siblings, CacheMates
    <3> QED
      BY <2>1, <2>2, <2>3, <3>1, <3>2, MachineSame
  <2>4. CASE ~InTree
    <3>1. NodesRight => NodesRight'
      BY <2>1 DEF NodesRight, LocalCpus
    <3> QED
      BY <2>1, <2>2, <2>4, <3>1 DEF Machine
  <2> QED
    BY <2>3, <2>4
<1> QED
  BY <1>1, <1>2, <1>3, <1>4, <1>5, <1>6, <1>7, <1>8, <1>9 DEF Next

(* A list has as many elements as it has different values.                 *)
LEMMA DistinctValues ==
    ASSUME NEW T, NEW s \in Seq(T), NEW f, DOMAIN f = DOMAIN s, NEW V,
           \A a \in DOMAIN s : f[a] \in V,
           \A v \in V : \E a \in DOMAIN s : f[a] = v,
           \A a, b \in DOMAIN s : f[a] = f[b] => a = b,
           f = [a \in DOMAIN s |-> f[a]]
    PROVE  Len(s) = Cardinality(V)
<1>1. DOMAIN s = 1..Len(s) /\ Len(s) \in Nat
  OBVIOUS
<1>2. f \in [1..Len(s) -> V]
  BY <1>1
<1>3. f \in Bijection(1..Len(s), V)
  BY <1>1, <1>2 DEF Bijection, Injection, Surjection, IsInjective
<1> QED
  BY <1>1, <1>3, FS_CountingElements DEF ExistsBijection

(* When no CPU came or went, a tree that is finished is the machine's: the *)
(* CPUs that may be used, each once, in one cache domain per cache and one *)
(* package per socket, under nodes of their own, with all of them counted  *)
(* (lines 133-268 and 343-370), whatever the order of the directories.     *)
THEOREM TreeIsTheMachine == Spec => []TreeIsMachine
<1>1. ASSUME IInv, Machine PROVE TreeIsMachine
  <2> SUFFICES ASSUME pc = "done", calm PROVE TreeIsMachine
    BY DEF TreeIsMachine
  <2>1. /\ CpusRight /\ MasksRight /\ Nested /\ ParentsRight /\ CountRight /\ NodesRight
        /\ unread = {} /\ ~InHand /\ online \subseteq Cpus
        /\ CpuLinks /\ CacheLinks /\ PackageLinks
    BY <1>1 DEF Machine, InTree, InHand, IInv, Reading, Links, Typed
  <2>2. SeenAll = online /\ Seen = Usable
    BY <2>1 DEF SeenAll, Seen, Usable
  <2>3. {c.number : c \in ToSet(cpus)} = Usable
    BY <2>1, <2>2 DEF CpusRight, ToSet
  <2>4. Len(cpus) = Cardinality(Usable)
    <3>. DEFINE f == [y \in DOMAIN cpus |-> cpus[y].number]
    <3>1. /\ \A y \in DOMAIN cpus : f[y] \in Usable
          /\ \A c \in Usable : \E y \in DOMAIN cpus : f[y] = c
          /\ \A y, z \in DOMAIN cpus : f[y] = f[z] => y = z
          /\ DOMAIN f = DOMAIN cpus /\ f = [a \in DOMAIN cpus |-> f[a]]
      BY <2>1, <2>2 DEF CpusRight
    <3>2. cpus \in Seq(CpuObjects)
      BY <1>1 DEF IInv, Typed
    <3>. HIDE DEF f
    <3> QED
      BY <3>1, <3>2, DistinctValues
  <2>5. ASSUME NEW c \in Usable
        PROVE  \E y \in DOMAIN cpus : /\ cpus[y].number = c
                                      /\ cpus[y].parent \in DOMAIN cache_domains
                                      /\ In(y, cache_domains[cpus[y].parent].children)
                                      /\ cache_domains[cpus[y].parent].mask = CMates(c)
    <3>1. PICK y \in DOMAIN cpus : cpus[y].number = c
      BY <2>1, <2>2 DEF CpusRight
    <3>2. /\ cpus[y].parent \in DOMAIN cache_domains
          /\ In(y, cache_domains[cpus[y].parent].children)
          /\ c \in cache_domains[cpus[y].parent].mask
      BY <2>1, <3>1 DEF CpuLinks
    <3>3. PICK d \in Usable : cache_domains[cpus[y].parent].mask = CMates(d)
      BY <2>1, <3>2 DEF MasksRight
    <3> QED
      BY <3>1, <3>2, <3>3, SameClass
  <2>6. ASSUME NEW i \in DOMAIN cache_domains
        PROVE  BelowCache(cache_domains[i]) = cache_domains[i].mask
    <3>1. PICK d \in Usable : cache_domains[i].mask = CMates(d)
      BY <2>1 DEF MasksRight
    <3>2. BelowCache(cache_domains[i]) \subseteq cache_domains[i].mask
      <4> SUFFICES ASSUME NEW y \in ToSet(cache_domains[i].children)
                   PROVE  cpus[y].number \in cache_domains[i].mask
        BY DEF BelowCache
      <4>1. In(y, cache_domains[i].children)
        BY DEF In, ToSet
      <4> QED
        BY <2>1, <4>1 DEF CpuLinks
    <3>3. ASSUME NEW c \in cache_domains[i].mask PROVE c \in BelowCache(cache_domains[i])
      <4>1. c \in Usable /\ CMates(c) = CMates(d)
        BY <3>1, <3>3, SameClass DEF CMates, CacheMates, Usable
      <4>2. PICK y \in DOMAIN cpus : /\ cpus[y].number = c
                                     /\ cpus[y].parent \in DOMAIN cache_domains
                                     /\ In(y, cache_domains[cpus[y].parent].children)
                                     /\ cache_domains[cpus[y].parent].mask = CMates(c)
        BY <2>5, <4>1
      <4>3. cpus[y].parent = i
        BY <2>1, <3>1, <4>1, <4>2 DEF MasksRight
      <4>4. y \in ToSet(cache_domains[i].children)
        BY <4>2, <4>3 DEF In, ToSet
      <4> QED
        BY <4>2, <4>4 DEF BelowCache
    <3> QED
      BY <3>2, <3>3
  <2>7. ASSUME NEW c \in Usable
        PROVE  \E k \in DOMAIN cache_domains :
                   /\ c \in cache_domains[k].mask
                   /\ cache_domains[k].parent \in DOMAIN packages
                   /\ In(k, packages[cache_domains[k].parent].children)
                   /\ packages[cache_domains[k].parent].mask = PMates(c)
    <3>1. PICK y \in DOMAIN cpus : /\ cpus[y].parent \in DOMAIN cache_domains
                                   /\ cache_domains[cpus[y].parent].mask = CMates(c)
      BY <2>5
    <3>2. PICK k \in DOMAIN cache_domains : k = cpus[y].parent
      BY <3>1
    <3>3. c \in cache_domains[k].mask
      BY <3>1, <3>2, SameClass
    <3>4. /\ cache_domains[k].parent \in DOMAIN packages
          /\ In(k, packages[cache_domains[k].parent].children)
      BY <2>1 DEF CacheLinks
    <3>5. c \in packages[cache_domains[k].parent].mask
      BY <2>1, <3>3, <3>4 DEF Nested
    <3>6. PICK d \in Usable : packages[cache_domains[k].parent].mask = PMates(d)
      BY <2>1, <3>4 DEF MasksRight
    <3> QED
      BY <3>3, <3>4, <3>5, <3>6, SameClass
  <2>8. ASSUME NEW j \in DOMAIN packages
        PROVE  BelowPackage(packages[j]) = packages[j].mask
    <3>1. PICK d \in Usable : packages[j].mask = PMates(d)
      BY <2>1 DEF MasksRight
    <3>2. ASSUME NEW k \in ToSet(packages[j].children)
          PROVE  k \in DOMAIN cache_domains /\ BelowCache(cache_domains[k]) \subseteq packages[j].mask
      <4>1. In(k, packages[j].children)
        BY DEF In, ToSet
      <4>2. k \in DOMAIN cache_domains /\ cache_domains[k].mask \subseteq packages[j].mask
        BY <2>1, <4>1 DEF Nested
      <4> QED
        BY <2>6, <4>2
    <3>3. BelowPackage(packages[j]) \subseteq packages[j].mask
      BY <3>2 DEF BelowPackage
    <3>4. ASSUME NEW c \in packages[j].mask PROVE c \in BelowPackage(packages[j])
      <4>1. c \in Usable /\ PMates(c) = PMates(d)
        BY <3>1, <3>4, SameClass DEF PMates, Siblings, Usable
      <4>2. PICK k \in DOMAIN cache_domains :
                /\ c \in cache_domains[k].mask
                /\ cache_domains[k].parent \in DOMAIN packages
                /\ In(k, packages[cache_domains[k].parent].children)
                /\ packages[cache_domains[k].parent].mask = PMates(c)
        BY <2>7, <4>1
      <4>3. cache_domains[k].parent = j
        BY <2>1, <3>1, <4>1, <4>2 DEF MasksRight
      <4>4. k \in ToSet(packages[j].children)
        BY <4>2, <4>3 DEF In, ToSet
      <4>5. c \in BelowCache(cache_domains[k])
        BY <2>6, <4>2
      <4> QED
        BY <4>4, <4>5 DEF BelowPackage
    <3> QED
      BY <3>3, <3>4
  <2>9. Covers(cache_domains, {CMates(c) : c \in Usable}, BelowCache)
    <3>1. {d.mask : d \in ToSet(cache_domains)} = {CMates(c) : c \in Usable}
      BY <2>1, <2>5 DEF MasksRight, ToSet
    <3>2. Len(cache_domains) = Cardinality({CMates(c) : c \in Usable})
      <4>. DEFINE f == [i \in DOMAIN cache_domains |-> cache_domains[i].mask]
                  V == {CMates(c) : c \in Usable}
      <4>1. /\ \A i \in DOMAIN cache_domains : f[i] \in V
            /\ \A v \in V : \E i \in DOMAIN cache_domains : f[i] = v
            /\ \A i, l \in DOMAIN cache_domains : f[i] = f[l] => i = l
            /\ DOMAIN f = DOMAIN cache_domains /\ f = [a \in DOMAIN cache_domains |-> f[a]]
        BY <2>1, <2>5 DEF MasksRight
      <4>2. cache_domains \in Seq(Objects)
        BY <1>1 DEF IInv, Typed
      <4>. HIDE DEF f, V
      <4>3. Len(cache_domains) = Cardinality(V)
        BY <4>1, <4>2, DistinctValues
      <4> QED
        BY <4>3 DEF V
    <3>3. \A d \in ToSet(cache_domains) : BelowCache(d) = d.mask
      BY <2>6 DEF ToSet
    <3> QED
      BY <3>1, <3>2, <3>3 DEF Covers
  <2>10. Covers(packages, {PMates(c) : c \in Usable}, BelowPackage)
    <3>1. {d.mask : d \in ToSet(packages)} = {PMates(c) : c \in Usable}
      BY <2>1, <2>7 DEF MasksRight, ToSet
    <3>2. Len(packages) = Cardinality({PMates(c) : c \in Usable})
      <4>. DEFINE f == [i \in DOMAIN packages |-> packages[i].mask]
                  V == {PMates(c) : c \in Usable}
      <4>1. /\ \A i \in DOMAIN packages : f[i] \in V
            /\ \A v \in V : \E i \in DOMAIN packages : f[i] = v
            /\ \A i, l \in DOMAIN packages : f[i] = f[l] => i = l
            /\ DOMAIN f = DOMAIN packages /\ f = [a \in DOMAIN packages |-> f[a]]
        BY <2>1, <2>7 DEF MasksRight
      <4>2. packages \in Seq(Objects)
        BY <1>1 DEF IInv, Typed
      <4>. HIDE DEF f, V
      <4>3. Len(packages) = Cardinality(V)
        BY <4>1, <4>2, DistinctValues
      <4> QED
        BY <4>3 DEF V
    <3>3. \A s \in ToSet(packages) : BelowPackage(s) = s.mask
      BY <2>8 DEF ToSet
    <3> QED
      BY <3>1, <3>2, <3>3 DEF Covers
  <2>11. \A s \in ToSet(packages) :
            numa_nodes[s.parent].number \in
                IF NumaAvail THEN {NodeOf[c] : c \in s.mask} ELSE {Unspecified}
    BY <2>1 DEF ParentsRight, NodesRight, PackageLinks, ToSet
  <2>12. \A m \in ToSet(numa_nodes) :
            m.mask = IF m.number = Unspecified THEN Cpus ELSE LocalCpus(m.number)
    BY <2>1 DEF NodesRight, ToSet
  <2>13. core_count = Cardinality(online)
    BY <2>1, <2>2 DEF CountRight
  <2> QED
    BY <2>3, <2>4, <2>9, <2>10, <2>11, <2>12, <2>13 DEF TreeIsMachine, CMates, PMates
<1>2. Init => Machine
  BY DEF Init, Machine, InTree, InHand
<1>3. IInv /\ Machine /\ [Next]_vars => Machine'
  BY MachineNext
<1> QED
  BY <1>1, <1>2, <1>3, TreeInvariant, PTL DEF Spec
=============================================================================
