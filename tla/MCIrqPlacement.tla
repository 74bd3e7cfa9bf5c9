--------------------------- MODULE MCIrqPlacement ---------------------------
(***************************************************************************)
(* Instances of IrqPlacement for TLC.                                      *)
(*                                                                         *)
(* "Two": a package with two CPUs that spans the nodes n1 and n3, and is   *)
(* a child of the first of them only, and a package on n2 with one CPU.    *)
(* CPU 4, on n3, is banned.  Of the interrupts, one has a hint that the    *)
(* ban rules out, one fits only n3, one fits anywhere, and the device of   *)
(* one is on a node that its hint leaves out.                              *)
(* "Flat": one package and cache domain with two CPUs, no NUMA.            *)
(***************************************************************************)
EXTENDS IrqPlacement

CONSTANTS u, n1, n2, n3, p1, p2, d1, d2, c1, c2, c3

\* The interrupts are numbers; each instance takes a prefix of these rows.
Irqs4 == 1..4
Irqs5 == 1..5
MCClass   == <<4, 2, 2, 2, 1>>
MCAddress == <<1, 2, 3, 4, 5>>

TwoNodes    == <<u, n1, n2, n3>>
TwoPackages == <<p1, p2>>
TwoCaches   == <<d1, d2>>
TwoCpus     == <<c1, c2, c3>>
TwoParent   == (u :> NoObj) @@ (n1 :> NoObj) @@ (n2 :> NoObj) @@ (n3 :> NoObj)
               @@ (p1 :> n1) @@ (p2 :> n2) @@ (d1 :> p1) @@ (d2 :> p2)
               @@ (c1 :> d1) @@ (c2 :> d1) @@ (c3 :> d2)
TwoMask     == (u :> 1..4) @@ (n1 :> {1}) @@ (n2 :> {3}) @@ (n3 :> {2, 4})
               @@ (p1 :> {1, 2}) @@ (p2 :> {3}) @@ (d1 :> {1, 2}) @@ (d2 :> {3})
               @@ (c1 :> {1}) @@ (c2 :> {2}) @@ (c3 :> {3})
HintLevel   == <<3, 2, 3, 2>>
HintHome    == <<n1, u, u, n2>>
HintPolicy  == <<"exact", "subset", "ignore", "subset">>
HintHint    == <<{3, 4}, {2, 4}, {}, {2}>>

FlatNodes    == <<u>>
FlatPackages == <<p1>>
FlatCaches   == <<d1>>
FlatCpus     == <<c1, c2>>
FlatParent   == (u :> NoObj) @@ (p1 :> u) @@ (d1 :> p1) @@ (c1 :> d1) @@ (c2 :> d1)
FlatMask     == (u :> 1..2) @@ (p1 :> 1..2) @@ (d1 :> 1..2) @@ (c1 :> {1}) @@ (c2 :> {2})
FlatLevel    == <<3, 3, 3, 3, 2>>
FlatHome     == [i \in 1..5 |-> u]
FlatPolicy   == [i \in 1..5 |-> "ignore"]
FlatHint     == [i \in 1..5 |-> {}]
=============================================================================
