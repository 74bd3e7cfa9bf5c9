----------------------------- MODULE MCCpuTree -----------------------------
(* Five CPUs in two packages, the first over two nodes and with two caches; *)
(* one CPU of the second is banned.                                         *)
EXTENDS CpuTree, TLC

MCCpus      == 0..4
MCPackageOf == (0 :> 1) @@ (1 :> 1) @@ (2 :> 1) @@ (3 :> 2) @@ (4 :> 2)
MCCacheOf   == (0 :> 1) @@ (1 :> 1) @@ (2 :> 2) @@ (3 :> 3) @@ (4 :> 3)
MCNodeOf    == (0 :> 0) @@ (1 :> 0) @@ (2 :> 1) @@ (3 :> 1) @@ (4 :> 1)
=============================================================================
