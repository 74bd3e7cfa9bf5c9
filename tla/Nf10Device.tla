------------------------------- MODULE Nf10Device ------------------------------
(***************************************************************************)
(* The life of the driver together with the register accesses of the       *)
(* processes that have /dev/nf10 open.  Both keep state in the card, and   *)
(* axi_wr_cnt is static: it outlives the card it counts for.               *)
(***************************************************************************)
EXTENDS Nf10Lifecycle

CONSTANTS Depth, Almost

ASSUME AxiAssumption ==
    /\ Depth \in Nat \ {0}
    /\ Almost \in 0..(Depth - 1)

VARIABLES
    axi_wr_cnt, fill,
    fpc,            \* where each file's process is in nf10fops_ioctl
    sure

axiVars == <<axi_wr_cnt, fill, fpc, sure>>

Axi == INSTANCE Nf10Axi WITH Procs <- Files, pc <- fpc

DeviceInit == Init /\ Axi!Init

(* A file is not released while its process is in ioctl.  Whether the      *)
(* reset of line 133 empties the write buffer is up to the card.           *)
Life ==
    /\ Next
    /\ \A f \in files \ files' : fpc[f] = "idle"
    /\ fill' \in IF pc = "dsc" /\ pc' = "dne" THEN {fill, 0} ELSE {fill}
    /\ UNCHANGED <<axi_wr_cnt, fpc, sure>>

Ioctl(f) ==
    /\ f \in files
    /\ \/ Axi!CheckRoom(f) \/ Axi!TestCount(f) \/ Axi!WriteReg(f)
       \/ Axi!ReadReg(f) \/ Axi!ResetCount(f)
    /\ UNCHANGED vars

Drain == Axi!Drain /\ UNCHANGED vars

DeviceNext == Life \/ Drain \/ \E f \in Files : Ioctl(f)

DeviceSpec == DeviceInit /\ [][DeviceNext]_<<vars, axiVars>>

-----------------------------------------------------------------------------
(* Properties *)

(* The counter bounds what is in the write buffer and on the way to it,    *)
(* which is what makes the test of nf10fops.c, line 61, sufficient, for    *)
(* any number of processes and over every removal and new probe of the     *)
(* card, unless the status was last read of a buffer that was almost full  *)
(* (line 72 takes it for one that is not) or another process's write fell  *)
(* into that reading or the reset of line 122.                             *)
CountCovers ==
    sure => /\ fill + Cardinality(Axi!OnTheWay) <= axi_wr_cnt
            /\ axi_wr_cnt <= Depth

-----------------------------------------------------------------------------
(* A statement of a comment that the code only keeps while it is sure.     *)

(* "check for write buffer overflow" (nf10fops.c, line 59): no write is    *)
(* issued to a buffer that is full.                                        *)
NoOverflow == (\E f \in Files : fpc[f] = "write") => fill < Depth
=============================================================================
