------------------------------- MODULE Nf10Axi -------------------------------
(***************************************************************************)
(* Register access through /dev/nf10: nf10fops_ioctl and the counter       *)
(* axi_wr_cnt, with which the driver estimates how full the card's write   *)
(* buffer is without reading its status for every write.                   *)
(***************************************************************************)
EXTENDS Integers

CONSTANTS
    Procs,       \* the processes that have the device open
    Depth,       \* 64, the entries of the write buffer
    Almost       \* 48, the entries in it up to which it is not almost full

VARIABLES
    axi_wr_cnt,
    fill,        \* the writes in the card's buffer
    pc,          \* where each process is in nf10fops_ioctl
    sure         \* history, which no step reads: when the count was last set
                 \* to something, nothing was in the way of its being right

vars == <<axi_wr_cnt, fill, pc, sure>>

TypeOK ==
    /\ axi_wr_cnt \in 0..Depth
    /\ fill \in 0..Depth
    /\ pc \in [Procs -> {"idle", "test", "write", "reset"}]
    /\ sure \in BOOLEAN

Init ==
    /\ axi_wr_cnt = 0 /\ fill = 0
    /\ pc = [p \in Procs |-> "idle"]
    /\ sure = TRUE

Goto(p, label) == pc' = [pc EXCEPT ![p] = label]

(* The processes that have counted their write and not issued it yet.      *)
OnTheWay == {p \in Procs : pc[p] \in {"test", "write"}}

-----------------------------------------------------------------------------
(* Status register 130: bit 0 empty, bit 1 almost full, bit 2 full.        *)
Bit(cond, weight) == IF cond THEN weight ELSE 0

(* The truth of  ~x  in C: the complement of x is zero for x = -1 only.    *)
Complemented(x) == -1 - x # 0

CountOfStatusZero ==                                                \* mutant
    IF Bit(fill = 0, 1) # 0 THEN 0
    ELSE IF Complemented(Bit(fill > Almost, 2)) THEN Almost + 1 ELSE Depth + 1

(* Lines 67-101: the count after this write, from the status.  The tests   *)
(* of bits 1 and 2 are  ~(val & 0x2)  and  ~(val & 0x4), which hold        *)
(* whatever the bit is; what would follow a buffer found full is never     *)
(* reached and stands here for its last outcome.                           *)
CountOfStatus ==
    IF Bit(fill = 0, 1) # 0 THEN 1
    ELSE IF Complemented(Bit(fill > Almost, 2)) THEN Almost + 1
    ELSE IF Complemented(Bit(fill >= Depth, 4)) THEN Depth
    ELSE Depth + 1

(* NF10_IOCTL_CMD_WRITE_REG up to the unlock, lines 58-103.  The count     *)
(* taken from a status is right if the buffer is not almost full, which    *)
(* line 72 does not find out, and no other process's write is to come.     *)
CheckRoom(p) ==
    /\ pc[p] = "idle"
    /\ \/ /\ axi_wr_cnt < Depth
          /\ axi_wr_cnt' = axi_wr_cnt + 1
          /\ UNCHANGED sure
       \/ /\ axi_wr_cnt >= Depth
          /\ axi_wr_cnt' = CountOfStatus
          /\ sure' = (fill <= Almost /\ OnTheWay = {})
    /\ Goto(p, "test")
    /\ UNCHANGED fill

(* Line 104 reads the counter again, without the lock. *)
TestCount(p) ==
    /\ pc[p] = "test"
    /\ Goto(p, IF axi_wr_cnt > Depth THEN "idle" ELSE "write")
    /\ UNCHANGED <<axi_wr_cnt, fill, sure>>

(* Line 111; a write to a full buffer is lost. *)
WriteReg(p) ==
    /\ pc[p] = "write"
    /\ fill' = IF fill < Depth THEN fill + 1 ELSE fill
    /\ Goto(p, "idle")
    /\ UNCHANGED <<axi_wr_cnt, sure>>

(* NF10_IOCTL_CMD_READ_REG, lines 117-118: the value read comes back after *)
(* the writes that were in the buffer.                                     *)
ReadReg(p) ==
    /\ pc[p] = "idle" /\ fill = 0
    /\ Goto(p, "reset")
    /\ UNCHANGED <<axi_wr_cnt, fill, sure>>

(* Lines 121-123: right, unless another process has written since line 118 *)
(* or is about to.                                                         *)
ResetCount(p) ==
    /\ pc[p] = "reset"
    /\ axi_wr_cnt' = 0
    /\ sure' = (fill = 0 /\ OnTheWay = {})
    /\ Goto(p, "idle")
    /\ UNCHANGED fill

(* The card carries out a write. *)
Drain ==
    /\ fill > 0 /\ fill' = fill - 1
    /\ UNCHANGED <<axi_wr_cnt, pc, sure>>

Next ==
    \/ \E p \in Procs :
           CheckRoom(p) \/ TestCount(p) \/ WriteReg(p) \/ ReadReg(p) \/ ResetCount(p)
    \/ Drain

Spec == Init /\ [][Next]_vars
=============================================================================
