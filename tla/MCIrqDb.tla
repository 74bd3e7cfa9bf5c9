------------------------------- MODULE MCIrqDb -------------------------------
(* An instance of IrqDb for TLC.                                           *)
EXTENDS IrqDb

CONSTANTS eth, disk, accel

MCDevices == {eth, disk, accel}

(* eth and disk share a line; eth can have two messages, accel one.        *)
MCLine     == (eth :> 1) @@ (disk :> 1) @@ (accel :> 2)
MCMessages == (eth :> {3, 4}) @@ (disk :> {}) @@ (accel :> {5})

(* disk has an empty file, accel a class that is not in the table.         *)
MCClassFile == (eth :> 2) @@ (disk :> Empty) @@ (accel :> 18)
MCNodeFile  == (eth :> 1) @@ (disk :> -1) @@ (accel :> 1)
MCLocal     == {eth}

Say(key, value) == [key |-> key, value |-> value]

(* The script bans message 4 and disk's line, and has something to say of  *)
(* the rest; what it says twice, or what makes no sense, is in it, too.    *)
MCPolScript ==
    [path \in MCDevices \cup {"/sys"}, i \in 0..7 |->
        CASE path = disk -> <<Say("ban", "true"), Say("hintpolicy", "none")>>
          [] path = eth /\ i = 4 -> <<Say("ban", "false"), Say("ban", "true"), Say("ban", "maybe")>>
          [] path = eth -> <<Say("balance_level", "cache"), Say("numa_node", 7)>>
          [] path = accel -> <<Say("numa_node", 0), Say("hintpolicy", "subset")>>
          [] i = 0 -> <<Say("balance_level", "core"), Say("colour", "red")>>
          [] OTHER -> <<>>]

MCBanScript == {<<accel, "irq", 2>>}
=============================================================================
