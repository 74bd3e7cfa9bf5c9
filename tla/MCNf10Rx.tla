------------------------------ MODULE MCNf10Rx ------------------------------
(* Instances of Nf10Rx for TLC. *)
EXTENDS Nf10Rx, TLC

CONSTANTS p1, s1, s2, s3, s4
MCPorts == {p1}
MCSkbs  == {s1, s2, s3, s4}

(* Packets are interchangeable. *)
MCSymmetry == Permutations(MCSkbs)
=============================================================================
