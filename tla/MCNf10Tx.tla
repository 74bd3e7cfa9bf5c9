------------------------------ MODULE MCNf10Tx ------------------------------
(* Instances of Nf10Tx for TLC.                                            *)
EXTENDS Nf10Tx, TLC

CONSTANTS p1, p2, s1, s2, s3

MCPorts  == {p1, p2}
MCSkbs   == {s1, s2, s3}
MCSizes  == {1, 2}

(* Ports and packets are interchangeable in the safety properties.         *)
MCSymmetry == Permutations(MCPorts) \cup Permutations(MCSkbs)

(* What a failed mapping leads to once more packets follow is the subject  *)
(* of another run; here it is looked at until the next packet comes.       *)
StopAfterMapError == mapErrors = 0 \/ owned = {}
=============================================================================
