----------------------------- MODULE MCNf10Poll -----------------------------
(* An instance of Nf10Poll for TLC. *)
EXTENDS Nf10Poll

CONSTANTS c1, c2, c3
MCCpus == {c1, c2, c3}
=============================================================================
