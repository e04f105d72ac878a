------------------------------- MODULE MCTftp -------------------------------
(* Instances of module Tftp for TLC.                                       *)
EXTENDS Tftp, TLC

CONSTANTS g1, g2, p1

ServerSymmetry == Permutations(Servers)

TwoBlocks  == [f \in Files |-> 2]
FiveOrTwo == [f \in Files |-> IF f \in GetFiles THEN 5 ELSE 2]
=============================================================================
