------------------------------ MODULE MCOtaMode ------------------------------
(***************************************************************************)
(* OtaMode with two generations.  Nothing tells one generation from the    *)
(* other but the order in which the gateway sends them.                    *)
(***************************************************************************)
EXTENDS OtaMode, TLC

CONSTANTS g1, g2
MCGenerations == { g1, g2 }
Symmetry == Permutations(MCGenerations)
=============================================================================
