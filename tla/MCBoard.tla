------------------------------- MODULE MCBoard -------------------------------
(***************************************************************************)
(* Small instances of Board: two players, a race of none to three players, *)
(* so that a round pays for its floor of one, to three.                    *)
(***************************************************************************)
EXTENDS Board, TLC

CONSTANTS a, b

MCPlayer == {a, b}
MCCrowd  == 0..3
Symmetry == Permutations(MCPlayer)
==============================================================================
