---------------------------- MODULE MCClientBoard ----------------------------
(***************************************************************************)
(* Small instances of ClientBoard.                                         *)
(***************************************************************************)
EXTENDS ClientBoard, TLC

CONSTANTS a, b

MCPlayer == {a, b}
MCViewer == {a}
MCCrowd  == {2}
==============================================================================
