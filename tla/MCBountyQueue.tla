---------------------------- MODULE MCBountyQueue ----------------------------
(***************************************************************************)
(* Small instances of BountyQueue, whose constants are all numbers.        *)
(***************************************************************************)
EXTENDS BountyQueue
==============================================================================
