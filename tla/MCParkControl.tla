---------------------------- MODULE MCParkControl ----------------------------
(***************************************************************************)
(* Small instances of ParkControl, whose constants are numbers only.       *)
(***************************************************************************)
EXTENDS ParkControl
==============================================================================
