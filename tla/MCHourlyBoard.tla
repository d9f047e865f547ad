---------------------------- MODULE MCHourlyBoard ----------------------------
(***************************************************************************)
(* Small instances of HourlyBoard: two players, rounds in two hours, two   *)
(* failed passes or restarts at any point.                                 *)
(***************************************************************************)
EXTENDS HourlyBoard

MCPlayer == {1, 2}
MCPoints == {1}
==============================================================================
