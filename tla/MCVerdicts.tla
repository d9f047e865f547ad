----------------------------- MODULE MCVerdicts ------------------------------
(***************************************************************************)
(* Small instances of Verdicts: two players, a round of four clicks and    *)
(* one of two, and two ticks of the clock to a millisecond.                *)
(***************************************************************************)
EXTENDS Verdicts

MCPlayer == {1, 2}
MCN == <<4, 2>>
MCRTT == [p \in MCPlayer |-> IF p = 1 THEN 1 ELSE 0]
==============================================================================
