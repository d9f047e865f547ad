----------------------------- MODULE MCGameLoop -----------------------------
(***************************************************************************)
(* Small instances of GameLoop: games of two rounds, one or two players.   *)
(***************************************************************************)
EXTENDS GameLoop

CONSTANTS a, b

Alone    == {a}
Pair     == {a, b}
=============================================================================
