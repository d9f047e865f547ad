----------------------------- MODULE MCSanctions -----------------------------
(***************************************************************************)
(* Small instances of Sanctions: a cooldown from the second flag, ignored  *)
(* from the third.                                                         *)
(***************************************************************************)
EXTENDS Sanctions

CONSTANTS a, b

Alone == {a}
Pair  == {a, b}
==============================================================================
