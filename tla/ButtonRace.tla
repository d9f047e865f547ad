------------------------------ MODULE ButtonRace ------------------------------
(***************************************************************************)
(* What a scoring window promises, without slots, queues, logs or ticks: a *)
(* set of open buttons, each of which one player may take, the first       *)
(* `left` of them for a point each.  The board (internal/game/board.go)    *)
(* and the race loop of the engine are shown to implement it.              *)
(***************************************************************************)
EXTENDS Integers, FiniteSets

CONSTANTS Player, Width

VARIABLES running,  \* the window is open
          left,     \* claims the budget still allows
          open,     \* buttons that can be taken
          owner,    \* who took a button: button -> player
          points    \* the game's scores

rvars == <<running, left, open, owner, points>>

RaceInit ==
  /\ running = FALSE
  /\ left = 1
  /\ open = {}
  /\ owner = <<>>
  /\ points = [p \in Player |-> 0]

Start ==
  /\ ~running
  /\ running' = TRUE
  /\ left' \in Nat \ {0}
  /\ Cardinality(open') = Width
  /\ owner' = <<>>
  /\ UNCHANGED points

\* Taking an open button; it is replaced by one never seen in this window,
\* unless it was the last the budget pays for.
Take(p, b) ==
  /\ running /\ left > 0
  /\ b \in open
  /\ left' = left - 1
  /\ owner' = [c \in DOMAIN owner \cup {b} |-> IF c = b THEN p ELSE owner[c]]
  /\ IF left = 1
     THEN open' = open \ {b}
     ELSE \E c \in open' :
            /\ c \notin open \cup DOMAIN owner
            /\ open' = (open \ {b}) \cup {c}
  /\ UNCHANGED <<running, points>>

\* A player's points are the buttons it owns.
Finish ==
  /\ running
  /\ running' = FALSE
  /\ points' = [p \in Player |->
                  points[p] + Cardinality({b \in DOMAIN owner : owner[b] = p})]
  /\ UNCHANGED <<left, open, owner>>

\* A new game begins between two windows.
Reset ==
  /\ ~running
  /\ points' = [p \in Player |-> 0]
  /\ UNCHANGED <<running, left, open, owner>>

RaceNext ==
  \/ Start
  \/ \E b \in open, p \in Player : Take(p, b)
  \/ Finish
  \/ Reset

RaceSpec == RaceInit /\ [][RaceNext]_rvars
===============================================================================
