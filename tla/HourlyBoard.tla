----------------------------- MODULE HourlyBoard -----------------------------
(***************************************************************************)
(* The hourly points and the hours won: a round's points are written by a  *)
(* goroutine after the round (Engine.persist, Store.AddHourlyPoints), and  *)
(* once an hour is over its top scorer is credited with it                 *)
(* (runHourlyFinalizer, Store.FinalizeDueHours).  The board players see is *)
(* derived from the points again (Store.HoursWonLeaderboard).              *)
(*                                                                         *)
(* The clock counts in ticks of which HourTicks make an hour.  Each        *)
(* transaction is one step, except that finalizeHour's reads and its       *)
(* commit are two: other writes commit in between.  A goroutine starts as  *)
(* soon as it is created.  Players are numbers, ordered like steam ids.    *)
(***************************************************************************)
EXTENDS Integers, FiniteSets, FiniteSetsExt

CONSTANTS Player,
          HourTicks,  \* ticks in an hour
          Timeout,    \* persist: how long a write may take
          Margin,     \* runHourlyFinalizer: how long after the hour it looks
          PassTime,   \* finalize: how long a pass may take
          Points,     \* bound: points of one player in one round
          LastRound,  \* bound: the last hour in which rounds are played
          MaxHour,    \* bound: the clock stops as this hour begins
          MaxRound,   \* bound: rounds
          MaxUpset,   \* bound: failed passes and restarts
          None

ASSUME HourlyAssumption ==
  /\ Player \subseteq Nat /\ None \notin Player /\ Points \subseteq Nat \ {0}
  /\ Timeout \in Nat \ {0} /\ Timeout <= Margin /\ Margin + PassTime < HourTicks
  /\ {HourTicks, Margin, PassTime, LastRound, MaxHour, MaxRound, MaxUpset} \subseteq Nat

VARIABLES now,        \* the clock
          scores,     \* hourly_scores: 0 where there is no row
          finalized,  \* finalized_hours
          wins,       \* hourly_wins
          writes,     \* AddHourlyPoints in flight
          pass,       \* where the finalizer is: "asleep", "credit" or "commit"
          wakeAt,     \* when its timer fires
          due,        \* the hours its pass has yet to credit
          winner,     \* whom it read as the top of the hour at hand
          credited,   \* history: to whom each finalized hour went
          rounds, upsets  \* bounds

table == <<scores, finalized, wins, credited>>
finalizer == <<pass, wakeAt, due, winner>>
vars == <<now, table, writes, finalizer, rounds, upsets>>

Hour == 0..MaxHour
HourOf(t) == t \div HourTicks
Rows(h) == {p \in Player : scores[h][p] > 0}

\* ORDER BY points DESC, steam_id ASC LIMIT 1.
Top(h) ==
  CHOOSE p \in Rows(h) :
    \A q \in Rows(h) \ {p} :
      \/ scores[h][q] < scores[h][p]
      \/ scores[h][q] = scores[h][p] /\ p < q

Init ==
  /\ now = 0
  /\ scores = [h \in Hour |-> [p \in Player |-> 0]]
  /\ finalized = {}
  /\ wins = [p \in Player |-> 0]
  /\ writes = {}
  /\ pass = "credit" /\ wakeAt = 0 /\ due = {} /\ winner = None
  /\ credited = [h \in Hour |-> None]
  /\ rounds = 0 /\ upsets = 0

-----------------------------------------------------------------------------
\* Time passes; writes in flight end by their deadline, one way or another, the
\* finalizer's timer fires when it is due, and its pass takes PassTime at most.
Tick ==
  /\ now < MaxHour * HourTicks
  /\ now < wakeAt + (IF pass = "asleep" THEN 0 ELSE PassTime)
  /\ \A w \in writes : now < w.deadline
  /\ now' = now + 1
  /\ UNCHANGED <<table, writes, finalizer, rounds, upsets>>

\* A round ends: its points go to the hour that has begun.
Persist ==
  /\ HourOf(now) <= LastRound /\ rounds < MaxRound
  /\ rounds' = rounds + 1
  /\ \E scorers \in SUBSET Player \ {{}} : \E deltas \in [scorers -> Points] :
       writes' = writes \cup {[id |-> rounds, bucket |-> HourOf(now),
                               deltas |-> deltas, deadline |-> now + Timeout]}
  /\ UNCHANGED <<now, table, finalizer, upsets>>

\* AddHourlyPoints commits.
Land(w) ==
  /\ writes' = writes \ {w}
  /\ scores' = [scores EXCEPT ![w.bucket] =
       [p \in Player |-> @[p] + IF p \in DOMAIN w.deltas THEN w.deltas[p] ELSE 0]]
  /\ UNCHANGED <<now, finalized, wins, credited, finalizer, rounds, upsets>>

\* It fails or times out; the points are gone.
Lose(w) ==
  /\ writes' = writes \ {w}
  /\ UNCHANGED <<now, table, finalizer, rounds, upsets>>

-----------------------------------------------------------------------------
\* Mutant: the ledger is not consulted.
DueHoursAgain == {h \in Hour : h < HourOf(now) /\ Rows(h) # {}}

\* FinalizeDueHours: completed hours with points and no ledger row.
DueHours == {h \in Hour : h < HourOf(now) /\ Rows(h) # {}} \ finalized

\* Mutant: the timer is set for the boundary itself.
NextLookAtOnce == (HourOf(now) + 1) * HourTicks

\* The loop of runHourlyFinalizer: a margin after the next hour boundary.
NextLook == (HourOf(now) + 1) * HourTicks + Margin

BeginPass ==
  /\ pass = "asleep" /\ now >= wakeAt
  /\ pass' = "credit" /\ due' = DueHours
  /\ UNCHANGED <<now, table, writes, wakeAt, winner, rounds, upsets>>

\* finalizeHour, hour by hour: read the winner ...
ReadWinner ==
  /\ pass = "credit" /\ due # {}
  /\ pass' = "commit" /\ winner' = Top(Min(due))
  /\ UNCHANGED <<now, table, writes, wakeAt, due, rounds, upsets>>

\* ... and commit the credit with the ledger row.
Commit ==
  /\ pass = "commit"
  /\ pass' = "credit" /\ due' = due \ {Min(due)} /\ winner' = None
  /\ wins' = [wins EXCEPT ![winner] = @ + 1]
  /\ finalized' = finalized \cup {Min(due)}
  /\ credited' = [credited EXCEPT ![Min(due)] = winner]
  /\ UNCHANGED <<now, scores, writes, wakeAt, rounds, upsets>>

GoToSleep == pass' = "asleep" /\ due' = {} /\ winner' = None

PassEnds ==
  /\ pass = "credit" /\ due = {}
  /\ GoToSleep /\ wakeAt' = NextLook
  /\ UNCHANGED <<now, table, writes, rounds, upsets>>

\* Mutant: the loop ends with its first error.
PassFailsForGood ==
  /\ pass # "asleep" /\ upsets < MaxUpset
  /\ upsets' = upsets + 1
  /\ GoToSleep /\ wakeAt' = MaxHour * HourTicks + 1
  /\ UNCHANGED <<now, table, writes, rounds>>

\* A query or a transaction fails or times out: the rest waits for the next pass.
PassFails ==
  /\ pass # "asleep" /\ upsets < MaxUpset
  /\ upsets' = upsets + 1
  /\ GoToSleep /\ wakeAt' = NextLook
  /\ UNCHANGED <<now, table, writes, rounds>>

\* The server goes down and comes up: what was in flight is gone, and the
\* finalizer catches up at once.
Restart ==
  /\ upsets < MaxUpset
  /\ upsets' = upsets + 1
  /\ writes' = {}
  /\ pass' = "credit" /\ wakeAt' = now /\ due' = DueHours /\ winner' = None
  /\ UNCHANGED <<now, table, rounds>>

Finalizer == BeginPass \/ ReadWinner \/ Commit \/ PassEnds

Next ==
  \/ Tick \/ Persist \/ Finalizer \/ PassFails \/ Restart
  \/ \E w \in writes : Land(w) \/ Lose(w)

\* Time passes, writes end, and the finalizer's timer and its pass go on.
Spec ==
  /\ Init /\ [][Next]_vars
  /\ WF_vars(Tick) /\ WF_vars(Finalizer)
  /\ WF_vars(\E w \in writes : Land(w) \/ Lose(w))

-----------------------------------------------------------------------------
(***************************************************************************)
(* Properties                                                              *)
(***************************************************************************)

\* Each hour is credited once: however passes fail and servers restart, a player
\* has as many wins on record as the ledger has hours that went to it.
HourWonOnce ==
  \A p \in Player : wins[p] = Cardinality({h \in finalized : credited[h] = p})

\* The two answers to "who won this hour" agree: whoever was credited with it is
\* who HoursWonLeaderboard derives from the points now, because no points of
\* an hour can land once its winner has been read.
BoardsAgree == \A h \in finalized : credited[h] = Top(h)

\* Every completed hour with points is credited in the end.
EveryHourIsWon ==
  \A h \in 0..LastRound : Rows(h) # {} ~> h \in finalized
==============================================================================
