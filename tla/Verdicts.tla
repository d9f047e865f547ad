------------------------------ MODULE Verdicts -------------------------------
(***************************************************************************)
(* What the engine concludes from a game's scoring clicks: the checks of a *)
(* round (runChecks, checkLatency, checkTouch) and the standings of the    *)
(* game, which the database derives again from the rows it is given        *)
(* (RecordGame and the view game_standings).                               *)
(*                                                                         *)
(* The point is time.  The engine orders by the reader's own stamps, the   *)
(* rows and the checks by whole milliseconds since the arm, and touches    *)
(* are stamped from the start of the arming.  The clock counts ticks of    *)
(* which Milli make a millisecond; it stands still in the result display.  *)
(*                                                                         *)
(* The board is reduced to which ids are live (Board has it in full), a    *)
(* player's clicks come from one connection, and the checks that are off   *)
(* by default (metronome, straight_path) are left out.                     *)
(***************************************************************************)
EXTENDS Integers, FiniteSets, FiniteSetsExt, Sequences

CONSTANTS Player,         \* numbers, ordered like steam ids
          N,              \* the clicks that score in each round
          ButtonsOnScreen, ArmMin, ArmMax, RaceMax,  \* Config, in ticks
          FastClickMs, ReactionMinMs, DominantRunnerUpMin,
          FactorTenths,   \* Config.MaxClickFactor, in tenths
          RTT,            \* minRTTms of each player, 0 where there is none
          Milli,          \* ticks in a millisecond
          Lag,            \* bound: ticks from a reader's stamp to the engine
          MaxTouch        \* bound: touches in a window

ASSUME VerdictsAssumption ==
  /\ Player \subseteq Nat /\ N \in Seq(Nat \ {0}) /\ RTT \in [Player -> Nat]
  /\ {ButtonsOnScreen, ArmMin, ArmMax, RaceMax, FastClickMs, ReactionMinMs,
      FactorTenths, Milli} \subseteq Nat \ {0}
  /\ {DominantRunnerUpMin, Lag, MaxTouch} \subseteq Nat /\ ArmMin <= ArmMax

VARIABLES phase, round, now,
          windowAt,  \* Hub.windowAtNs: when the arming began
          armedAt,   \* race: when the window opened
          clicks,    \* board.scored with the button of board.log
          touch,     \* Client.touch: first touches, in ms since windowAt
          checks,    \* the round's RoundLog.Checks
          scores, reached,
          rows       \* round_scores, as game_standings groups them by player

vars == <<phase, round, now, windowAt, armedAt, clicks, touch, checks, scores, reached, rows>>
totals == <<scores, reached, rows>>

Ms(ticks) == ticks \div Milli
Button == 1..(ButtonsOnScreen + Max({N[r] : r \in DOMAIN N}))
Live == 1..(ButtonsOnScreen + Len(clicks)) \ {clicks[i].button : i \in DOMAIN clicks}

\* Whose clicks scored, which clicks are p's (positions in the order of arrival),
\* and which is its next after another.
Scorers    == {clicks[i].sid : i \in DOMAIN clicks}
Taken(p)   == {i \in DOMAIN clicks : clicks[i].sid = p}
Count(p)   == Cardinality(Taken(p))
Successive(i, j) ==
  /\ i < j /\ clicks[i].sid = clicks[j].sid
  /\ \A k \in i + 1 .. j - 1 : clicks[k].sid # clicks[i].sid

Init ==
  /\ phase = "arming" /\ round = 1 /\ now = 0
  /\ windowAt = 0 /\ armedAt = 0
  /\ clicks = <<>> /\ touch = [p \in Player |-> <<>>]
  /\ scores = [p \in Player |-> 0] /\ reached = [p \in Player |-> 0]
  /\ checks = {} /\ rows = [p \in Player |-> [points |-> 0, at |-> 0]]

Tick ==
  /\ \/ phase = "arming" /\ now < windowAt + ArmMax
     \/ phase = "armed" /\ now < armedAt + RaceMax
  /\ now' = now + 1
  /\ UNCHANGED <<phase, round, windowAt, armedAt, clicks, touch, checks, totals>>

Arm ==
  /\ phase = "arming" /\ now >= windowAt + ArmMin
  /\ phase' = "armed" /\ armedAt' = now
  /\ UNCHANGED <<round, now, windowAt, clicks, touch, checks, totals>>

\* readPump, "touch": the cursor enters a live button, for the first time.
Touch(p, b) ==
  /\ phase = "armed" /\ b \in Live /\ b \notin DOMAIN touch[p]
  /\ Cardinality(UNION {{q} \X DOMAIN touch[q] : q \in Player}) < MaxTouch
  /\ touch' = [touch EXCEPT ![p] =
       [x \in DOMAIN @ \cup {b} |-> IF x = b THEN Ms(now - windowAt) ELSE @[x]]]
  /\ UNCHANGED <<phase, round, now, windowAt, armedAt, clicks, checks, totals>>

\* board.offer takes a click, which its reader stamped a moment ago.
Score(p, b, at) ==
  /\ phase = "armed" /\ Len(clicks) < N[round] /\ b \in Live
  /\ at \in armedAt .. now
  /\ \A i \in DOMAIN clicks : clicks[i].sid = p => clicks[i].at <= at
  /\ clicks' = Append(clicks, [sid |-> p, at |-> at, button |-> b])
  /\ UNCHANGED <<phase, round, now, windowAt, armedAt, touch, checks, totals>>

-----------------------------------------------------------------------------
\* The checks read offsets: ScoredClick.OffsetMs, in order of arrival.
Offset(i) == Ms(clicks[i].at - armedAt)

\* Mutant: a gap of just FastClickMs counts as well.
FastClicksUpTo(p) ==
  \E i, j \in Taken(p) : Successive(i, j) /\ Offset(j) - Offset(i) <= FastClickMs

\* fast_clicks
FastClicks(p) ==
  \E i, j \in Taken(p) : Successive(i, j) /\ Offset(j) - Offset(i) < FastClickMs

\* fast_reaction
FastReaction(p) == Offset(Min(Taken(p))) < ReactionMinMs

\* too_many_clicks: its limit is 0 where there is nobody to share with.
Limit ==
  LET scorers == Cardinality(Scorers)
  IN  IF scorers < 2 THEN 0
      ELSE (FactorTenths * Max({1, N[round] \div scorers})) \div 10
TooManyClicks(p) == Limit > 0 /\ Count(p) > Limit

\* Mutant: who is overtaken is forgotten, instead of becoming the runner-up.
TopTwoForgetting(best, p) ==
  LET n == Count(p)
  IN  IF n > best.top THEN [sid |-> p, top |-> n, second |-> best.second]
      ELSE [best EXCEPT !.second = Max({@, n})]

\* One step of the search for the winner and the runner-up.
TopTwo(best, p) ==
  LET n == Count(p)
  IN  IF n > best.top THEN [sid |-> p, top |-> n, second |-> best.top]
      ELSE [best EXCEPT !.second = Max({@, n})]

\* dominant_winner: the search goes by who scored first.
DominantWinner(p) ==
  LET best[i \in 0 .. Len(clicks)] ==
        IF i = 0 THEN [sid |-> -1, top |-> 0, second |-> 0]
        ELSE IF i = Min(Taken(clicks[i].sid)) THEN TopTwo(best[i - 1], clicks[i].sid)
        ELSE best[i - 1]
      found == best[Len(clicks)]
  IN  /\ Cardinality(Scorers) >= 2 /\ found.second >= DominantRunnerUpMin
      /\ found.top > 2 * found.second /\ p = found.sid

\* checkLatency
ImpossibleLatency(p) == RTT[p] > 0 /\ Offset(Min(Taken(p))) < RTT[p]

\* checkTouch: the click's offset from the arm less the touch's from the arming.
Dwell(c) == Ms(c.at - armedAt) - touch[c.sid][c.button]
FastHover(p) ==
  \E i \in Taken(p) :
    /\ clicks[i].button \in DOMAIN touch[p]
    /\ Dwell(clicks[i]) \in 0 .. ReactionMinMs - 1

Check(type, Fires(_)) == {[sid |-> p, type |-> type] : p \in {q \in Scorers : Fires(q)}}
Checks ==
  UNION {Check("fast_clicks", FastClicks), Check("fast_reaction", FastReaction),
         Check("too_many_clicks", TooManyClicks), Check("dominant_winner", DominantWinner),
         Check("impossible_latency", ImpossibleLatency), Check("fast_hover", FastHover)}

-----------------------------------------------------------------------------
\* Mutant: the first click to score in the window stays.
ReachedFirst(p) == IF p \in Scorers THEN clicks[Min(Taken(p))].at ELSE reached[p]

\* race: the last click to score wins.
Reached(p) == IF p \in Scorers THEN clicks[Max(Taken(p))].at ELSE reached[p]

\* A player's rows of the window: COUNT(*) and MAX(armed_at + offset_ms).
RowsAfter(p) ==
  IF p \notin Scorers THEN rows[p]
  ELSE [points |-> rows[p].points + Count(p),
        at |-> Max({rows[p].at} \cup {armedAt + Milli * Offset(i) : i \in Taken(p)})]

\* The window closes: the scores, the checks and what RecordGame will store.
Close ==
  /\ phase = "armed" /\ (Len(clicks) = N[round] \/ now = armedAt + RaceMax)
  /\ phase' = IF round = Len(N) THEN "over" ELSE "result"
  /\ scores' = [p \in Player |-> scores[p] + Count(p)]
  /\ reached' = [p \in Player |-> Reached(p)]
  /\ checks' = Checks
  /\ rows' = [p \in Player |-> RowsAfter(p)]
  /\ UNCHANGED <<round, now, windowAt, armedAt, clicks, touch>>

\* The next round's arming: a new window origin, and touches are forgotten.
Pending ==
  /\ phase = "result"
  /\ phase' = "arming" /\ round' = round + 1 /\ windowAt' = now
  /\ clicks' = <<>> /\ touch' = [p \in Player |-> <<>>] /\ checks' = {}
  /\ UNCHANGED <<now, armedAt, totals>>

Next ==
  \/ Tick \/ Arm \/ Close \/ Pending
  \/ \E p \in Player, b \in Button :
       Touch(p, b) \/ \E at \in now - Lag .. now : Score(p, b, at)

Spec == Init /\ [][Next]_vars

-----------------------------------------------------------------------------
\* standingsOf: who ranks ahead of whom.
Ahead(p, q) ==
  \/ scores[p] > scores[q]
  \/ /\ scores[p] = scores[q]
     /\ reached[p] < reached[q] \/ (reached[p] = reached[q] /\ p < q)

\* The view game_standings.
Placed(p, q) ==
  \/ rows[p].points > rows[q].points
  \/ /\ rows[p].points = rows[q].points
     /\ rows[p].at < rows[q].at \/ (rows[p].at = rows[q].at /\ p < q)

(***************************************************************************)
(* Properties                                                              *)
(***************************************************************************)

\* The winner the engine announces and credits (game_over, AddSessionWin) is the
\* one the database derives from the rows, and so for every two players: only two
\* who reached the same points within the same millisecond may be swapped.
StandingsAgree ==
  phase = "over" =>
    \A p, q \in {x \in Player : scores[x] > 0} :
      p # q => \/ Ahead(p, q) <=> Placed(p, q)
               \/ /\ scores[p] = scores[q]
                  /\ reached[p] - reached[q] \in 1 - Milli .. Milli - 1

\* The speed checks, which read truncated offsets, accuse nobody who was slower
\* than the limit, and miss nobody who was faster by a millisecond.
FastMeansFast ==
  phase \in {"result", "over"} =>
    \A p \in Scorers :
      LET pairs == {ij \in Taken(p) \X Taken(p) : Successive(ij[1], ij[2])}
          gaps  == {clicks[ij[2]].at - clicks[ij[1]].at : ij \in pairs}
          first == clicks[Min(Taken(p))].at - armedAt
          Agrees(type, times, limit) ==
            LET fired == [sid |-> p, type |-> type] \in checks
            IN  /\ fired => \E t \in times : t < limit * Milli
                /\ (\E t \in times : t <= (limit - 1) * Milli) => fired
      IN  /\ Agrees("fast_clicks", gaps, FastClickMs)
          /\ Agrees("fast_reaction", {first}, ReactionMinMs)

\* dominant_winner names exactly the player, if there is one, that took more than
\* twice the clicks of everybody else while somebody competed.
DominantIsAlone ==
  phase \in {"result", "over"} =>
    \A p \in Scorers :
      LET others == Scorers \ {p}
      IN  [sid |-> p, type |-> "dominant_winner"] \in checks
            <=> /\ \A q \in others : Count(p) > 2 * Count(q)
                /\ \E q \in others : Count(q) >= DominantRunnerUpMin

\* "fast_hover: touch->click dwell below the human reaction floor" (engine.go,
\* checkTouch): who is accused of it clicked that soon after the touch.  The code
\* measures the click from the arm and the touch from the start of the arming.
HoverMeansFast ==
  \A p \in Player :
    [sid |-> p, type |-> "fast_hover"] \in checks =>
      \E i \in DOMAIN clicks :
        LET b == clicks[i].button
        IN  /\ clicks[i].sid = p /\ b \in DOMAIN touch[p]
            /\ clicks[i].at - (windowAt + Milli * touch[p][b]) <= Milli * ReactionMinMs
==============================================================================
