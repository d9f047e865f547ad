--------------------------- MODULE VerdictsProofs ----------------------------
(***************************************************************************)
(* Theorems about Verdicts, for any players, timings, thresholds and       *)
(* length of a millisecond in ticks: the engine's standings and the        *)
(* database's agree to within a millisecond, and the checks on speed and   *)
(* on dominance accuse exactly whom they say they accuse.                  *)
(***************************************************************************)
EXTENDS Verdicts, Extremes

Click == [sid : Player, at : Nat, button : Int]
Row   == [points : Nat, at : Nat]

Shapes ==
  /\ phase \in {"arming", "armed", "result", "over"}
  /\ now \in Nat /\ windowAt \in Nat /\ armedAt \in Nat
  /\ clicks \in Seq(Click)
  /\ scores \in [Player -> Nat] /\ reached \in [Player -> Nat]
  /\ rows \in [Player -> Row]

\* The window's clicks are stamped in it, and each player's in order.
InTime ==
  /\ phase = "arming" => clicks = <<>>
  /\ phase = "armed" => armedAt <= now
  /\ \A i \in DOMAIN clicks : armedAt <= clicks[i].at /\ clicks[i].at <= now
  /\ \A i, j \in DOMAIN clicks :
       i < j /\ clicks[i].sid = clicks[j].sid => clicks[i].at <= clicks[j].at

\* What the database adds up is what the engine did, and it knows when a player
\* reached its score to within a millisecond; of an earlier window, all of it.
TotalsAgree ==
  \A p \in Player :
    /\ scores[p] = rows[p].points
    /\ scores[p] > 0 => rows[p].at <= reached[p] /\ reached[p] < rows[p].at + Milli
    /\ rows[p].at <= now /\ (phase = "armed" => rows[p].at <= armedAt)

\* Who took more than twice the clicks of everybody else while somebody competed.
Alone(p) ==
  LET others == Scorers \ {p}
  IN  /\ \A q \in others : Count(p) > 2 * Count(q)
      /\ \E q \in others : Count(q) >= DominantRunnerUpMin

\* The round's verdicts stay what its clicks say until they are forgotten.
ChecksStand ==
  phase \in {"result", "over"} =>
    \A p \in Scorers :
      /\ [sid |-> p, type |-> "fast_clicks"] \in checks <=> FastClicks(p)
      /\ [sid |-> p, type |-> "fast_reaction"] \in checks <=> FastReaction(p)
      /\ [sid |-> p, type |-> "dominant_winner"] \in checks <=> Alone(p)

\* The inductive invariant.
VerdictsInv == Shapes /\ InTime /\ TotalsAgree /\ ChecksStand

-----------------------------------------------------------------------------
(* Milliseconds.                                                           *)

LEMMA Positive == Milli \in Nat \ {0} /\ Player \subseteq Nat /\ ReactionMinMs \in Nat
                  /\ FastClickMs \in Nat /\ DominantRunnerUpMin \in Nat
BY VerdictsAssumption DEF VerdictsAssumption

\* A product grows with its factor.
LEMMA ProductGrows ==
  ASSUME NEW m \in Nat, NEW u \in Int, NEW v \in Int, u <= v
  PROVE  m * u <= m * v
OBVIOUS

\* Truncation takes off less than a millisecond.
LEMMA MsBounds ==
  ASSUME NEW x \in Nat
  PROVE  Ms(x) \in Nat /\ Milli * Ms(x) <= x /\ x < Milli * Ms(x) + Milli
BY Positive DEF Ms

\* Truncation keeps order.
LEMMA MsGrows ==
  ASSUME NEW x \in Nat, NEW y \in Nat, x <= y
  PROVE  Ms(x) <= Ms(y)
<1> DEFINE a == Ms(x)
           b == Ms(y)
           m == Milli
<1>1. /\ a \in Nat /\ m * a <= x /\ b \in Nat /\ y < m * b + m /\ m \in Nat
  BY MsBounds, Positive
<1> HIDE DEF a, b, m
<1>2. ASSUME b + 1 <= a PROVE FALSE
  <2>1. m * (b + 1) <= m * a
    BY <1>1, <1>2, ProductGrows
  <2>2. m * (b + 1) = m * b + m
    BY <1>1
  <2> QED BY <1>1, <2>1, <2>2
<1> QED BY <1>1, <1>2 DEF a, b

\* What a difference of truncated offsets says of the offsets, and the converse.
LEMMA MsDifference ==
  ASSUME NEW x \in Nat, NEW y \in Nat, NEW limit \in Nat
  PROVE  /\ Ms(y) - Ms(x) < limit => y - x < limit * Milli
         /\ y - x <= (limit - 1) * Milli => Ms(y) - Ms(x) < limit
<1> DEFINE a == Ms(x)
           b == Ms(y)
           m == Milli
<1>1. /\ a \in Nat /\ m * a <= x /\ x < m * a + m
      /\ b \in Nat /\ m * b <= y /\ y < m * b + m
      /\ m \in Nat
  BY MsBounds, Positive
<1> HIDE DEF a, b, m
<1>2. ASSUME b - a < limit PROVE y - x < limit * m
  <2>1. b - a + 1 <= limit /\ b - a + 1 \in Int
    BY <1>1, <1>2
  <2>2. m * (b - a + 1) <= m * limit
    BY <1>1, <2>1, ProductGrows
  <2>3. m * (b - a + 1) = m * b - m * a + m
    BY <1>1
  <2> QED BY <1>1, <2>2, <2>3
<1>3. ASSUME y - x <= (limit - 1) * m, ~(b - a < limit) PROVE FALSE
  <2>1. limit <= b - a /\ b - a \in Int
    BY <1>1, <1>3
  <2>2. m * limit <= m * (b - a)
    BY <1>1, <2>1, ProductGrows
  <2>3. m * (b - a) = m * b - m * a /\ (limit - 1) * m = m * limit - m
    BY <1>1
  <2> QED BY <1>1, <1>3, <2>2, <2>3
<1> QED BY <1>2, <1>3 DEF a, b, m

-----------------------------------------------------------------------------
(* A player's clicks.                                                      *)

\* They are finitely many positions in the order of arrival.
LEMMA TakenFacts ==
  ASSUME clicks \in Seq(Click), NEW p
  PROVE  /\ Taken(p) \in SUBSET Nat /\ IsFiniteSet(Taken(p))
         /\ \A i \in Taken(p) : i \in DOMAIN clicks /\ clicks[i].sid = p
         /\ p \in Scorers <=> Taken(p) # {}
         /\ Count(p) \in Nat /\ (Count(p) > 0 <=> p \in Scorers)
<1>1. DOMAIN clicks = 1..Len(clicks) /\ Len(clicks) \in Nat
  OBVIOUS
<1>2. IsFiniteSet(1..Len(clicks))
  BY <1>1, FS_Interval
<1>3. Taken(p) \in SUBSET (1..Len(clicks))
  BY <1>1 DEF Taken
<1>4. IsFiniteSet(Taken(p))
  BY <1>2, <1>3, FS_Subset
<1>5. Taken(p) \in SUBSET Nat
  BY <1>3
<1>6. p \in Scorers <=> Taken(p) # {}
  BY DEF Taken, Scorers
<1>7. Count(p) \in Nat /\ (Count(p) = 0 <=> Taken(p) = {})
  BY <1>4, FS_CardinalityType, FS_EmptySet DEF Count
<1>8. \A i \in Taken(p) : i \in DOMAIN clicks /\ clicks[i].sid = p
  BY DEF Taken
<1> QED BY <1>4, <1>5, <1>6, <1>7, <1>8

\* Who scored has a first click and a last one.
LEMMA FirstAndLast ==
  ASSUME clicks \in Seq(Click), NEW p \in Scorers
  PROVE  /\ Min(Taken(p)) \in Taken(p) /\ \A i \in Taken(p) : Min(Taken(p)) <= i
         /\ Max(Taken(p)) \in Taken(p) /\ \A i \in Taken(p) : i <= Max(Taken(p))
BY TakenFacts, MinIsLeast, MaxIsGreatest

\* The players who scored are players, and finitely many.
LEMMA ScorersFinite ==
  ASSUME clicks \in Seq(Click)
  PROVE  Scorers \subseteq Player /\ IsFiniteSet(Scorers)
<1> DEFINE sids == [i \in DOMAIN clicks |-> clicks[i].sid]
<1>1. DOMAIN clicks = 1..Len(clicks) /\ Len(clicks) \in Nat
  OBVIOUS
<1>2. IsFiniteSet(DOMAIN clicks)
  BY <1>1, FS_Interval
<1>3. Scorers \subseteq Player
  <2>1. \A i \in DOMAIN clicks : clicks[i] \in Click
    OBVIOUS
  <2> QED BY <2>1 DEF Scorers, Click
<1>4. sids \in Surjection(DOMAIN clicks, Scorers)
  BY DEF Scorers, Surjection
<1> QED BY <1>2, <1>3, <1>4, FS_Surjection

\* A click counts from the arm.
LEMMA OffsetFacts ==
  ASSUME Shapes, InTime, NEW i \in DOMAIN clicks
  PROVE  clicks[i].at - armedAt \in Nat /\ Offset(i) = Ms(clicks[i].at - armedAt)
<1>1. clicks[i] \in Click
  BY DEF Shapes
<1>2. clicks[i].at \in Nat /\ armedAt \in Nat
  BY <1>1 DEF Click, Shapes
<1>3. armedAt <= clicks[i].at
  BY DEF InTime
<1> QED BY <1>2, <1>3 DEF Offset

\* Who is accused of what.
LEMMA Accused ==
  ASSUME NEW p \in Scorers
  PROVE  /\ [sid |-> p, type |-> "fast_clicks"] \in Checks <=> FastClicks(p)
         /\ [sid |-> p, type |-> "fast_reaction"] \in Checks <=> FastReaction(p)
         /\ [sid |-> p, type |-> "dominant_winner"] \in Checks <=> DominantWinner(p)
<1> DEFINE named(t, S) == {[sid |-> q, type |-> t] : q \in S}
           fast == {q \in Scorers : FastClicks(q)}
           react == {q \in Scorers : FastReaction(q)}
           many == {q \in Scorers : TooManyClicks(q)}
           wins == {q \in Scorers : DominantWinner(q)}
           latent == {q \in Scorers : ImpossibleLatency(q)}
           hover == {q \in Scorers : FastHover(q)}
<1>1. Checks = UNION {named("fast_clicks", fast), named("fast_reaction", react),
                      named("too_many_clicks", many), named("dominant_winner", wins),
                      named("impossible_latency", latent), named("fast_hover", hover)}
  BY DEF Checks, Check
<1>2. (p \in fast <=> FastClicks(p)) /\ (p \in react <=> FastReaction(p))
      /\ (p \in wins <=> DominantWinner(p))
  OBVIOUS
<1> HIDE DEF fast, react, many, wins, latent, hover
<1>3. \A t, u, S : [sid |-> p, type |-> t] \in named(u, S) <=> t = u /\ p \in S
  OBVIOUS
<1> HIDE DEF named
<1>4. \A t : [sid |-> p, type |-> t] \in Checks
               <=> \/ t = "fast_clicks" /\ p \in fast
                   \/ t = "fast_reaction" /\ p \in react
                   \/ t = "too_many_clicks" /\ p \in many
                   \/ t = "dominant_winner" /\ p \in wins
                   \/ t = "impossible_latency" /\ p \in latent
                   \/ t = "fast_hover" /\ p \in hover
  BY <1>1, <1>3
<1> QED BY <1>2, <1>4

-----------------------------------------------------------------------------
(***************************************************************************)
(* The search for the winner and the runner-up.                            *)
(***************************************************************************)

Nobody == [sid |-> -1, top |-> 0, second |-> 0]
Best   == [sid : Int, top : Nat, second : Nat]

\* One click of the search: only a player's first one counts.
Searched(best, i) ==
  IF i = Min(Taken(clicks[i].sid)) THEN TopTwo(best, clicks[i].sid) ELSE best

\* f lists what the search has found on the way through the clicks.
Searches(f) ==
  /\ f[0] = Nobody /\ \A i \in 1..Len(clicks) : f[i] = Searched(f[i - 1], i)
  /\ \A i \in 0..Len(clicks) : f[i] \in Best

\* The greater of two counts.
LEMMA MaxOfTwo ==
  ASSUME NEW a \in Nat, NEW b \in Nat
  PROVE  /\ Max({a, b}) \in Nat /\ a <= Max({a, b}) /\ b <= Max({a, b})
         /\ Max({a, b}) = a \/ Max({a, b}) = b
<1> DEFINE S == {a, b}
<1>1. \E x \in S : \A y \in S : x >= y
  <2>1. CASE a >= b
    BY <2>1
  <2>2. CASE b >= a
    BY <2>2
  <2> QED BY <2>1, <2>2
<1>2. Max(S) \in S /\ \A y \in S : Max(S) >= y
  <2> HIDE DEF S
  <2> QED BY <1>1 DEF Max
<1> QED BY <1>2

\* What one step of the search finds.
LEMMA TopTwoFinds ==
  ASSUME clicks \in Seq(Click), NEW b \in Best, NEW p \in Player
  PROVE  /\ TopTwo(b, p) \in Best
         /\ Count(p) > b.top => TopTwo(b, p) = [sid |-> p, top |-> Count(p), second |-> b.top]
         /\ ~(Count(p) > b.top) =>
              /\ TopTwo(b, p).sid = b.sid /\ TopTwo(b, p).top = b.top
              /\ b.second <= TopTwo(b, p).second /\ Count(p) <= TopTwo(b, p).second
              /\ TopTwo(b, p).second = b.second \/ TopTwo(b, p).second = Count(p)
<1> DEFINE n == Count(p)
           m == Max({b.second, n})
<1>1. n \in Nat /\ b.second \in Nat /\ b.top \in Nat /\ b.sid \in Int /\ p \in Int
  BY TakenFacts, Positive DEF Best
<1>2. m \in Nat /\ b.second <= m /\ n <= m /\ (m = b.second \/ m = n)
  BY <1>1, MaxOfTwo
<1>3. TopTwo(b, p) = IF n > b.top THEN [sid |-> p, top |-> n, second |-> b.top]
                     ELSE [b EXCEPT !.second = m]
  BY DEF TopTwo
<1> HIDE DEF n, m
<1>4. CASE n > b.top
  BY <1>1, <1>3, <1>4 DEF Best, n
<1>5. CASE ~(n > b.top)
  BY <1>1, <1>2, <1>3, <1>5 DEF Best, n
<1> QED BY <1>4, <1>5

\* The recursion in DominantWinner has a solution, which goes click by click.
LEMMA SearchGoesOn ==
  ASSUME clicks \in Seq(Click)
  PROVE  \E f : /\ Searches(f)
               /\ \A p : DominantWinner(p) <=>
                    /\ Cardinality(Scorers) >= 2
                    /\ f[Len(clicks)].second >= DominantRunnerUpMin
                    /\ f[Len(clicks)].top > 2 * f[Len(clicks)].second
                    /\ p = f[Len(clicks)].sid
<1> DEFINE K == Len(clicks)
           G == [x \in (1..K) \X Best |-> Searched(x[2], x[1])]
           F(f) == [i \in 0..K |-> IF i = 0 THEN Nobody
                                  ELSE IF i = Min(Taken(clicks[i].sid))
                                       THEN TopTwo(f[i - 1], clicks[i].sid)
                                  ELSE f[i - 1]]
           h == CHOOSE f : f = F(f)
<1>1. K \in Nat /\ Nobody \in Best /\ \A i \in 1..K : clicks[i].sid \in Player
  <2>1. \A i \in 1..K : clicks[i] \in Click
    OBVIOUS
  <2> QED BY <2>1 DEF Click, Nobody, Best
<1>2. ASSUME NEW i \in 1..K, NEW b \in Best PROVE Searched(b, i) \in Best
  BY <1>1, TopTwoFinds DEF Searched
<1> HIDE DEF K
<1>3. G \in [(1..K) \X Best -> Best] /\ \A i \in 1..K, b \in Best : G[<<i, b>>] = Searched(b, i)
  BY <1>2
<1> HIDE DEF G
<1>4. PICK f : Follows(f, Best, Nobody, K, G)
  BY <1>1, <1>3, StepwiseExists
<1>5. f = F(f)
  <2>1. ASSUME NEW i \in 1..K PROVE f[i] = Searched(f[i - 1], i)
    <3>1. i - 1 \in 0..K
      BY <1>1
    <3>2. f[i - 1] \in Best
      BY <1>4, <3>1 DEF Follows
    <3> QED BY <1>3, <1>4, <3>2 DEF Follows
  <2>2. \A i \in 0..K : i # 0 => i \in 1..K
    BY <1>1
  <2> QED BY <1>4, <2>1, <2>2 DEF Follows, Searched
<1>6. h = F(h)
  <2> HIDE DEF F
  <2> QED BY <1>5
<1>7. \A p : DominantWinner(p) <=> /\ Cardinality(Scorers) >= 2
                                  /\ h[K].second >= DominantRunnerUpMin
                                  /\ h[K].top > 2 * h[K].second
                                  /\ p = h[K].sid
  BY DEF DominantWinner, K, Nobody
<1> HIDE DEF h
<1>8. h[0] = Nobody /\ \A i \in 1..K : h[i] = Searched(h[i - 1], i)
  BY <1>1, <1>6 DEF Searched
<1> DEFINE Good == {i \in 0..K : h[i] \in Best}
<1>9. 0..K \subseteq Good
  <2>1. 0 \in Good
    BY <1>1, <1>8
  <2>2. ASSUME NEW i \in 1..K, i - 1 \in Good PROVE i \in Good
    <3>1. i \in 0..K /\ h[i - 1] \in Best
      BY <1>1, <2>2
    <3> QED BY <1>2, <1>8, <3>1
  <2> HIDE DEF Good
  <2> QED BY <1>1, <2>1, <2>2, UpTo
<1>10. Searches(h)
  BY <1>8, <1>9 DEF Searches, K
<1> QED BY <1>7, <1>10 DEF K

\* Who has been come by in the first i clicks.
Seen(i) == {clicks[j].sid : j \in 1..i}

\* b is the best of them, and its runner-up.
Leads(b, i) ==
  /\ i = 0 => b = Nobody
  /\ i > 0 => b.sid \in Seen(i) /\ b.top = Count(b.sid)
  /\ \A q \in Seen(i) : Count(q) <= b.top
  /\ \A q \in Seen(i) \ {b.sid} : Count(q) <= b.second
  /\ b.second = 0 \/ \E q \in Seen(i) \ {b.sid} : b.second = Count(q)

\* Each click of the search keeps it that way.
LEMMA SearchLeads ==
  ASSUME clicks \in Seq(Click), NEW i \in 1..Len(clicks), NEW b \in Best, Leads(b, i - 1)
  PROVE  Leads(Searched(b, i), i)
<1> DEFINE s == clicks[i].sid
           c == Searched(b, i)
<1> SUFFICES Leads(c, i)
  OBVIOUS
<1>1. /\ i \in DOMAIN clicks /\ i \in Nat /\ i - 1 \in Nat /\ i > 0 /\ s \in Scorers /\ s \in Player
      /\ i \in Taken(s)
  <2>1. i \in DOMAIN clicks /\ clicks[i] \in Click
    OBVIOUS
  <2> QED BY <2>1 DEF Scorers, Taken, Click
<1>2. Seen(i) = Seen(i - 1) \cup {s}
  <2>1. 1..i = 1..(i - 1) \cup {i}
    BY <1>1
  <2> QED BY <2>1 DEF Seen
<1>3. Count(s) \in Nat /\ Count(s) > 0 /\ \A q : Count(q) \in Nat
  BY <1>1, TakenFacts
<1>4. \A q \in Seen(i - 1) : i - 1 > 0
  BY <1>1 DEF Seen
<1>5. b.top \in Nat /\ b.second \in Nat
  BY DEF Best
<1>6. i - 1 = 0 => b = Nobody /\ b.top = 0 /\ b.second = 0
  BY DEF Leads, Nobody
<1>7. CASE i = Min(Taken(s))
  <2>1. s \notin Seen(i - 1)
    <3>1. ASSUME NEW j \in 1..(i - 1), clicks[j].sid = s PROVE FALSE
      <4>1. j \in Taken(s) /\ j < i
        BY <1>1, <3>1 DEF Taken
      <4>2. i <= j
        BY <1>1, <1>7, <4>1, FirstAndLast
      <4> QED BY <1>1, <4>1, <4>2
    <3> QED BY <3>1 DEF Seen
  <2>2. c = TopTwo(b, s)
    BY <1>7 DEF Searched
  <2> HIDE DEF c, s
  <2>3. CASE Count(s) > b.top
    <3>1. c.sid = s /\ c.top = Count(s) /\ c.second = b.top
      BY <1>1, <2>2, <2>3, TopTwoFinds
    <3>2. \A q \in Seen(i) : q = s \/ Count(q) <= b.top
      BY <1>2 DEF Leads
    <3>3. \A q \in Seen(i) : Count(q) <= c.top
      BY <1>3, <1>5, <2>3, <3>1, <3>2
    <3>4. c.second = 0 \/ \E q \in Seen(i) \ {c.sid} : c.second = Count(q)
      <4>1. CASE i - 1 = 0
        BY <1>6, <3>1, <4>1
      <4>2. CASE i - 1 > 0
        <5>1. b.sid \in Seen(i - 1) /\ b.top = Count(b.sid)
          BY <4>2 DEF Leads
        <5> QED BY <1>2, <2>1, <3>1, <5>1
      <4> QED BY <1>1, <4>1, <4>2
    <3> QED BY <1>1, <1>2, <3>1, <3>2, <3>3, <3>4 DEF Leads
  <2>4. CASE ~(Count(s) > b.top)
    <3>1. /\ c.sid = b.sid /\ c.top = b.top
          /\ b.second <= c.second /\ Count(s) <= c.second /\ c.second \in Nat
          /\ c.second = b.second \/ c.second = Count(s)
      BY <1>1, <2>2, <2>4, TopTwoFinds DEF Best
    <3>2. i - 1 > 0
      BY <1>1, <1>3, <1>6, <2>4
    <3>3. b.sid \in Seen(i - 1) /\ b.top = Count(b.sid)
      BY <3>2 DEF Leads
    <3>4. \A q \in Seen(i) : Count(q) <= c.top
      BY <1>2, <1>3, <1>5, <2>4, <3>1 DEF Leads
    <3>5. \A q \in Seen(i) \ {c.sid} : Count(q) <= c.second
      <4>1. ASSUME NEW q \in Seen(i) \ {c.sid} PROVE Count(q) <= c.second
        <5>1. CASE q = s
          BY <3>1, <5>1
        <5>2. CASE q # s
          <6>1. q \in Seen(i - 1) \ {b.sid}
            BY <1>2, <3>1, <4>1, <5>2
          <6>2. Count(q) <= b.second
            BY <6>1 DEF Leads
          <6> QED BY <1>3, <1>5, <3>1, <6>2
        <5> QED BY <5>1, <5>2
      <4> QED BY <4>1
    <3>6. c.second = 0 \/ \E q \in Seen(i) \ {c.sid} : c.second = Count(q)
      <4>1. CASE c.second = Count(s)
        BY <1>2, <2>1, <3>1, <3>3, <4>1
      <4>2. CASE c.second = b.second
        BY <1>2, <3>1, <4>2 DEF Leads
      <4> QED BY <3>1, <4>1, <4>2
    <3> QED BY <1>1, <1>2, <3>1, <3>3, <3>4, <3>5, <3>6 DEF Leads
  <2> QED BY <2>3, <2>4
<1>8. CASE i # Min(Taken(s))
  <2>1. c = b
    BY <1>8 DEF Searched
  <2>2. Min(Taken(s)) \in 1..(i - 1) /\ clicks[Min(Taken(s))].sid = s
    <3>1. Min(Taken(s)) \in Taken(s) /\ Min(Taken(s)) <= i /\ Taken(s) \in SUBSET Nat
      BY <1>1, FirstAndLast, TakenFacts
    <3>2. Min(Taken(s)) \in DOMAIN clicks /\ clicks[Min(Taken(s))].sid = s
      BY <3>1, TakenFacts
    <3>3. DOMAIN clicks = 1..Len(clicks) /\ Len(clicks) \in Nat
      OBVIOUS
    <3> HIDE DEF s
    <3> QED BY <1>1, <1>8, <3>1, <3>2, <3>3
  <2>3. s \in Seen(i - 1)
    BY <2>2 DEF Seen
  <2>4. Seen(i) = Seen(i - 1) /\ i - 1 > 0
    BY <1>2, <1>4, <2>3
  <2> HIDE DEF c, s
  <2> QED BY <1>1, <2>1, <2>4 DEF Leads
<1> QED BY <1>7, <1>8

\* Somebody else scored exactly if two did.
LEMMA TwoScored ==
  ASSUME clicks \in Seq(Click), NEW p \in Scorers
  PROVE  Cardinality(Scorers) >= 2 <=> Scorers \ {p} # {}
<1> DEFINE S == Scorers
           T == Scorers \ {p}
<1>1. IsFiniteSet(S) /\ p \in S
  BY ScorersFinite
<1>2. IsFiniteSet(T) /\ Cardinality(T) = Cardinality(S) - 1
  BY <1>1, FS_RemoveElement
<1>3. Cardinality(S) \in Nat /\ Cardinality(T) \in Nat
  BY <1>1, <1>2, FS_CardinalityType
<1>4. Cardinality(T) = 0 <=> T = {}
  BY <1>2, FS_EmptySet
<1> HIDE DEF S, T
<1>5. Cardinality(S) >= 2 <=> T # {}
  BY <1>2, <1>3, <1>4
<1> QED BY <1>5 DEF S, T

\* What the search says of a player who scored.
LEMMA WinnerIsAlone ==
  ASSUME clicks \in Seq(Click), NEW p \in Scorers
  PROVE  DominantWinner(p) <=> Alone(p)
<1> DEFINE K == Len(clicks)
<1>1. PICK f : /\ Searches(f)
               /\ \A x : DominantWinner(x) <=>
                    /\ Cardinality(Scorers) >= 2
                    /\ f[K].second >= DominantRunnerUpMin
                    /\ f[K].top > 2 * f[K].second
                    /\ x = f[K].sid
  BY SearchGoesOn
<1>2. K \in Nat /\ DOMAIN clicks = 1..K /\ K > 0
  BY DEF Scorers
<1> DEFINE Good == {i \in 0..K : Leads(f[i], i)}
<1>3. 0..K \subseteq Good
  <2>1. 0 \in Good
    <3>1. Leads(Nobody, 0)
      BY DEF Leads, Nobody, Seen
    <3> QED BY <1>1, <1>2, <3>1 DEF Searches
  <2>2. ASSUME NEW i \in 1..K, i - 1 \in Good PROVE i \in Good
    <3>1. i \in 0..K /\ i - 1 \in 0..K
      BY <1>2
    <3>2. f[i - 1] \in Best /\ f[i] = Searched(f[i - 1], i)
      BY <1>1, <3>1 DEF Searches
    <3>3. Leads(f[i], i)
      BY <2>2, <3>2, SearchLeads
    <3> QED BY <3>1, <3>3
  <2> HIDE DEF Good, K
  <2> QED BY <1>2, <2>1, <2>2, UpTo
<1> DEFINE b == f[K]
<1>4. b \in Best /\ Leads(b, K)
  <2>1. K \in 0..K
    BY <1>2
  <2> QED BY <1>1, <1>3, <2>1 DEF Searches
<1>5. Seen(K) = Scorers
  BY <1>2 DEF Seen, Scorers
<1> HIDE DEF K
<1>6. DominantWinner(p) <=> /\ Cardinality(Scorers) >= 2
                            /\ b.second >= DominantRunnerUpMin
                            /\ b.top > 2 * b.second /\ p = b.sid
  BY <1>1
<1> HIDE DEF b
<1>7. /\ b.sid \in Scorers /\ b.top = Count(b.sid) /\ b.top \in Nat /\ b.second \in Nat
      /\ \A q \in Scorers : Count(q) <= b.top
      /\ \A q \in Scorers \ {b.sid} : Count(q) <= b.second
      /\ b.second = 0 \/ \E q \in Scorers \ {b.sid} : b.second = Count(q)
  BY <1>2, <1>4, <1>5 DEF Leads, Best
<1>8. \A q \in Scorers : Count(q) \in Nat /\ Count(q) > 0
  BY TakenFacts
<1>9. DominantRunnerUpMin \in Nat
  BY Positive
<1>10. ASSUME DominantWinner(p)
       PROVE  /\ \A q \in Scorers \ {p} : Count(p) > 2 * Count(q)
              /\ \E q \in Scorers \ {p} : Count(q) >= DominantRunnerUpMin
  <2>1. /\ p = b.sid /\ b.top > 2 * b.second /\ b.second >= DominantRunnerUpMin
        /\ Scorers \ {p} # {}
    BY <1>6, <1>10, TwoScored
  <2>2. \A q \in Scorers \ {p} : Count(p) > 2 * Count(q)
    BY <1>7, <1>8, <2>1
  <2>3. b.second # 0
    BY <1>7, <1>8, <2>1
  <2> QED BY <1>7, <2>1, <2>2, <2>3
<1>11. ASSUME \A q \in Scorers \ {p} : Count(p) > 2 * Count(q),
              NEW r \in Scorers \ {p}, Count(r) >= DominantRunnerUpMin
       PROVE  DominantWinner(p)
  <2>1. p = b.sid
    BY <1>7, <1>8, <1>11
  <2>2. b.second >= DominantRunnerUpMin
    BY <1>7, <1>8, <1>9, <1>11, <2>1
  <2>3. b.top > 2 * b.second
    BY <1>7, <1>8, <1>11, <2>1
  <2>4. Cardinality(Scorers) >= 2
    BY TwoScored
  <2> QED BY <1>6, <2>1, <2>2, <2>3, <2>4
<1> QED BY <1>10, <1>11 DEF Alone

-----------------------------------------------------------------------------
(***************************************************************************)
(* The totals.                                                             *)
(***************************************************************************)

\* When a window closes, the engine takes a scorer's last click; the database
\* takes the latest of its rows, which is the same one, truncated.
LEMMA LastClick ==
  ASSUME Shapes, InTime, TotalsAgree, phase = "armed", NEW p \in Scorers
  PROVE  /\ Reached(p) \in Nat /\ RowsAfter(p).at \in Nat
         /\ RowsAfter(p).at <= Reached(p) /\ Reached(p) < RowsAfter(p).at + Milli
         /\ RowsAfter(p).at <= now
<1> DEFINE l == Max(Taken(p))
           x == clicks[l].at - armedAt
           ats == {rows[p].at} \cup {armedAt + Milli * Offset(i) : i \in Taken(p)}
           last == armedAt + Milli * Ms(x)
<1>1. /\ p \in Player /\ armedAt \in Nat /\ now \in Nat
      /\ rows[p].at \in Nat /\ rows[p].at <= armedAt
  BY ScorersFinite DEF Shapes, TotalsAgree, Row
<1>2. /\ Taken(p) \in SUBSET Nat /\ IsFiniteSet(Taken(p)) /\ l \in Taken(p)
      /\ \A i \in Taken(p) : i <= l /\ i \in DOMAIN clicks /\ clicks[i].sid = p
  BY TakenFacts, FirstAndLast DEF Shapes
<1>3. \A i \in Taken(p) : /\ clicks[i].at - armedAt \in Nat
                          /\ Offset(i) = Ms(clicks[i].at - armedAt)
  BY <1>2, OffsetFacts
<1>4. \A i \in Taken(p) : clicks[i].at \in Nat /\ clicks[i].at <= now
  <2>1. \A i \in Taken(p) : clicks[i] \in Click
    BY <1>2 DEF Shapes
  <2> QED BY <1>2, <2>1 DEF InTime, Click
<1>5. \A i \in Taken(p) : clicks[i].at <= clicks[l].at
  <2>1. ASSUME NEW i \in Taken(p) PROVE clicks[i].at <= clicks[l].at
    <3>1. i = l \/ i < l
      BY <1>2
    <3>2. clicks[i].at \in Nat
      BY <1>4
    <3> HIDE DEF l
    <3> QED BY <1>2, <3>1, <3>2 DEF InTime
  <2> QED BY <2>1
<1> HIDE DEF l
<1>6. x \in Nat /\ Ms(x) \in Nat /\ Milli * Ms(x) <= x /\ x < Milli * Ms(x) + Milli /\ Milli \in Nat
  BY <1>2, <1>3, MsBounds, Positive
<1>7. last \in ats /\ last \in Nat /\ armedAt <= last
  <2>1. last = armedAt + Milli * Offset(l)
    BY <1>2, <1>3
  <2>2. Milli * Ms(x) \in Nat
    BY <1>6
  <2> HIDE DEF x
  <2> QED BY <1>1, <1>2, <2>1, <2>2
<1>8. ASSUME NEW i \in Taken(p)
      PROVE  armedAt + Milli * Offset(i) \in Nat /\ armedAt + Milli * Offset(i) <= last
  <2> DEFINE y == clicks[i].at - armedAt
  <2>1. y \in Nat /\ y <= x /\ Offset(i) = Ms(y)
    BY <1>1, <1>2, <1>3, <1>4, <1>5
  <2> HIDE DEF x, y
  <2>2. Ms(y) \in Nat /\ Ms(y) <= Ms(x)
    BY <1>6, <2>1, MsBounds, MsGrows
  <2>3. Milli * Ms(y) <= Milli * Ms(x) /\ Milli * Ms(y) \in Nat
    BY <1>6, <2>2, ProductGrows
  <2> QED BY <1>1, <1>6, <2>1, <2>3
<1>9. ats \in SUBSET Nat /\ \A a \in ats : a <= last
  BY <1>1, <1>7, <1>8
<1>10. Max(ats) = last
  <2> HIDE DEF ats, last
  <2>1. \A a \in ats : last >= a
    BY <1>7, <1>9
  <2>2. Max(ats) \in ats /\ \A a \in ats : Max(ats) >= a
    BY <1>7, <2>1 DEF Max
  <2>3. Max(ats) \in Nat /\ Max(ats) <= last /\ Max(ats) >= last
    BY <1>7, <1>9, <2>2
  <2> QED BY <1>7, <2>3
<1>11. RowsAfter(p).at = last /\ Reached(p) = armedAt + x
  <2>1. RowsAfter(p).at = Max(ats)
    BY DEF RowsAfter
  <2>2. Reached(p) = clicks[l].at
    BY DEF Reached, l
  <2> QED BY <1>1, <1>2, <1>4, <1>10, <2>1, <2>2
<1>12. armedAt + x <= now
  BY <1>1, <1>2, <1>4
<1> DEFINE whole == Milli * Ms(x)
<1>13. /\ whole <= x /\ x < whole + Milli /\ last = armedAt + whole
       /\ whole \in Int /\ x \in Nat /\ Milli \in Nat
  BY <1>6
<1> HIDE DEF x, whole, last, ats
<1> QED BY <1>1, <1>7, <1>11, <1>12, <1>13

\* Closing keeps the totals in agreement.
LEMMA CloseAgrees ==
  ASSUME Shapes, InTime, TotalsAgree, Close
  PROVE  /\ scores' \in [Player -> Nat] /\ reached' \in [Player -> Nat]
         /\ rows' \in [Player -> Row] /\ TotalsAgree'
<1>1. /\ phase = "armed" /\ phase' \in {"over", "result"} /\ now' = now
      /\ scores' = [p \in Player |-> scores[p] + Count(p)]
      /\ reached' = [p \in Player |-> Reached(p)]
      /\ rows' = [p \in Player |-> RowsAfter(p)]
  BY DEF Close
<1>2. ASSUME NEW p \in Player
      PROVE  /\ scores'[p] \in Nat /\ Reached(p) \in Nat /\ RowsAfter(p) \in Row
             /\ scores'[p] = RowsAfter(p).points
             /\ scores'[p] > 0 => /\ RowsAfter(p).at <= Reached(p)
                                  /\ Reached(p) < RowsAfter(p).at + Milli
             /\ RowsAfter(p).at <= now
  <2>1. /\ scores[p] \in Nat /\ reached[p] \in Nat /\ rows[p] \in Row
        /\ rows[p].points \in Nat /\ rows[p].at \in Nat
        /\ scores[p] = rows[p].points /\ rows[p].at <= now
        /\ scores[p] > 0 => rows[p].at <= reached[p] /\ reached[p] < rows[p].at + Milli
    BY DEF Shapes, TotalsAgree, Row
  <2>2. Count(p) \in Nat /\ (Count(p) > 0 <=> p \in Scorers)
    BY TakenFacts DEF Shapes
  <2>3. CASE p \in Scorers
    <3>1. /\ RowsAfter(p).points = rows[p].points + Count(p)
          /\ RowsAfter(p) = [points |-> RowsAfter(p).points, at |-> RowsAfter(p).at]
      BY <2>3 DEF RowsAfter
    <3>2. /\ Reached(p) \in Nat /\ RowsAfter(p).at \in Nat
          /\ RowsAfter(p).at <= Reached(p) /\ Reached(p) < RowsAfter(p).at + Milli
          /\ RowsAfter(p).at <= now
      BY <1>1, <2>3, LastClick
    <3>3. RowsAfter(p) \in Row
      BY <2>1, <2>2, <3>1, <3>2 DEF Row
    <3> QED BY <1>1, <2>1, <2>2, <3>1, <3>2, <3>3
  <2>4. CASE p \notin Scorers
    <3>1. Reached(p) = reached[p] /\ RowsAfter(p) = rows[p] /\ Count(p) = 0
      BY <2>2, <2>4 DEF Reached, RowsAfter
    <3> QED BY <1>1, <2>1, <3>1
  <2> QED BY <2>3, <2>4
<1>3. scores' \in [Player -> Nat] /\ reached' \in [Player -> Nat] /\ rows' \in [Player -> Row]
  <2>1. \A p \in Player : scores[p] + Count(p) \in Nat
    BY <1>1, <1>2
  <2> QED BY <1>1, <1>2, <2>1
<1>4. TotalsAgree'
  BY <1>1, <1>2 DEF TotalsAgree
<1> QED BY <1>3, <1>4

-----------------------------------------------------------------------------
\* No round has been played.
LEMMA VerdictsInit == Init => VerdictsInv
BY Positive DEF Init, VerdictsInv, Shapes, InTime, TotalsAgree, ChecksStand, Row

\* What the checks say is a function of the round's clicks and of when it armed:
\* while these stand, so does it.
LEMMA ChecksFollow ==
  ASSUME UNCHANGED <<clicks, armedAt>>
  PROVE  /\ Scorers' = Scorers
         /\ \A p : FastClicks(p)' <=> FastClicks(p)
         /\ \A p : FastReaction(p)' <=> FastReaction(p)
         /\ \A p : Alone(p)' <=> Alone(p)
<1>1. \A i : Offset(i)' = Offset(i)
  BY DEF Offset
<1>2. Scorers' = Scorers /\ \A p : Taken(p)' = Taken(p) /\ Count(p)' = Count(p)
  BY DEF Scorers, Taken, Count
<1>3. \A p : FastClicks(p)' <=> FastClicks(p)
  BY DEF FastClicks, Taken, Successive, Offset
<1>4. \A p : FastReaction(p)' <=> FastReaction(p)
  BY <1>1, <1>2 DEF FastReaction
<1>5. \A p : Alone(p)' <=> Alone(p)
  BY <1>2 DEF Alone
<1> QED BY <1>2, <1>3, <1>4, <1>5

\* Every step keeps the invariant.
LEMMA VerdictsInductive ==
  ASSUME VerdictsInv, [Next]_vars
  PROVE  VerdictsInv'
<1> USE DEF VerdictsInv
<1>1. CASE Tick
  <2>1. /\ phase \in {"arming", "armed"} /\ now' = now + 1
        /\ UNCHANGED <<phase, round, windowAt, armedAt, clicks, touch, checks, scores, reached, rows>>
    BY <1>1 DEF Tick, totals
  <2>2. Shapes'
    BY <2>1 DEF Shapes
  <2>3. InTime'
    <3>1. \A i \in DOMAIN clicks : clicks[i].at \in Nat /\ clicks[i].at <= now
      <4>1. \A i \in DOMAIN clicks : clicks[i] \in Click
        BY DEF Shapes
      <4> QED BY <4>1 DEF InTime, Click
    <3>2. now \in Nat /\ armedAt \in Nat
      BY DEF Shapes
    <3> QED BY <2>1, <3>1, <3>2 DEF InTime
  <2>4. TotalsAgree'
    <3>1. \A p \in Player : rows[p].at \in Nat
      BY DEF Shapes, Row
    <3>2. now \in Nat
      BY DEF Shapes
    <3> QED BY <2>1, <3>1, <3>2 DEF TotalsAgree
  <2> QED BY <2>1, <2>2, <2>3, <2>4 DEF ChecksStand
<1>2. CASE Arm
  <2>1. /\ phase = "arming" /\ phase' = "armed" /\ armedAt' = now
        /\ UNCHANGED <<round, now, windowAt, clicks, touch, checks, scores, reached, rows>>
    BY <1>2 DEF Arm, totals
  <2>2. clicks = <<>> /\ now \in Nat
    BY <2>1 DEF InTime, Shapes
  <2>3. Shapes' /\ InTime'
    BY <2>1, <2>2 DEF Shapes, InTime
  <2>4. TotalsAgree' /\ ChecksStand'
    BY <2>1 DEF TotalsAgree, ChecksStand
  <2> QED BY <2>3, <2>4
<1>3. ASSUME NEW p \in Player, NEW b \in Button, Touch(p, b) PROVE VerdictsInv'
  BY <1>3 DEF Touch, Shapes, InTime, TotalsAgree, ChecksStand, totals
<1>4. ASSUME NEW p \in Player, NEW b \in Button, NEW at \in now - Lag .. now, Score(p, b, at)
      PROVE  VerdictsInv'
  <2> DEFINE c == [sid |-> p, at |-> at, button |-> b]
             K == Len(clicks)
  <2>1. /\ phase = "armed" /\ at \in armedAt..now
        /\ \A i \in DOMAIN clicks : clicks[i].sid = p => clicks[i].at <= at
        /\ clicks' = Append(clicks, c)
        /\ UNCHANGED <<phase, now, windowAt, armedAt, scores, reached, rows>>
    BY <1>4 DEF Score, totals
  <2>2. b \in Int
    BY DEF Button
  <2>3. c \in Click
    BY <2>1, <2>2 DEF Click, Shapes
  <2>4. clicks \in Seq(Click) /\ K \in Nat /\ DOMAIN clicks = 1..K
    BY DEF Shapes
  <2> HIDE DEF c, K
  <2>5. /\ clicks' \in Seq(Click) /\ DOMAIN clicks' = 1..(K + 1) /\ clicks'[K + 1] = c
        /\ \A i \in 1..K : clicks'[i] = clicks[i]
    BY <2>1, <2>3, <2>4 DEF K
  <2>6. Shapes'
    BY <2>1, <2>5 DEF Shapes
  <2>7. InTime'
    <3>1. c.sid = p /\ c.at = at /\ armedAt <= at /\ at <= now
      BY <2>1 DEF c, Shapes
    <3>2. \A i \in DOMAIN clicks' : i \in DOMAIN clicks \/ i = K + 1
      BY <2>4, <2>5
    <3>3. \A i \in DOMAIN clicks' : armedAt <= clicks'[i].at /\ clicks'[i].at <= now
      BY <2>4, <2>5, <3>1, <3>2 DEF InTime
    <3>4. ASSUME NEW i \in DOMAIN clicks', NEW j \in DOMAIN clicks', i < j,
                 clicks'[i].sid = clicks'[j].sid
          PROVE  clicks'[i].at <= clicks'[j].at
      <4>1. i \in 1..K /\ clicks'[i] = clicks[i]
        BY <2>4, <2>5, <3>2, <3>4
      <4>2. CASE j = K + 1
        BY <2>1, <2>4, <2>5, <3>1, <3>4, <4>1, <4>2
      <4>3. CASE j \in 1..K
        BY <2>4, <2>5, <3>4, <4>1, <4>3 DEF InTime
      <4> QED BY <2>4, <3>2, <4>2, <4>3
    <3> QED BY <2>1, <3>3, <3>4 DEF InTime
  <2>8. TotalsAgree' /\ ChecksStand'
    BY <2>1 DEF TotalsAgree, ChecksStand
  <2> QED BY <2>6, <2>7, <2>8
<1>5. CASE Close
  <2>1. /\ phase = "armed" /\ phase' \in {"over", "result"}
        /\ UNCHANGED <<now, windowAt, armedAt, clicks, touch, round>> /\ checks' = Checks
    BY <1>5 DEF Close
  <2>2. Shapes' /\ TotalsAgree'
    BY <1>5, <2>1, CloseAgrees DEF Shapes
  <2>3. InTime'
    BY <2>1 DEF InTime
  <2>4. ChecksStand'
    <3>1. \A p \in Scorers :
            /\ [sid |-> p, type |-> "fast_clicks"] \in Checks <=> FastClicks(p)
            /\ [sid |-> p, type |-> "fast_reaction"] \in Checks <=> FastReaction(p)
            /\ [sid |-> p, type |-> "dominant_winner"] \in Checks <=> Alone(p)
      BY Accused, WinnerIsAlone DEF Shapes
    <3>2. /\ Scorers' = Scorers
          /\ \A p \in Scorers : FastClicks(p)' <=> FastClicks(p)
          /\ \A p \in Scorers : FastReaction(p)' <=> FastReaction(p)
          /\ \A p \in Scorers : Alone(p)' <=> Alone(p)
      BY <2>1, ChecksFollow
    <3> QED BY <2>1, <3>1, <3>2 DEF ChecksStand
  <2> QED BY <2>2, <2>3, <2>4
<1>6. CASE Pending
  BY <1>6 DEF Pending, Shapes, InTime, TotalsAgree, ChecksStand, totals
<1>7. CASE UNCHANGED vars
  <2>1. UNCHANGED <<phase, now, windowAt, armedAt, clicks, checks, scores, reached, rows>>
    BY <1>7 DEF vars
  <2>2. Shapes' /\ InTime' /\ TotalsAgree'
    BY <2>1 DEF Shapes, InTime, TotalsAgree
  <2>3. /\ Scorers' = Scorers
        /\ \A p \in Scorers : FastClicks(p)' <=> FastClicks(p)
        /\ \A p \in Scorers : FastReaction(p)' <=> FastReaction(p)
        /\ \A p \in Scorers : Alone(p)' <=> Alone(p)
    BY <2>1, ChecksFollow
  <2>4. ChecksStand'
    BY <2>1, <2>3 DEF ChecksStand
  <2> QED BY <2>2, <2>4
<1> QED BY <1>1, <1>2, <1>3, <1>4, <1>5, <1>6, <1>7 DEF Next

\* The invariant holds of every behaviour.
THEOREM VerdictsInvariant == Spec => []VerdictsInv
<1>1. Init => VerdictsInv
  BY VerdictsInit
<1>2. VerdictsInv /\ [Next]_vars => VerdictsInv'
  BY VerdictsInductive
<1> QED BY <1>1, <1>2, PTL DEF Spec

\* The winner the engine credits is the one the database derives from the rows,
\* but for two players level on points within the same millisecond.
THEOREM StandingsAlwaysAgree == Spec => []StandingsAgree
<1>1. ASSUME VerdictsInv PROVE StandingsAgree
  <2> SUFFICES ASSUME NEW p \in Player, NEW q \in Player, p # q, scores[p] > 0, scores[q] > 0
               PROVE  \/ Ahead(p, q) <=> Placed(p, q)
                      \/ /\ scores[p] = scores[q]
                         /\ reached[p] - reached[q] \in 1 - Milli .. Milli - 1
    BY DEF StandingsAgree
  <2>1. /\ scores[p] \in Nat /\ scores[q] \in Nat
        /\ reached[p] \in Nat /\ reached[q] \in Nat
        /\ rows[p].at \in Nat /\ rows[q].at \in Nat
        /\ Milli \in Nat
    BY <1>1, Positive DEF VerdictsInv, Shapes, Row
  <2>2. /\ rows[p].points = scores[p] /\ rows[q].points = scores[q]
        /\ rows[p].at <= reached[p] /\ reached[p] < rows[p].at + Milli
        /\ rows[q].at <= reached[q] /\ reached[q] < rows[q].at + Milli
    BY <1>1 DEF VerdictsInv, TotalsAgree
  <2>3. CASE scores[p] # scores[q]
    BY <2>1, <2>2, <2>3 DEF Ahead, Placed
  <2>4. CASE scores[p] = scores[q] /\ rows[p].at < rows[q].at
    BY <2>1, <2>2, <2>4 DEF Ahead, Placed
  <2>5. CASE scores[p] = scores[q] /\ rows[q].at < rows[p].at
    BY <2>1, <2>2, <2>5 DEF Ahead, Placed
  <2>6. CASE scores[p] = scores[q] /\ rows[p].at = rows[q].at
    BY <2>1, <2>2, <2>6
  <2> QED BY <2>1, <2>3, <2>4, <2>5, <2>6
<1> QED BY <1>1, VerdictsInvariant, PTL

\* The speed checks accuse nobody who was slower than the limit, and miss nobody
\* who was faster by a millisecond.
THEOREM FastAlwaysMeansFast == Spec => []FastMeansFast
<1>1. ASSUME VerdictsInv PROVE FastMeansFast
  <2> DEFINE pairs(p) == {ij \in Taken(p) \X Taken(p) : Successive(ij[1], ij[2])}
             gaps(p) == {clicks[ij[2]].at - clicks[ij[1]].at : ij \in pairs(p)}
             first(p) == clicks[Min(Taken(p))].at - armedAt
  <2> SUFFICES ASSUME phase \in {"result", "over"}, NEW p \in Scorers
               PROVE  /\ FastClicks(p) => \E t \in gaps(p) : t < FastClickMs * Milli
                      /\ (\E t \in gaps(p) : t <= (FastClickMs - 1) * Milli) => FastClicks(p)
                      /\ FastReaction(p) => first(p) < ReactionMinMs * Milli
                      /\ first(p) <= (ReactionMinMs - 1) * Milli => FastReaction(p)
    <3> HIDE DEF gaps, first
    <3>1. phase \in {"result", "over"} =>
            \A p \in Scorers :
              /\ [sid |-> p, type |-> "fast_clicks"] \in checks <=> FastClicks(p)
              /\ [sid |-> p, type |-> "fast_reaction"] \in checks <=> FastReaction(p)
      BY <1>1 DEF VerdictsInv, ChecksStand
    <3>2. FastMeansFast <=>
            (phase \in {"result", "over"} =>
               \A p \in Scorers :
                 /\ [sid |-> p, type |-> "fast_clicks"] \in checks
                      => \E t \in gaps(p) : t < FastClickMs * Milli
                 /\ (\E t \in gaps(p) : t <= (FastClickMs - 1) * Milli)
                      => [sid |-> p, type |-> "fast_clicks"] \in checks
                 /\ [sid |-> p, type |-> "fast_reaction"] \in checks
                      => \E t \in {first(p)} : t < ReactionMinMs * Milli
                 /\ (\E t \in {first(p)} : t <= (ReactionMinMs - 1) * Milli)
                      => [sid |-> p, type |-> "fast_reaction"] \in checks)
      BY DEF FastMeansFast, gaps, first
    <3> QED BY <3>1, <3>2
  <2>1. clicks \in Seq(Click) /\ FastClickMs \in Nat /\ ReactionMinMs \in Nat
    BY <1>1, Positive DEF VerdictsInv, Shapes
  <2>2. ASSUME NEW i \in Taken(p)
        PROVE  /\ clicks[i].at \in Nat /\ armedAt \in Nat /\ clicks[i].at - armedAt \in Nat
               /\ Offset(i) = Ms(clicks[i].at - armedAt)
    <3>1. i \in DOMAIN clicks /\ clicks[i] \in Click
      BY <2>1, TakenFacts
    <3> QED BY <1>1, <3>1, OffsetFacts DEF VerdictsInv, Shapes, Click
  <2>3. ASSUME NEW i \in Taken(p), NEW j \in Taken(p)
        PROVE  /\ Offset(j) - Offset(i) < FastClickMs
                    => clicks[j].at - clicks[i].at < FastClickMs * Milli
               /\ clicks[j].at - clicks[i].at <= (FastClickMs - 1) * Milli
                    => Offset(j) - Offset(i) < FastClickMs
    <3> DEFINE x == clicks[i].at - armedAt
               y == clicks[j].at - armedAt
    <3>1. /\ x \in Nat /\ y \in Nat /\ clicks[j].at - clicks[i].at = y - x
          /\ Offset(i) = Ms(x) /\ Offset(j) = Ms(y)
      BY <2>2
    <3> HIDE DEF x, y
    <3> QED BY <2>1, <3>1, MsDifference
  <2>4. /\ FastReaction(p) => first(p) < ReactionMinMs * Milli
        /\ first(p) <= (ReactionMinMs - 1) * Milli => FastReaction(p)
    <3> DEFINE x == clicks[Min(Taken(p))].at - armedAt
    <3>1. x \in Nat /\ Offset(Min(Taken(p))) = Ms(x)
      BY <2>1, <2>2, FirstAndLast
    <3>2. FastReaction(p) <=> Ms(x) < ReactionMinMs
      BY <3>1 DEF FastReaction
    <3>3. Ms(0) = 0 /\ Ms(x) \in Nat
      BY <3>1, MsBounds, Positive DEF Ms
    <3> HIDE DEF x
    <3>4. /\ Ms(x) - Ms(0) < ReactionMinMs => x - 0 < ReactionMinMs * Milli
          /\ x - 0 <= (ReactionMinMs - 1) * Milli => Ms(x) - Ms(0) < ReactionMinMs
      BY <2>1, <3>1, MsDifference
    <3>5. Ms(x) - Ms(0) = Ms(x) /\ x - 0 = x
      BY <3>1, <3>3
    <3>6. /\ Ms(x) < ReactionMinMs => x < ReactionMinMs * Milli
          /\ x <= (ReactionMinMs - 1) * Milli => Ms(x) < ReactionMinMs
      BY <3>4, <3>5
    <3> QED BY <3>2, <3>6 DEF x
  <2>5. ASSUME NEW i \in Taken(p), NEW j \in Taken(p), Successive(i, j)
        PROVE  clicks[j].at - clicks[i].at \in gaps(p)
    <3>1. <<i, j>> \in pairs(p)
      BY <2>5
    <3> QED BY <3>1
  <2>6. ASSUME NEW t \in gaps(p)
        PROVE  \E i, j \in Taken(p) : Successive(i, j) /\ t = clicks[j].at - clicks[i].at
    <3>1. PICK ij \in pairs(p) : t = clicks[ij[2]].at - clicks[ij[1]].at
      OBVIOUS
    <3>2. ij[1] \in Taken(p) /\ ij[2] \in Taken(p) /\ Successive(ij[1], ij[2])
      OBVIOUS
    <3> QED BY <3>1, <3>2
  <2> HIDE DEF gaps, first
  <2>7. /\ FastClicks(p) => \E t \in gaps(p) : t < FastClickMs * Milli
        /\ (\E t \in gaps(p) : t <= (FastClickMs - 1) * Milli) => FastClicks(p)
    BY <2>3, <2>5, <2>6 DEF FastClicks
  <2> QED BY <2>4, <2>7
<1> QED BY <1>1, VerdictsInvariant, PTL

\* dominant_winner names exactly who took more than twice the clicks of everybody
\* else while somebody competed.
THEOREM DominantAlwaysAlone == Spec => []DominantIsAlone
<1>1. VerdictsInv => DominantIsAlone
  BY DEF VerdictsInv, ChecksStand, DominantIsAlone, Alone
<1> QED BY <1>1, VerdictsInvariant, PTL
==============================================================================
