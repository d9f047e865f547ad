-------------------------- MODULE HourlyBoardProofs --------------------------
(***************************************************************************)
(* Theorems about the hourly points and the hours won (HourlyBoard), for   *)
(* any players, any length of an hour, of a write's timeout and of the     *)
(* finalizer's margin that the code's relations between them allow.        *)
(***************************************************************************)
EXTENDS HourlyBoard, Extremes

\* An in-flight write names the hour in which its round ended, and is given up
\* Timeout later at the latest.
WriteOK(w) ==
  /\ w.bucket \in Hour
  /\ w.deadline \in Int /\ now <= w.deadline
  /\ w.deadline < (w.bucket + 1) * HourTicks + Timeout
  /\ \A p \in Player \cap DOMAIN w.deltas : w.deltas[p] \in Nat

TypeOK ==
  /\ now \in 0..(MaxHour * HourTicks)
  /\ scores \in [Hour -> [Player -> Nat]]
  /\ finalized \subseteq Hour
  /\ wins \in [Player -> Nat]
  /\ \A w \in writes : WriteOK(w)
  /\ pass \in {"asleep", "credit", "commit"}
  /\ due \subseteq Hour /\ (pass = "commit" => due # {})
  /\ credited = [h \in Hour |-> credited[h]]

\* The timer is set for a margin after an hour's boundary and is not missed.
TimerOK ==
  pass = "asleep" =>
    \E k \in Nat : now <= wakeAt /\ wakeAt = k * HourTicks + Margin

\* An hour the finalizer has to do with is over, has points and gets no more.
Closed(h) ==
  /\ (h + 1) * HourTicks <= now
  /\ Rows(h) # {}
  /\ \A w \in writes : w.bucket # h

HoursClosed ==
  /\ due \cap finalized = {}
  /\ \A h \in due \cup finalized : Closed(h)

\* Between its reads and its commit the finalizer's winner stays the winner.
WinnerStands == pass = "commit" => winner = Top(Min(due))

\* The inductive invariant.
HourlyInv ==
  /\ TypeOK
  /\ TimerOK
  /\ HoursClosed
  /\ WinnerStands
  /\ BoardsAgree
  /\ HourWonOnce

-----------------------------------------------------------------------------
(* What the operators return.                                              *)

LEMMA Parameters ==
  /\ HourTicks \in Nat \ {0} /\ Margin \in Nat /\ Timeout \in Nat
  /\ Timeout <= Margin /\ Margin < HourTicks /\ MaxHour \in Nat
BY HourlyAssumption DEF HourlyAssumption

\* The hour of a time, and the only one.
LEMMA HourOfTime ==
  ASSUME NEW t \in Nat
  PROVE  /\ HourOf(t) \in Nat
         /\ HourOf(t) * HourTicks <= t /\ t < (HourOf(t) + 1) * HourTicks
BY Parameters DEF HourOf

\* A whole number of hours later is later by as many ticks.
LEMMA HoursInOrder ==
  ASSUME NEW h \in Int, NEW k \in Int
  PROVE  /\ h < k => (h + 1) * HourTicks <= k * HourTicks
         /\ h * HourTicks < k * HourTicks => h < k
<1>1. HourTicks \in Int /\ HourTicks > 0
  BY Parameters
<1>2. ASSUME h < k PROVE (h + 1) * HourTicks <= k * HourTicks
  BY <1>1, <1>2
<1>3. ASSUME k <= h PROVE k * HourTicks <= h * HourTicks
  BY <1>1, <1>3
<1> QED BY <1>1, <1>2, <1>3

\* The hour it is now is one of those modelled.
LEMMA HourOfNow ==
  ASSUME TypeOK
  PROVE  /\ now \in Nat /\ HourOf(now) \in Hour
         /\ HourOf(now) * HourTicks <= now /\ now < (HourOf(now) + 1) * HourTicks
<1>1. now \in Nat /\ now <= MaxHour * HourTicks
  BY Parameters DEF TypeOK
<1>2. /\ HourOf(now) \in Nat
      /\ HourOf(now) * HourTicks <= now /\ now < (HourOf(now) + 1) * HourTicks
  BY <1>1, HourOfTime
<1>3. HourOf(now) <= MaxHour
  <2>1. CASE MaxHour < HourOf(now)
    <3>1. (MaxHour + 1) * HourTicks <= HourOf(now) * HourTicks
      BY <1>2, <2>1, Parameters, HoursInOrder
    <3> QED BY <1>1, <1>2, <3>1, Parameters
  <2> QED BY <1>2, <2>1, Parameters
<1> QED BY <1>1, <1>2, <1>3, Parameters DEF Hour

\* Whoever is top of an hour is so by that hour's points alone.
LEMMA TopFromScores ==
  ASSUME NEW h \in Hour, scores'[h] = scores[h]
  PROVE  Top(h)' = Top(h) /\ Rows(h)' = Rows(h)
<1> DEFINE R(f) == {p \in Player : f[p] > 0}
           T(f) == CHOOSE p \in R(f) :
                     \A q \in R(f) \ {p} : f[q] < f[p] \/ (f[q] = f[p] /\ p < q)
<1>1. Top(h) = T(scores[h]) /\ Rows(h) = R(scores[h])
  BY DEF Top, Rows
<1>2. Top(h)' = T(scores'[h]) /\ Rows(h)' = R(scores'[h])
  BY DEF Top, Rows
<1> HIDE DEF T, R
<1> QED BY <1>1, <1>2

\* The query has an answer when the hour has points: among the players with the
\* most of them, the lowest Steam id.
LEMMA TopIsBest ==
  ASSUME NEW h \in Hour, scores[h] \in [Player -> Nat], Rows(h) # {},
         IsFiniteSet(Player)
  PROVE  /\ Top(h) \in Rows(h)
         /\ \A q \in Rows(h) \ {Top(h)} :
              \/ scores[h][q] < scores[h][Top(h)]
              \/ scores[h][q] = scores[h][Top(h)] /\ Top(h) < q
<1> DEFINE f == scores[h]
           P == {f[p] : p \in Rows(h)}
<1>1. Rows(h) \subseteq Player /\ Player \subseteq Nat
  BY HourlyAssumption DEF Rows, HourlyAssumption
<1>2. P \in SUBSET Nat /\ P # {} /\ IsFiniteSet(P)
  <2>1. IsFiniteSet(Rows(h))
    BY <1>1, FS_Subset
  <2>2. [p \in Rows(h) |-> f[p]] \in Surjection(Rows(h), P)
    BY DEF Surjection
  <2>3. IsFiniteSet(P)
    BY <2>1, <2>2, FS_Surjection, Zenon
  <2>4. \A p \in Rows(h) : f[p] \in Nat
    BY <1>1
  <2> QED BY <2>3, <2>4
<1>3. PICK m \in P : \A y \in P : y <= m
  <2> HIDE DEF P
  <2> QED BY <1>2, GreatestExists
<1> DEFINE S == {p \in Rows(h) : f[p] = m}
<1>4. PICK p \in S : \A q \in S : p <= q
  <2>1. S \in SUBSET Nat /\ S # {}
    BY <1>1, <1>3
  <2> HIDE DEF S
  <2> QED BY <2>1, LeastExists
<1>5. \A q \in Rows(h) \ {p} : f[q] < f[p] \/ (f[q] = f[p] /\ p < q)
  <2> SUFFICES ASSUME NEW q \in Rows(h) \ {p} 
               PROVE  f[q] < f[p] \/ (f[q] = f[p] /\ p < q)
    OBVIOUS
  <2>1. f[q] \in Nat /\ f[p] \in Nat /\ f[q] <= m /\ f[p] = m /\ q \in Nat /\ p \in Nat
    BY <1>1, <1>3
  <2>2. f[q] = m => p <= q
    BY <1>4
  <2> QED BY <2>1, <2>2
<1>6. p \in Rows(h)
  OBVIOUS
<1> HIDE DEF S, P
<1> QED BY <1>5, <1>6 DEF Top

-----------------------------------------------------------------------------
LEMMA InitHolds == Init => HourlyInv
<1> SUFFICES ASSUME Init PROVE HourlyInv
  OBVIOUS
<1>1. TypeOK
  <2>1. now \in 0..(MaxHour * HourTicks)
    BY Parameters DEF Init
  <2>2. scores \in [Hour -> [Player -> Nat]] /\ wins \in [Player -> Nat]
    BY DEF Init
  <2> QED BY <2>1, <2>2 DEF Init, TypeOK
<1>2. TimerOK /\ HoursClosed /\ WinnerStands /\ BoardsAgree
  BY DEF Init, TimerOK, HoursClosed, WinnerStands, BoardsAgree
<1>3. HourWonOnce
  <2>1. \A p \in Player : {h \in finalized : credited[h] = p} = {} /\ wins[p] = 0
    BY DEF Init
  <2> QED BY <2>1, FS_EmptySet DEF HourWonOnce
<1> QED BY <1>1, <1>2, <1>3 DEF HourlyInv

\* A step that leaves the tables, the pass and the hours it has to do with
\* alone, keeps the clock from going back and adds no write of an hour that is
\* closed, keeps all but the types and the timer.
LEMMA Undisturbed ==
  ASSUME HourlyInv, TypeOK', TimerOK', UNCHANGED <<scores, finalized, wins, credited>>,
         now <= now', due' \subseteq due,
         \A w \in writes' \ writes : \A h \in due \cup finalized : w.bucket # h,
         pass' = "commit" => winner' = Top(Min(due'))
  PROVE  HourlyInv'
<1> USE DEF HourlyInv
<1>1. \A h \in Hour : Top(h)' = Top(h) /\ Rows(h)' = Rows(h)
  BY TopFromScores
<1>2. HoursClosed'
  <2>1. ASSUME NEW h \in due \cup finalized PROVE Closed(h)'
    <3>1. h \in Hour /\ Closed(h)
      BY DEF TypeOK, HoursClosed
    <3>2. (h + 1) * HourTicks <= now'
      <4>1. (h + 1) * HourTicks \in Int /\ now \in Int /\ now' \in Int
        BY <3>1, Parameters DEF TypeOK, Hour
      <4> QED BY <3>1, <4>1 DEF Closed
    <3> QED BY <1>1, <3>1, <3>2 DEF Closed
  <2> QED BY <2>1 DEF HoursClosed
<1>3. WinnerStands'
  <2>1. CASE pass' = "commit"
    <3>1. Min(due') \in Hour
      <4>1. due' \in SUBSET Nat /\ due' # {} /\ due' \subseteq Hour
        BY <2>1, Parameters DEF TypeOK, Hour
      <4> QED BY <4>1, MinIsLeast
    <3> QED BY <1>1, <2>1, <3>1 DEF WinnerStands
  <2> QED BY <2>1 DEF WinnerStands
<1>4. BoardsAgree'
  BY <1>1 DEF BoardsAgree, TypeOK
<1>5. HourWonOnce'
  BY DEF HourWonOnce
<1> QED BY <1>2, <1>3, <1>4, <1>5

\* Time passes: the timer fires when it is due and no write outlives its deadline.
LEMMA TickKeeps ==
  ASSUME HourlyInv, Tick
  PROVE  HourlyInv'
<1>1. now' = now + 1 /\ now \in Nat /\ now' \in 0..(MaxHour * HourTicks)
  BY Parameters DEF HourlyInv, TypeOK, Tick
<1>2. TypeOK'
  <2>1. \A w \in writes : WriteOK(w)'
    BY <1>1 DEF HourlyInv, TypeOK, WriteOK, Tick
  <2> QED BY <1>1, <2>1 DEF HourlyInv, TypeOK, Tick, table, finalizer
<1>3. TimerOK'
  <2>1. pass = "asleep" => now < wakeAt + 0
    BY DEF Tick
  <2>2. ASSUME NEW k \in Nat, wakeAt = k * HourTicks + Margin, now < wakeAt + 0
        PROVE  now' <= wakeAt
    BY <1>1, <2>2, Parameters
  <2> QED BY <2>1, <2>2 DEF HourlyInv, TimerOK, Tick, finalizer
<1> QED BY <1>1, <1>2, <1>3, Undisturbed
        DEF Tick, table, finalizer, HourlyInv, WinnerStands

\* A round's points are for the hour it is, which is no closed one.
LEMMA PersistKeeps ==
  ASSUME HourlyInv, Persist
  PROVE  HourlyInv'
<1>0. PICK scorers \in SUBSET Player \ {{}} : \E deltas \in [scorers -> Points] :
        writes' = writes \cup {[id |-> rounds, bucket |-> HourOf(now),
                                deltas |-> deltas, deadline |-> now + Timeout]}
  BY DEF Persist
<1>1. PICK deltas \in [scorers -> Points] :
        writes' = writes \cup {[id |-> rounds, bucket |-> HourOf(now),
                                deltas |-> deltas, deadline |-> now + Timeout]}
  BY <1>0
<1> DEFINE W == [id |-> rounds, bucket |-> HourOf(now),
                 deltas |-> deltas, deadline |-> now + Timeout]
<1>w. PICK w : w = W
  OBVIOUS
<1>2. /\ now \in Nat /\ HourOf(now) \in Hour
      /\ now < (HourOf(now) + 1) * HourTicks
  BY HourOfNow DEF HourlyInv
<1>3. WriteOK(w)'
  <2>1. w.bucket = HourOf(now) /\ w.deltas = deltas /\ w.deadline = now + Timeout
    BY <1>w
  <2>2. now + Timeout < (HourOf(now) + 1) * HourTicks + Timeout
    BY <1>2, Parameters DEF Hour
  <2>3. \A p \in Player \cap DOMAIN deltas : deltas[p] \in Nat
    BY HourlyAssumption DEF HourlyAssumption
  <2>4. now' = now /\ now <= now + Timeout /\ now + Timeout \in Int
    BY <1>2, Parameters DEF Persist
  <2> HIDE DEF W
  <2> QED BY <1>2, <2>1, <2>2, <2>3, <2>4 DEF WriteOK
<1>4. TypeOK'
  <2>1. \A v \in writes : WriteOK(v)'
    BY DEF HourlyInv, TypeOK, WriteOK, Persist
  <2>2. writes' = writes \cup {w}
    BY <1>1, <1>w
  <2> HIDE DEF W
  <2> QED BY <1>3, <2>1, <2>2 DEF HourlyInv, TypeOK, Persist, table, finalizer
<1>5. \A h \in due \cup finalized : w.bucket # h
  <2> SUFFICES ASSUME NEW h \in due \cup finalized, HourOf(now) = h PROVE FALSE
    BY <1>w
  <2>1. (h + 1) * HourTicks <= now /\ h \in Hour
    BY DEF HourlyInv, HoursClosed, Closed, TypeOK
  <2>2. (h + 1) * HourTicks \in Int
    BY <2>1, Parameters DEF Hour
  <2> QED BY <1>2, <2>1, <2>2
<1>6. TimerOK'
  BY DEF HourlyInv, TimerOK, Persist, finalizer
<1>7. writes' = writes \cup {w} /\ now' = now /\ now \in Int
  BY <1>1, <1>2, <1>w DEF Persist
<1> HIDE DEF W
<1> QED BY <1>4, <1>5, <1>6, <1>7, Undisturbed
        DEF Persist, table, finalizer, HourlyInv, WinnerStands

\* A write that lands is for an hour the finalizer has not begun with.
LEMMA LandKeeps ==
  ASSUME HourlyInv, NEW w \in writes, Land(w)
  PROVE  HourlyInv'
<1>1. WriteOK(w)
  BY DEF HourlyInv, TypeOK
<1>2. scores' \in [Hour -> [Player -> Nat]]
  <2> DEFINE row == [p \in Player |-> scores[w.bucket][p] +
                        IF p \in DOMAIN w.deltas THEN w.deltas[p] ELSE 0]
  <2>1. row \in [Player -> Nat]
    BY <1>1 DEF HourlyInv, TypeOK, WriteOK
  <2>2. scores' = [scores EXCEPT ![w.bucket] = row]
    BY DEF Land
  <2> HIDE DEF row
  <2> QED BY <1>1, <2>1, <2>2 DEF HourlyInv, TypeOK, WriteOK
<1>3. TypeOK'
  <2>1. \A v \in writes : WriteOK(v)'
    BY DEF HourlyInv, TypeOK, WriteOK, Land
  <2> QED BY <1>2, <2>1 DEF HourlyInv, TypeOK, Land, finalizer
<1>4. \A h \in due \cup finalized :
        h \in Hour /\ Top(h)' = Top(h) /\ Rows(h)' = Rows(h)
  <2> TAKE h \in due \cup finalized
  <2>1. h \in Hour /\ h # w.bucket
    BY DEF HourlyInv, TypeOK, HoursClosed, Closed
  <2>2. scores'[h] = scores[h]
    BY <2>1 DEF Land, HourlyInv, TypeOK
  <2> QED BY <2>1, <2>2, TopFromScores
<1>5. TimerOK'
  BY DEF HourlyInv, TimerOK, Land, finalizer
<1>6. HoursClosed'
  BY <1>4 DEF HourlyInv, HoursClosed, Closed, Land, finalizer
<1>7. WinnerStands'
  <2>1. CASE pass = "commit"
    <3>1. due \in SUBSET Nat /\ due # {}
      BY <2>1, Parameters DEF HourlyInv, TypeOK, Hour
    <3>2. Min(due) \in due
      BY <3>1, MinIsLeast
    <3> QED BY <1>4, <2>1, <3>2 DEF HourlyInv, WinnerStands, Land, finalizer
  <2> QED BY <2>1 DEF WinnerStands, Land, finalizer
<1>8. BoardsAgree'
  BY <1>4 DEF HourlyInv, BoardsAgree, Land
<1>9. HourWonOnce'
  BY DEF HourlyInv, HourWonOnce, Land
<1> QED BY <1>3, <1>5, <1>6, <1>7, <1>8, <1>9 DEF HourlyInv

\* When the timer fires, every write of an hour that is over has run into its
\* deadline: Timeout is within Margin.
LEMMA OnlyOverdue ==
  ASSUME HourlyInv, BeginPass, NEW h \in DueHours
  PROVE  Closed(h)
<1>1. /\ h \in Hour /\ h < HourOf(now) /\ Rows(h) # {}
      /\ now \in Nat /\ HourOf(now) \in Hour
      /\ HourOf(now) * HourTicks <= now /\ now < (HourOf(now) + 1) * HourTicks
  BY HourOfNow DEF DueHours, HourlyInv
<1>2. h \in Int /\ HourOf(now) \in Int
  BY <1>1, Parameters DEF Hour
<1>3. (h + 1) * HourTicks <= HourOf(now) * HourTicks
  BY <1>1, <1>2, HoursInOrder
<1>4. (h + 1) * HourTicks \in Int /\ HourOf(now) * HourTicks \in Int
  BY <1>2, Parameters
<1>5. PICK k \in Nat : now = k * HourTicks + Margin
  <2>1. PICK k \in Nat : now <= wakeAt /\ wakeAt = k * HourTicks + Margin /\ now >= wakeAt
    BY DEF HourlyInv, TimerOK, BeginPass
  <2>2. wakeAt \in Int
    BY <2>1, Parameters
  <2> QED BY <1>1, <2>1, <2>2
<1>6. k = HourOf(now)
  <2>1. k * HourTicks < (HourOf(now) + 1) * HourTicks
    <3>1. k * HourTicks \in Int /\ (HourOf(now) + 1) * HourTicks \in Int
      BY <1>2, Parameters
    <3> QED BY <1>1, <1>5, <3>1, Parameters
  <2>2. HourOf(now) * HourTicks < (k + 1) * HourTicks
    BY <1>1, <1>4, <1>5, Parameters
  <2>3. k < HourOf(now) + 1 /\ HourOf(now) < k + 1
    BY <1>2, <2>1, <2>2, HoursInOrder
  <2> QED BY <1>2, <2>3
<1>7. ASSUME NEW w \in writes, w.bucket = h PROVE FALSE
  <2>1. /\ w.deadline \in Int /\ now <= w.deadline
        /\ w.deadline < (h + 1) * HourTicks + Timeout
    BY <1>7 DEF HourlyInv, TypeOK, WriteOK
  <2> QED BY <1>1, <1>3, <1>4, <1>5, <1>6, <2>1, Parameters
<1> QED BY <1>1, <1>3, <1>4, <1>7 DEF Closed

\* A pass begins, by the timer or with the server: nothing is in flight for the
\* hours it takes up.
LEMMA PassBegins ==
  ASSUME HourlyInv, BeginPass \/ Restart
  PROVE  HourlyInv'
<1>1. TypeOK'
  BY DEF HourlyInv, TypeOK, WriteOK, BeginPass, Restart, DueHours, table
<1>2. \A h \in Hour : Top(h)' = Top(h) /\ Rows(h)' = Rows(h)
  BY TopFromScores DEF BeginPass, Restart, table
<1>3. \A h \in DueHours \cup finalized : Closed(h)'
  <2>1. ASSUME BeginPass, NEW h \in DueHours PROVE Closed(h)'
    <3>1. Closed(h) /\ h \in Hour
      BY <2>1, OnlyOverdue DEF DueHours
    <3> QED BY <1>2, <2>1, <3>1 DEF Closed, BeginPass
  <2>2. ASSUME Restart, NEW h \in DueHours PROVE Closed(h)'
    <3>1. /\ h \in Hour /\ h < HourOf(now) /\ Rows(h) # {}
          /\ now \in Nat /\ HourOf(now) \in Hour /\ HourOf(now) * HourTicks <= now
      BY HourOfNow DEF DueHours, HourlyInv
    <3>2. h \in Int /\ HourOf(now) \in Int
      BY <3>1, Parameters DEF Hour
    <3>3. (h + 1) * HourTicks <= HourOf(now) * HourTicks
      BY <3>1, <3>2, HoursInOrder
    <3>4. (h + 1) * HourTicks \in Int /\ HourOf(now) * HourTicks \in Int
      BY <3>2, Parameters
    <3> QED BY <1>2, <2>2, <3>1, <3>3, <3>4 DEF Closed, Restart
  <2>3. ASSUME NEW h \in finalized PROVE Closed(h)'
    BY <1>2 DEF HourlyInv, TypeOK, HoursClosed, Closed, BeginPass, Restart
  <2> QED BY <2>1, <2>2, <2>3
<1>4. HoursClosed'
  BY <1>3 DEF HoursClosed, DueHours, BeginPass, Restart, table
<1>5. TimerOK' /\ WinnerStands'
  BY DEF TimerOK, WinnerStands, BeginPass, Restart
<1>6. BoardsAgree'
  BY <1>2 DEF HourlyInv, TypeOK, BoardsAgree, BeginPass, Restart, table
<1>7. HourWonOnce'
  BY DEF HourlyInv, HourWonOnce, BeginPass, Restart, table
<1> QED BY <1>1, <1>4, <1>5, <1>6, <1>7 DEF HourlyInv

\* The commit credits the hour to whom it was read for, and writes it down.
LEMMA CommitKeeps ==
  ASSUME HourlyInv, Commit
  PROVE  HourlyInv'
<1> DEFINE h == Min(due)
<1>1. h \in due /\ h \in Hour /\ h \notin finalized
  <2>1. due \in SUBSET Nat /\ due # {}
    BY Parameters DEF HourlyInv, TypeOK, Hour, Commit
  <2>2. h \in due
    BY <2>1, MinIsLeast
  <2> QED BY <2>2 DEF HourlyInv, TypeOK, HoursClosed
<1>2. /\ pass = "commit" /\ pass' = "credit" /\ due' = due \ {h}
      /\ wins' = [wins EXCEPT ![winner] = @ + 1]
      /\ finalized' = finalized \cup {h}
      /\ credited' = [credited EXCEPT ![h] = winner]
      /\ UNCHANGED <<now, scores, writes>>
  BY DEF Commit
<1> HIDE DEF h
<1>3. \A g \in Hour : Top(g)' = Top(g) /\ Rows(g)' = Rows(g)
  BY <1>2, TopFromScores
<1>4. TypeOK'
  <2>1. wins' \in [Player -> Nat]
    <3>1. wins \in [Player -> Nat]
      BY DEF HourlyInv, TypeOK
    <3>2. \A p \in Player : wins'[p] = IF p = winner THEN wins[p] + 1 ELSE wins[p]
      BY <1>2, <3>1
    <3>3. wins' = [p \in Player |-> wins'[p]]
      BY <1>2, <3>1
    <3> QED BY <3>1, <3>2, <3>3
  <2>2. credited' = [g \in Hour |-> credited'[g]]
    BY <1>2 DEF HourlyInv, TypeOK
  <2>3. \A w \in writes' : WriteOK(w)'
    BY <1>2 DEF HourlyInv, TypeOK, WriteOK
  <2> QED BY <1>1, <1>2, <2>1, <2>2, <2>3 DEF HourlyInv, TypeOK
<1>5. TimerOK' /\ WinnerStands'
  BY <1>2 DEF TimerOK, WinnerStands
<1>6. HoursClosed'
  <2>1. \A g \in due \cup finalized : g \in Hour /\ Closed(g)
    BY DEF HourlyInv, TypeOK, HoursClosed
  <2>2. \A g \in due \cup finalized : Closed(g)'
    BY <1>2, <1>3, <2>1 DEF Closed
  <2> QED BY <1>1, <1>2, <2>2 DEF HourlyInv, HoursClosed
<1>7. \A g \in Hour : credited'[g] = IF g = h THEN winner ELSE credited[g]
  BY <1>2 DEF HourlyInv, TypeOK
<1>8. BoardsAgree'
  <2>1. winner = Top(h)
    BY <1>2 DEF HourlyInv, WinnerStands, h
  <2> QED BY <1>1, <1>2, <1>3, <1>7, <2>1 DEF HourlyInv, TypeOK, BoardsAgree
<1>9. HourWonOnce'
  <2> SUFFICES ASSUME NEW p \in Player
               PROVE  wins'[p] = Cardinality({g \in finalized' : credited'[g] = p})
    BY DEF HourWonOnce
  <2> DEFINE won == {g \in finalized : credited[g] = p}
  <2>1. IsFiniteSet(won)
    <3>1. IsFiniteSet(Hour)
      BY FS_Interval, Parameters DEF Hour
    <3> QED BY <3>1, FS_Subset DEF HourlyInv, TypeOK
  <2>2. wins[p] = Cardinality(won)
    BY DEF HourlyInv, HourWonOnce
  <2>3. h \notin won
    BY <1>1
  <2>4. CASE p = winner
    <3>1. {g \in finalized' : credited'[g] = p} = won \cup {h}
      BY <1>1, <1>2, <1>7, <2>4 DEF HourlyInv, TypeOK
    <3>2. wins'[p] = wins[p] + 1
      BY <1>2, <2>4 DEF HourlyInv, TypeOK
    <3> HIDE DEF won
    <3> QED BY <2>1, <2>2, <2>3, <3>1, <3>2, FS_AddElement
  <2>5. CASE p # winner
    <3>1. {g \in finalized' : credited'[g] = p} = won
      BY <1>1, <1>2, <1>7, <2>5 DEF HourlyInv, TypeOK
    <3>2. wins'[p] = wins[p]
      BY <1>2, <2>5 DEF HourlyInv, TypeOK
    <3> QED BY <2>2, <3>1, <3>2
  <2> QED BY <2>4, <2>5
<1> QED BY <1>4, <1>5, <1>6, <1>8, <1>9 DEF HourlyInv

\* A pass is over, or broke off, and the next look is set.
LEMMA PassIsOver ==
  ASSUME HourlyInv, PassEnds \/ PassFails
  PROVE  HourlyInv'
<1>1. TypeOK'
  BY DEF HourlyInv, TypeOK, WriteOK, PassEnds, PassFails, GoToSleep, table
<1>2. TimerOK'
  <2>1. now' = now /\ wakeAt' = (HourOf(now) + 1) * HourTicks + Margin
    BY DEF PassEnds, PassFails, NextLook
  <2>2. /\ now \in Nat /\ HourOf(now) \in Nat
        /\ now < (HourOf(now) + 1) * HourTicks
    BY HourOfNow, Parameters DEF HourlyInv, Hour
  <2>3. HourOf(now) + 1 \in Nat /\ (HourOf(now) + 1) * HourTicks \in Int
    BY <2>2, Parameters
  <2>4. now' <= wakeAt'
    BY <2>1, <2>2, <2>3, Parameters
  <2> QED BY <2>1, <2>3, <2>4 DEF TimerOK
<1>3. now \in Int /\ now' = now
  BY Parameters DEF HourlyInv, TypeOK, PassEnds, PassFails
<1> QED BY <1>1, <1>2, <1>3, Undisturbed DEF PassEnds, PassFails, GoToSleep, table

LEMMA StepKeeps == HourlyInv /\ [Next]_vars => HourlyInv'
<1> SUFFICES ASSUME HourlyInv, [Next]_vars PROVE HourlyInv'
  OBVIOUS
<1>1. now \in Int
  BY Parameters DEF HourlyInv, TypeOK
<1>2. ASSUME NEW w \in writes, Lose(w) PROVE HourlyInv'
  <2>1. TypeOK' /\ TimerOK'
    BY <1>2 DEF HourlyInv, TypeOK, WriteOK, TimerOK, Lose, table, finalizer
  <2> QED BY <1>1, <1>2, <2>1, Undisturbed
          DEF Lose, table, finalizer, HourlyInv, WinnerStands
<1>3. CASE ReadWinner
  <2>1. TypeOK' /\ TimerOK'
    BY <1>3 DEF HourlyInv, TypeOK, WriteOK, TimerOK, ReadWinner, table
  <2> QED BY <1>1, <1>3, <2>1, Undisturbed DEF ReadWinner, table
<1>4. CASE UNCHANGED vars
  <2>1. TypeOK' /\ TimerOK'
    BY <1>4 DEF HourlyInv, TypeOK, WriteOK, TimerOK, vars, table, finalizer
  <2> QED BY <1>1, <1>4, <2>1, Undisturbed
          DEF vars, table, finalizer, HourlyInv, WinnerStands
<1> QED
  BY <1>2, <1>3, <1>4, TickKeeps, PersistKeeps, LandKeeps, PassBegins, CommitKeeps,
     PassIsOver
  DEF Next, Finalizer

\* What the finalizer has taken up is over and gets no more points, and it is
\* credited once, to its top scorer, however passes fail and servers restart.
THEOREM HourlyInvariant == Spec => []HourlyInv
BY InitHolds, StepKeeps, PTL DEF Spec

\* Store.FinalizeDueHours: hourly_wins and finalized_hours never disagree about
\* how many hours a player has won.
THEOREM HoursWonOnce == Spec => []HourWonOnce
<1>1. HourlyInv => HourWonOnce
  BY DEF HourlyInv
<1> QED BY <1>1, HourlyInvariant, PTL

\* finalizeHour against AddHourlyPoints and HoursWonLeaderboard: no points of an
\* hour land between the read of its winner and its commit, nor ever after.
THEOREM BoardsAlwaysAgree == Spec => []BoardsAgree
<1>1. HourlyInv => BoardsAgree
  BY DEF HourlyInv
<1> QED BY <1>1, HourlyInvariant, PTL

\* The credited player has points in the hour, and nobody had more, nor as many
\* with a lower Steam id.
CreditedIsBest ==
  \A h \in finalized :
    /\ credited[h] \in Rows(h)
    /\ \A q \in Rows(h) \ {credited[h]} :
         \/ scores[h][q] < scores[h][credited[h]]
         \/ scores[h][q] = scores[h][credited[h]] /\ credited[h] < q

\* With finitely many players, that is what being top means at any later time.
THEOREM HoursGoToTheBest ==
  ASSUME IsFiniteSet(Player)
  PROVE  Spec => []CreditedIsBest
<1>1. HourlyInv => CreditedIsBest
  <2> SUFFICES ASSUME HourlyInv, NEW h \in finalized
               PROVE  /\ credited[h] \in Rows(h)
                      /\ \A q \in Rows(h) \ {credited[h]} :
                           \/ scores[h][q] < scores[h][credited[h]]
                           \/ scores[h][q] = scores[h][credited[h]] /\ credited[h] < q
    BY DEF CreditedIsBest
  <2>1. h \in Hour /\ scores[h] \in [Player -> Nat] /\ Rows(h) # {}
    BY DEF HourlyInv, TypeOK, HoursClosed, Closed
  <2>2. credited[h] = Top(h)
    BY DEF HourlyInv, BoardsAgree
  <2> QED BY <2>1, <2>2, TopIsBest
<1> QED BY <1>1, HourlyInvariant, PTL
==============================================================================
