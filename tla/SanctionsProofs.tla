--------------------------- MODULE SanctionsProofs ---------------------------
(***************************************************************************)
(* Theorems about the anticheat ladder (Sanctions), for any thresholds,    *)
(* any finite set of players and any capacity of the engine's channels.    *)
(***************************************************************************)
EXTENDS Sanctions, Extremes

\* The rung of a row is the one its count of flags stands for.
Fits(s) ==
  /\ s.ignored <=> s.checks >= Threshold + Grace
  /\ s.checks < Threshold => s.cool = 0
  /\ s.checks >= Threshold => s.ignored \/ s.cool # 0

\* It is so of every row, wherever it is: RungFollowsCount, and the rows an
\* admin's edit has on their way to the engine.
AllFit ==
  /\ \A p \in Player : Fits(sanctions[p])
  /\ \A b \in 1..MaxBounty, p \in Player : Fits(saved[b][p])
  /\ \A w \in writes : Fits(w.row)
  /\ \A e \in editing : Fits(e.row)
  /\ \A i \in DOMAIN ext : Fits(ext[i].row)

\* Before the first game nobody is on the bench.
Unloaded == cur = 0 => stage = "idle" /\ underTest = {}

\* The inductive invariant.
LadderInv ==
  /\ TypeOK
  /\ IsFiniteSet(writes) /\ IsFiniteSet(editing)
  /\ AllFit
  /\ RungsExclusive
  /\ Unloaded

Rungs  == {"none", "test", "cooldown", "ignored"}
Frames == [rung : Rungs, id : Nat]

-----------------------------------------------------------------------------
(* What the operators return.                                              *)

LEMMA Parameters ==
  /\ Threshold \in Nat \ {0} /\ Grace \in Nat \ {0} /\ MaxBump \in Nat \ {0}
  /\ ExtBuf \in Nat \ {0} /\ AnswerBuf \in Nat \ {0} /\ MaxBounty \in Nat \ {0}
  /\ MaxCheck \in Nat /\ IsFiniteSet(Player)
BY SanctionAssumption DEF SanctionAssumption

\* The image of a finite set is finite.
LEMMA ImageFinite ==
  ASSUME NEW S, IsFiniteSet(S), NEW f, DOMAIN f = S
  PROVE  /\ IsFiniteSet({f[x] : x \in S})
         /\ Cardinality({f[x] : x \in S}) <= Cardinality(S)
<1> DEFINE T == {f[x] : x \in S}
<1>1. [x \in S |-> f[x]] \in Surjection(S, T)
  BY DEF Surjection
<1> HIDE DEF T
<1>2. IsFiniteSet(T) /\ Cardinality(T) <= Cardinality(S)
  BY <1>1, FS_Surjection, Zenon
<1> QED BY <1>2 DEF T

LEMMA UpToFinite ==
  ASSUME NEW n \in Nat
  PROVE  IsFiniteSet(1..n) /\ Cardinality(1..n) = n
<1>1. IsFiniteSet(1..n) /\ Cardinality(1..n) = IF 1 > n THEN 0 ELSE n - 1 + 1
  BY FS_Interval
<1> QED BY <1>1

\* The ladder has finitely many rows, and their deadlines are numbers.
LEMMA RowsFinite ==
  ASSUME TypeOK, IsFiniteSet(writes), IsFiniteSet(editing)
  PROVE  IsFiniteSet(Rows) /\ \A s \in Rows : s \in Row
<1> DEFINE A == {sanctions[p] : p \in Player}
           B == {saved[b][p] : b \in 1..MaxBounty, p \in Player}
           C == {w.row : w \in writes}
           D == {e.row : e \in editing}
           E == {ext[i].row : i \in DOMAIN ext}
<1>1. IsFiniteSet(A)
  <2>1. DOMAIN sanctions = Player
    BY DEF TypeOK
  <2> QED BY <2>1, ImageFinite, Parameters
<1>2. IsFiniteSet(B)
  <2> DEFINE P == (1..MaxBounty) \X Player
             f == [x \in P |-> saved[x[1]][x[2]]]
  <2>1. IsFiniteSet(P)
    <3>1. IsFiniteSet(1..MaxBounty) /\ IsFiniteSet(Player)
      BY Parameters, FS_Interval
    <3> QED BY <3>1, FS_Product
  <2>2. DOMAIN f = P
    OBVIOUS
  <2>3. B = {f[x] : x \in P}
    <3>1. ASSUME NEW b \in 1..MaxBounty, NEW p \in Player
          PROVE  <<b, p>> \in P /\ f[<<b, p>>] = saved[b][p]
      OBVIOUS
    <3>2. ASSUME NEW x \in P
          PROVE  x[1] \in 1..MaxBounty /\ x[2] \in Player /\ f[x] = saved[x[1]][x[2]]
      OBVIOUS
    <3> HIDE DEF f, P
    <3>3. ASSUME NEW y \in B PROVE y \in {f[x] : x \in P}
      <4>1. PICK b \in 1..MaxBounty, p \in Player : y = saved[b][p]
        OBVIOUS
      <4>2. <<b, p>> \in P /\ y = f[<<b, p>>]
        BY <3>1, <4>1
      <4> QED BY <4>2
    <3>4. ASSUME NEW y \in {f[x] : x \in P} PROVE y \in B
      BY <3>2
    <3> HIDE DEF B
    <3> QED BY <3>3, <3>4
  <2> HIDE DEF f, P
  <2>4. IsFiniteSet({f[x] : x \in P})
    BY <2>1, <2>2, ImageFinite
  <2> QED BY <2>3, <2>4
<1>3. IsFiniteSet(C)
  <2> DEFINE f == [w \in writes |-> w.row]
  <2>1. DOMAIN f = writes /\ C = {f[w] : w \in writes}
    OBVIOUS
  <2> HIDE DEF f
  <2> QED BY <2>1, ImageFinite
<1>4. IsFiniteSet(D)
  <2> DEFINE f == [e \in editing |-> e.row]
  <2>1. DOMAIN f = editing /\ D = {f[e] : e \in editing}
    OBVIOUS
  <2> HIDE DEF f
  <2> QED BY <2>1, ImageFinite
<1>5. IsFiniteSet(E)
  <2> DEFINE f == [i \in DOMAIN ext |-> ext[i].row]
  <2>1. DOMAIN f = DOMAIN ext /\ E = {f[i] : i \in DOMAIN ext}
    OBVIOUS
  <2>2. DOMAIN ext = 1..Len(ext) /\ Len(ext) \in Nat
    BY DEF TypeOK
  <2>3. IsFiniteSet(DOMAIN ext)
    BY <2>2, FS_Interval
  <2> HIDE DEF f
  <2> QED BY <2>1, <2>3, ImageFinite
<1>6. Rows = (((A \cup B) \cup C) \cup D) \cup E
  BY DEF Rows
<1>7. IsFiniteSet(Rows)
  <2> HIDE DEF A, B, C, D, E
  <2> QED BY <1>1, <1>2, <1>3, <1>4, <1>5, <1>6, FS_Union
<1>8. \A s \in Rows : s \in Row
  <2>1. \A s \in A \cup B : s \in Row
    BY DEF TypeOK
  <2>2. \A s \in C \cup D : s \in Row
    BY DEF TypeOK
  <2>3. \A i \in DOMAIN ext : ext[i].row \in Row
    <3> DEFINE X == [player : Player, row : Row]
    <3>1. ext \in Seq(X)
      BY DEF TypeOK
    <3>2. \A i \in DOMAIN ext : ext[i] \in X
      <4> HIDE DEF X
      <4> QED BY <3>1
    <3> QED BY <3>2
  <2>4. \A s \in E : s \in Row
    BY <2>3
  <2> HIDE DEF A, B, C, D, E
  <2> QED BY <1>6, <2>1, <2>2, <2>4
<1> QED BY <1>7, <1>8

\* A new deadline has not passed.
LEMMA DeadlineAhead ==
  ASSUME TypeOK, IsFiniteSet(writes), IsFiniteSet(editing)
  PROVE  NewDeadline \in Nat /\ NewDeadline > 1
<1> DEFINE f == [s \in Rows |-> s.cool]
           K == {s.cool : s \in Rows}
<1>1. IsFiniteSet(Rows) /\ \A s \in Rows : s \in Row
  BY RowsFinite
<1>2. IsFiniteSet(K) /\ K \in SUBSET Nat
  <2>1. DOMAIN f = Rows /\ K = {f[s] : s \in Rows}
    OBVIOUS
  <2>2. K \in SUBSET Nat
    BY <1>1 DEF Row
  <2> HIDE DEF f, K
  <2>3. IsFiniteSet({f[s] : s \in Rows})
    BY <1>1, <2>1, ImageFinite
  <2> QED BY <2>1, <2>2, <2>3
<1>3. IsFiniteSet({1} \cup K) /\ {1} \cup K \in SUBSET Nat /\ {1} \cup K # {}
  <2> HIDE DEF K
  <2>1. IsFiniteSet(K \cup {1}) /\ K \cup {1} = {1} \cup K
    BY <1>2, FS_AddElement
  <2> QED BY <1>2, <2>1
<1>4. Max({1} \cup K) \in {1} \cup K /\ \A y \in {1} \cup K : y <= Max({1} \cup K)
  <2> HIDE DEF K
  <2> QED BY <1>3, MaxIsGreatest
<1>5. Max({1} \cup K) \in Nat /\ 1 <= Max({1} \cup K)
  <2> HIDE DEF K
  <2> QED BY <1>3, <1>4
<1>6. NewDeadline = 1 + Max({1} \cup K)
  BY DEF NewDeadline
<1> HIDE DEF K
<1> QED BY <1>5, <1>6

\* There is a fresh id: fewer are in use than are to choose from.
LEMMA FreshIsNew ==
  ASSUME TypeOK, NEW p \in Player
  PROVE  Fresh(p) \in Nat \ {0}
<1> DEFINE sent == {answers[i].id : i \in DOMAIN answers}
           used == {pendingTests[p], overlay[p].id} \cup sent
           I == 1..(AnswerBuf + 3)
<1>1. DOMAIN answers = 1..Len(answers) /\ Len(answers) \in Nat /\ Len(answers) <= AnswerBuf
  BY DEF TypeOK
<1>2. IsFiniteSet(sent) /\ Cardinality(sent) <= AnswerBuf
  <2> DEFINE f == [i \in DOMAIN answers |-> answers[i].id]
  <2>1. DOMAIN f = DOMAIN answers /\ sent = {f[i] : i \in DOMAIN answers}
    OBVIOUS
  <2>2. IsFiniteSet(DOMAIN answers) /\ Cardinality(DOMAIN answers) = Len(answers)
    BY <1>1, UpToFinite
  <2> HIDE DEF f, sent
  <2>3. IsFiniteSet(sent) /\ Cardinality(sent) <= Cardinality(DOMAIN answers)
    BY <2>1, <2>2, ImageFinite
  <2>4. Cardinality(sent) \in Nat
    BY <2>3, FS_CardinalityType
  <2> QED BY <1>1, <2>2, <2>3, <2>4, Parameters
<1>3. IsFiniteSet(used) /\ Cardinality(used) <= AnswerBuf + 2
  <2> HIDE DEF sent
  <2> DEFINE one == sent \cup {pendingTests[p]}
  <2>1. /\ IsFiniteSet(one) /\ Cardinality(one) \in Nat
        /\ Cardinality(one) <= AnswerBuf + 1
    BY <1>2, FS_AddElement, FS_CardinalityType, Parameters
  <2>2. used = one \cup {overlay[p].id}
    OBVIOUS
  <2> HIDE DEF one, used
  <2>3. /\ IsFiniteSet(one \cup {overlay[p].id})
        /\ \/ Cardinality(one \cup {overlay[p].id}) = Cardinality(one)
           \/ Cardinality(one \cup {overlay[p].id}) = Cardinality(one) + 1
    BY <2>1, FS_AddElement
  <2> QED BY <2>1, <2>2, <2>3, Parameters
<1>4. I \ used \in SUBSET Nat /\ I \ used # {}
  <2>1. IsFiniteSet(I) /\ Cardinality(I) = AnswerBuf + 3
    BY FS_Interval, Parameters
  <2>2. Cardinality(used) \in Nat
    BY <1>3, FS_CardinalityType
  <2>3. ~(I \subseteq used)
    <3> HIDE DEF I, used
    <3> QED BY <1>3, <2>1, <2>2, FS_Subset, Parameters
  <2> HIDE DEF used
  <2> QED BY <2>3, Parameters
<1>5. PICK i \in I \ used : \A j \in I \ used : i <= j
  <2> HIDE DEF I, used
  <2> QED BY <1>4, LeastExists
<1>6. i \in I /\ i \notin used /\ \A j \in 1..(i - 1) : j \in used
  <2> HIDE DEF used
  <2> QED BY <1>5, Parameters
<1>7. Fresh(p) = CHOOSE k \in I : k \notin used /\ \A j \in 1..(k - 1) : j \in used
  BY DEF Fresh
<1>8. Fresh(p) \in I
  <2> HIDE DEF I, used
  <2> QED BY <1>6, <1>7
<1> QED BY <1>8, Parameters

\* A flag adds to the count and moves the row to the rung of its new count.
LEMMA FlaggedRow ==
  ASSUME NEW s \in Row, Fits(s), NEW bump \in 1..MaxBump,
         NewDeadline \in Nat, NewDeadline > 1
  PROVE  /\ RungAfter(s, bump) \in Row /\ Fits(RungAfter(s, bump))
         /\ RungAfter(s, bump).checks > s.checks
<1> DEFINE c == s.checks + bump
<1>1. /\ s.checks \in Nat /\ s.ignored \in BOOLEAN /\ s.cool \in Nat
      /\ c \in Nat /\ c > s.checks
  BY Parameters DEF Row
<1> DEFINE r == RungAfter(s, bump)
<1>2. r \in Row /\ r.checks = c
  BY <1>1 DEF RungAfter, Row
<1>3. ASSUME c >= Threshold + Grace PROVE Fits(r)
  <2>1. r = [s EXCEPT !.checks = c, !.ignored = TRUE]
    BY <1>3 DEF RungAfter
  <2>2. r.ignored = TRUE
    BY <1>1, <2>1 DEF Row
  <2> HIDE DEF r, c
  <2> QED BY <1>1, <1>2, <1>3, <2>2, Parameters DEF Fits
<1>4. ASSUME ~(c >= Threshold + Grace) PROVE Fits(r)
  <2>1. r = IF c >= Threshold /\ s.cool = 0
            THEN [s EXCEPT !.checks = c, !.cool = NewDeadline]
            ELSE [s EXCEPT !.checks = c]
    BY <1>4 DEF RungAfter
  <2> HIDE DEF r
  <2>2. /\ r.ignored = s.ignored
        /\ r.cool = IF c >= Threshold /\ s.cool = 0 THEN NewDeadline ELSE s.cool
    <3>1. CASE c >= Threshold /\ s.cool = 0
      BY <2>1, <3>1 DEF Row
    <3>2. CASE ~(c >= Threshold /\ s.cool = 0)
      BY <2>1, <3>2 DEF Row
    <3> QED BY <3>1, <3>2
  <2>3. ~s.ignored
    BY <1>1, <1>4, Parameters DEF Fits
  <2> HIDE DEF c
  <2> QED BY <1>1, <1>2, <1>4, <2>2, <2>3, Parameters DEF Fits
<1> QED BY <1>1, <1>2, <1>3, <1>4

\* So does an admin's edit.
LEMMA EditedRow ==
  ASSUME NEW c \in Nat, NewDeadline \in Nat, NewDeadline > 1
  PROVE  RowFor(c) \in Row /\ Fits(RowFor(c))
<1> DEFINE r == RowFor(c)
<1>1. r.checks = c /\ (r.ignored <=> c >= Threshold + Grace)
  BY DEF RowFor
<1>2. r.cool = IF c \in Threshold..(Threshold + Grace - 1) THEN NewDeadline ELSE 0
  BY DEF RowFor
<1>3. r.cool \in Nat /\ (c >= Threshold + Grace) \in BOOLEAN
  BY <1>2
<1>4. r \in Row
  BY <1>3 DEF RowFor, Row
<1>5. Fits(r)
  <2> HIDE DEF r
  <2>1. r.checks >= Threshold /\ r.checks < Threshold + Grace => r.cool # 0
    BY <1>1, <1>2, Parameters
  <2>2. r.checks < Threshold => r.cool = 0
    BY <1>1, <1>2, Parameters
  <2> QED BY <1>1, <2>1, <2>2, Parameters DEF Fits
<1> QED BY <1>4, <1>5

\* Time takes nobody up the ladder.
LEMMA NearerRow ==
  ASSUME NEW s \in Row
  PROVE  /\ Nearer(s) \in Row /\ Nearer(s).ignored = s.ignored
         /\ Fits(s) => Fits(Nearer(s))
         /\ ~Cooling(s) => ~Cooling(Nearer(s))
BY Parameters DEF Nearer, Cooling, Row, Fits

\* notifySanctions asks nobody but the benched.
LEMMA ReconciledKeeps ==
  ASSUME TypeOK, NEW bench \in SUBSET Player, NEW asked \in [Player -> Nat],
         NEW rows \in [Player -> Row], Reconciled(bench, asked, rows)
  PROVE  /\ pendingTests' \in [Player -> Nat]
         /\ notified' \in [Player -> Rungs]
         /\ overlay' \in [Player -> Frames]
         /\ \A p \in Player : pendingTests'[p] # 0 => asked[p] # 0 \/ p \in bench
<1>1. /\ pendingTests' \in [Player -> Nat]
      /\ \A p \in Player : pendingTests'[p] # 0 => asked[p] # 0 \/ p \in bench
  BY FreshIsNew DEF Reconciled
<1>2. \A p \in Player : RungOf(rows[p], p \in bench) \in Rungs
  BY DEF RungOf, Rungs
<1>3. notified' \in [Player -> Rungs]
  BY <1>2 DEF Reconciled
<1>4. \A p \in Player : overlay[p] \in Frames /\ Dark \in Frames
  BY DEF TypeOK, Frames, Rungs, Dark
<1>5. \A p \in Player :
        Told(p, RungOf(rows[p], p \in bench), pendingTests') \in Frames
  BY <1>1, <1>2, <1>4 DEF Told, Shown, Frames
<1>6. overlay' \in [Player -> Frames]
  BY <1>4, <1>5 DEF Reconciled, Shown
<1> QED BY <1>1, <1>3, <1>6

-----------------------------------------------------------------------------
LEMMA InitHolds == Init => LadderInv
<1> SUFFICES ASSUME Init PROVE LadderInv
  OBVIOUS
<1>1. Clean \in Row /\ Fits(Clean) /\ Dark \in Frames /\ ~Clean.ignored /\ ~Cooling(Clean)
  BY Parameters DEF Clean, Row, Fits, Dark, Frames, Rungs, Cooling
<1>2. TypeOK
  <2>1. answers \in Seq([player : Player, id : Nat, correct : BOOLEAN])
    BY DEF Init
  <2>2. ext \in Seq([player : Player, row : Row])
    BY DEF Init
  <2>3. Len(answers) <= AnswerBuf /\ Len(ext) <= ExtBuf
    BY Parameters DEF Init
  <2>4. sanctions \in [Player -> Row] /\ saved \in [1..MaxBounty -> [Player -> Row]]
    BY <1>1 DEF Init
  <2>5. overlay \in [Player -> [rung : {"none", "test", "cooldown", "ignored"}, id : Nat]]
    BY <1>1 DEF Init, Frames, Rungs
  <2>6. /\ pendingTests \in [Player -> Nat]
        /\ notified \in [Player -> {"none", "test", "cooldown", "ignored"}]
        /\ link \in [Player -> {"off", "on", "parked"}]
    BY DEF Init
  <2>7. cur \in 0..active /\ active \in 1..MaxBounty
    BY Parameters DEF Init
  <2> QED BY <2>1, <2>2, <2>3, <2>4, <2>5, <2>6, <2>7 DEF Init, TypeOK
<1>3. IsFiniteSet(writes) /\ IsFiniteSet(editing)
  BY FS_EmptySet DEF Init
<1>4. AllFit
  BY <1>1 DEF Init, AllFit
<1>5. RungsExclusive /\ Unloaded
  BY DEF Init, RungsExclusive, Unloaded
<1> QED BY <1>2, <1>3, <1>4, <1>5 DEF LadderInv

-----------------------------------------------------------------------------
(* Every step keeps the types.                                             *)

\* What is shown to a player is a frame.
LEMMA ShownFrame ==
  ASSUME TypeOK, NEW p \in Player, NEW frame \in Frames
  PROVE  Shown(p, frame) \in Frames /\ Shown(p, Dark) \in Frames /\ overlay[p] \in Frames
BY DEF TypeOK, Shown, Frames, Rungs, Dark

LEMMA DarkFrames ==
  ASSUME TypeOK
  PROVE  \A p \in Player : Shown(p, Dark) \in Frames /\ overlay[p] \in Frames
<1>1. Dark \in Frames
  BY DEF Dark, Frames, Rungs
<1> QED BY <1>1, ShownFrame

\* What a channel takes or drops.
LEMMA OfferedType ==
  ASSUME NEW X, NEW q \in Seq(X), NEW x \in X, NEW cap \in Nat, Len(q) <= cap
  PROVE  Offered(q, cap, x) \in Seq(X) /\ Len(Offered(q, cap, x)) <= cap
BY DEF Offered

LEMMA SyncType ==
  ASSUME TypeOK, SyncBounty
  PROVE  TypeOK'
<1>1. CASE cur = active
  BY <1>1 DEF SyncBounty, TypeOK, engineVars
<1>2. CASE cur # active
  <2>1. overlay' \in [Player -> Frames]
    BY <1>2, DarkFrames DEF SyncBounty
  <2>2. sanctions' \in [Player -> Row]
    <3>1. saved[active] \in [Player -> Row] /\ Clean \in Row
      BY DEF TypeOK, Clean, Row
    <3>2. sanctions' = saved[active] \/ sanctions' = [p \in Player |-> Clean]
      BY <1>2 DEF SyncBounty
    <3> QED BY <3>1, <3>2
  <2>3. pendingTests' \in [Player -> Nat] /\ notified' \in [Player -> Rungs]
    BY <1>2 DEF SyncBounty, Rungs
  <2>4. cur' \in 0..active
    BY <1>2 DEF SyncBounty, TypeOK
  <2> QED BY <1>2, <2>1, <2>2, <2>3, <2>4 DEF SyncBounty, TypeOK, Frames, Rungs
<1> QED BY <1>1, <1>2

LEMMA AnnounceType ==
  ASSUME TypeOK, Announce
  PROVE  TypeOK'
<1>1. /\ pendingTests' \in [Player -> Nat]
      /\ notified' \in [Player -> Rungs]
      /\ overlay' \in [Player -> Frames]
  <2>1. /\ underTest \in SUBSET Player /\ pendingTests \in [Player -> Nat]
        /\ sanctions \in [Player -> Row]
    BY DEF TypeOK
  <2>2. Reconciled(underTest, pendingTests, sanctions)
    BY DEF Announce
  <2> QED BY <2>1, <2>2, ReconciledKeeps
<1> QED BY <1>1 DEF Announce, TypeOK, Frames, Rungs, storeVars

LEMMA FlagType ==
  ASSUME LadderInv, NEW p \in Player, NEW bump \in 1..MaxBump, Flag(p, bump)
  PROVE  TypeOK'
<1> DEFINE s == RungAfter(sanctions[p], bump)
<1>1. s \in Row
  <2>1. sanctions[p] \in Row /\ Fits(sanctions[p])
    BY DEF LadderInv, TypeOK, AllFit
  <2>2. NewDeadline \in Nat /\ NewDeadline > 1
    BY DeadlineAhead DEF LadderInv
  <2> QED BY <2>1, <2>2, FlaggedRow
<1> HIDE DEF s
<1>2. /\ stage \in {"afk", "checks"}
      /\ sanctions' = [sanctions EXCEPT ![p] = s]
      /\ Bench(p, s)
      /\ writes' = writes \cup {[bounty |-> cur, player |-> p, row |-> s]}
      /\ link' = IF stage = "afk" THEN [link EXCEPT ![p] = "parked"] ELSE link
      /\ UNCHANGED <<stage, notified, cur, answers, ext, overlay,
                     active, saved, editing, upsets>>
  BY DEF Flag, s
<1>3. cur \in 1..MaxBounty
  BY <1>2, Parameters DEF LadderInv, TypeOK, Unloaded
<1>4. underTest' \subseteq Player /\ pendingTests' \in [Player -> Nat]
  <2>1. underTest \subseteq Player /\ pendingTests \in [Player -> Nat]
    BY DEF LadderInv, TypeOK
  <2>2. /\ underTest' \in {underTest \cup {p}, underTest \ {p}}
        /\ pendingTests' \in {pendingTests, [pendingTests EXCEPT ![p] = 0]}
    BY <1>2 DEF Bench
  <2> QED BY <2>1, <2>2
<1>5. sanctions' \in [Player -> Row] /\ link' \in [Player -> {"off", "on", "parked"}]
  BY <1>1, <1>2 DEF LadderInv, TypeOK
<1>6. writes' \subseteq [bounty : 1..MaxBounty, player : Player, row : Row]
  BY <1>1, <1>2, <1>3 DEF LadderInv, TypeOK
<1> QED BY <1>2, <1>4, <1>5, <1>6 DEF LadderInv, TypeOK

LEMMA TakeAnswerType ==
  ASSUME TypeOK, TakeAnswer
  PROVE  TypeOK'
<1> DEFINE X == [player : Player, id : Nat, correct : BOOLEAN]
           ans == Head(answers)
           p == ans.player
<1>1. /\ answers' \in Seq(X) /\ Len(answers') <= AnswerBuf /\ ans \in X
  <2>1. answers \in Seq(X) /\ answers # <<>> /\ answers' = Tail(answers)
        /\ Len(answers) <= AnswerBuf
    BY DEF TypeOK, TakeAnswer
  <2> HIDE DEF X
  <2> QED BY <2>1, Parameters
<1>2. p \in Player
  BY <1>1
<1>3. /\ underTest' \subseteq Player /\ pendingTests' \in [Player -> Nat]
      /\ notified' \in [Player -> Rungs] /\ overlay' \in [Player -> Frames]
  <2>1. CASE stage = "idle" \/ ~Settles(ans)
    BY <2>1 DEF TakeAnswer, TypeOK, Frames, Rungs
  <2>2. CASE ~(stage = "idle" \/ ~Settles(ans)) /\ ans.correct
    <3>1. /\ underTest' = underTest \ {p}
          /\ pendingTests' = [pendingTests EXCEPT ![p] = 0]
          /\ notified' = [notified EXCEPT ![p] = "none"]
          /\ overlay' = [overlay EXCEPT ![p] = Shown(p, Dark)]
      BY <2>2 DEF TakeAnswer
    <3>2. Shown(p, Dark) \in Frames
      BY <1>2, ShownFrame DEF Dark, Frames, Rungs
    <3> HIDE DEF p
    <3> QED BY <1>2, <3>1, <3>2 DEF TypeOK, Frames, Rungs
  <2>3. CASE ~(stage = "idle" \/ ~Settles(ans)) /\ ~ans.correct
    <3>1. /\ pendingTests' = [pendingTests EXCEPT ![p] = Fresh(p)]
          /\ overlay' = [overlay EXCEPT ![p] = Told(p, "test", pendingTests')]
          /\ UNCHANGED <<underTest, notified>>
      BY <2>3 DEF TakeAnswer
    <3> HIDE DEF p
    <3>2. pendingTests' \in [Player -> Nat]
      BY <1>2, <3>1, FreshIsNew DEF TypeOK
    <3>3. Told(p, "test", pendingTests') \in Frames
      BY <1>2, <3>2, ShownFrame DEF Told, Frames, Rungs
    <3> QED BY <1>2, <3>1, <3>2, <3>3 DEF TypeOK, Frames, Rungs
  <2> QED BY <2>1, <2>2, <2>3
<1> QED BY <1>1, <1>3 DEF TakeAnswer, TypeOK, Frames, Rungs, storeVars

\* The edit that comes off the channel.
LEMMA HeadOfExt ==
  ASSUME TypeOK, ext # <<>>
  PROVE  /\ Head(ext).player \in Player /\ Head(ext).row \in Row
         /\ Head(ext) = ext[1] /\ 1 \in DOMAIN ext
         /\ Tail(ext) \in Seq([player : Player, row : Row])
         /\ Len(Tail(ext)) = Len(ext) - 1
         /\ \A i \in DOMAIN Tail(ext) : i + 1 \in DOMAIN ext /\ Tail(ext)[i] = ext[i + 1]
<1> DEFINE X == [player : Player, row : Row]
<1>1. ext \in Seq(X)
  BY DEF TypeOK
<1>2. /\ Head(ext) \in X /\ Head(ext) = ext[1] /\ 1 \in DOMAIN ext
      /\ Tail(ext) \in Seq(X) /\ Len(Tail(ext)) = Len(ext) - 1
      /\ \A i \in DOMAIN Tail(ext) : i + 1 \in DOMAIN ext /\ Tail(ext)[i] = ext[i + 1]
  <2> HIDE DEF X
  <2> QED BY <1>1
<1> QED BY <1>2

LEMMA TakeExternalType ==
  ASSUME TypeOK, TakeExternal
  PROVE  /\ TypeOK'
         /\ \A p \in Player : pendingTests'[p] # 0 =>
              (pendingTests[p] # 0 /\ p # Head(ext).player) \/ p \in underTest'
<1> DEFINE q == Head(ext).player
           asked == [pendingTests EXCEPT ![q] = 0]
<1>1. /\ q \in Player /\ Head(ext).row \in Row /\ Len(Tail(ext)) <= ExtBuf
      /\ Tail(ext) \in Seq([player : Player, row : Row])
  <2>1. ext # <<>> /\ Len(ext) \in Nat /\ Len(ext) <= ExtBuf
    BY DEF TakeExternal, TypeOK
  <2> QED BY <2>1, HeadOfExt, Parameters
<1>2. /\ underTest' = underTest \ {q}
      /\ sanctions' = [sanctions EXCEPT ![q] = Head(ext).row]
      /\ Reconciled(underTest', asked, sanctions')
      /\ ext' = Tail(ext)
      /\ UNCHANGED <<stage, cur, answers, link, storeVars>>
  BY DEF TakeExternal
<1> HIDE DEF q
<1>3. /\ underTest' \in SUBSET Player /\ sanctions' \in [Player -> Row]
      /\ asked \in [Player -> Nat]
      /\ \A p \in Player : asked[p] # 0 => pendingTests[p] # 0 /\ p # q
  BY <1>1, <1>2 DEF TypeOK
<1> HIDE DEF asked
<1>4. /\ pendingTests' \in [Player -> Nat]
      /\ notified' \in [Player -> Rungs]
      /\ overlay' \in [Player -> Frames]
      /\ \A p \in Player : pendingTests'[p] # 0 => asked[p] # 0 \/ p \in underTest'
  BY <1>2, <1>3, ReconciledKeeps
<1>5. TypeOK'
  BY <1>1, <1>2, <1>3, <1>4 DEF TypeOK, Frames, Rungs, storeVars
<1> QED BY <1>3, <1>4, <1>5 DEF q

LEMMA AdminType ==
  ASSUME LadderInv,
         \/ \E p \in Player, c \in 0..MaxCheck : AdminSave(p, c)
         \/ \E e \in editing : AdminPush(e)
  PROVE  TypeOK'
<1>1. ASSUME NEW p \in Player, NEW c \in 0..MaxCheck, AdminSave(p, c)
      PROVE  TypeOK'
  <2>1. RowFor(c) \in Row
    <3>1. c \in Nat
      BY Parameters
    <3> QED BY <3>1, DeadlineAhead, EditedRow DEF LadderInv
  <2>2. saved' \in [1..MaxBounty -> [Player -> Row]]
    <3>1. saved' = [saved EXCEPT ![active] = [saved[active] EXCEPT ![p] = RowFor(c)]]
      BY <1>1 DEF AdminSave
    <3>2. saved[active] \in [Player -> Row] /\ active \in 1..MaxBounty
      BY DEF LadderInv, TypeOK
    <3>3. [saved[active] EXCEPT ![p] = RowFor(c)] \in [Player -> Row]
      BY <2>1, <3>2
    <3> QED BY <3>1, <3>2, <3>3 DEF LadderInv, TypeOK
  <2>3. editing' \subseteq [player : Player, row : Row]
    BY <1>1, <2>1 DEF AdminSave
  <2>4. upsets' \in Nat
    BY <1>1 DEF AdminSave, LadderInv, TypeOK
  <2> QED BY <1>1, <2>2, <2>3, <2>4 DEF AdminSave, LadderInv, TypeOK, engineVars
<1>2. ASSUME NEW e \in editing, AdminPush(e) PROVE TypeOK'
  <2> DEFINE X == [player : Player, row : Row]
  <2>1. ext \in Seq(X) /\ e \in X /\ Len(ext) <= ExtBuf /\ ExtBuf \in Nat
    BY Parameters DEF LadderInv, TypeOK
  <2>2. ext' \in Seq(X) /\ Len(ext') <= ExtBuf
    <3>1. ext' = Offered(ext, ExtBuf, e)
      BY <1>2 DEF AdminPush
    <3> HIDE DEF X
    <3> QED BY <2>1, <3>1, OfferedType
  <2> QED BY <1>2, <2>2 DEF AdminPush, LadderInv, TypeOK, engineVars
<1> QED BY <1>1, <1>2

LEMMA WriteType ==
  ASSUME TypeOK, NEW w \in writes, WriteLands(w) \/ WriteFails(w)
  PROVE  TypeOK'
<1>1. w \in [bounty : 1..MaxBounty, player : Player, row : Row]
  BY DEF TypeOK
<1>2. saved' \in [1..MaxBounty -> [Player -> Row]]
  <2>1. CASE WriteLands(w)
    <3>1. saved' = [saved EXCEPT ![w.bounty] =
                      [saved[w.bounty] EXCEPT ![w.player] = w.row]]
      BY <2>1 DEF WriteLands
    <3>2. [saved[w.bounty] EXCEPT ![w.player] = w.row] \in [Player -> Row]
      BY <1>1 DEF TypeOK
    <3> QED BY <1>1, <3>1, <3>2 DEF TypeOK
  <2>2. CASE WriteFails(w)
    BY <2>2 DEF WriteFails, TypeOK
  <2> QED BY <2>1, <2>2
<1>3. writes' \subseteq writes
  BY DEF WriteLands, WriteFails
<1> QED BY <1>2, <1>3 DEF WriteLands, WriteFails, TypeOK, engineVars

LEMMA CooldownType ==
  ASSUME TypeOK, CooldownEnds
  PROVE  /\ TypeOK'
         /\ DOMAIN ext' = DOMAIN ext
         /\ \A i \in DOMAIN ext : ext'[i].row = Nearer(ext[i].row) /\ ext[i].row \in Row
<1>1. sanctions' \in [Player -> Row] /\ saved' \in [1..MaxBounty -> [Player -> Row]]
  BY NearerRow DEF CooldownEnds, TypeOK
<1>2. writes' \subseteq [bounty : 1..MaxBounty, player : Player, row : Row]
  <2>1. \A w \in writes : /\ w \in [bounty : 1..MaxBounty, player : Player, row : Row]
                          /\ Nearer(w.row) \in Row
    BY NearerRow DEF TypeOK
  <2> QED BY <2>1 DEF CooldownEnds
<1>3. editing' \subseteq [player : Player, row : Row]
  <2>1. \A e \in editing : e \in [player : Player, row : Row] /\ Nearer(e.row) \in Row
    BY NearerRow DEF TypeOK
  <2> QED BY <2>1 DEF CooldownEnds
<1>4. /\ ext' \in Seq([player : Player, row : Row]) /\ Len(ext') = Len(ext)
      /\ DOMAIN ext' = DOMAIN ext
      /\ \A i \in DOMAIN ext : ext'[i].row = Nearer(ext[i].row) /\ ext[i].row \in Row
  <2> DEFINE X == [player : Player, row : Row]
  <2>1. ext \in Seq(X) /\ ext' = [i \in DOMAIN ext |-> [ext[i] EXCEPT !.row = Nearer(@)]]
    BY DEF TypeOK, CooldownEnds
  <2>2. /\ \A i \in DOMAIN ext : ext[i] \in X
        /\ DOMAIN ext = 1..Len(ext) /\ Len(ext) \in Nat
    <3> HIDE DEF X
    <3> QED BY <2>1
  <2>3. \A i \in DOMAIN ext : ext'[i] \in X /\ ext'[i].row = Nearer(ext[i].row)
    BY <2>1, <2>2, NearerRow
  <2>4. DOMAIN ext' = DOMAIN ext /\ ext' = [i \in 1..Len(ext) |-> ext'[i]]
    BY <2>1, <2>2
  <2>5. ext' \in Seq(X) /\ Len(ext') = Len(ext)
    <3> HIDE DEF X
    <3> QED BY <2>2, <2>3, <2>4
  <2>6. \A i \in DOMAIN ext : ext[i].row \in Row
    BY <2>2
  <2> QED BY <2>3, <2>4, <2>5, <2>6
<1> QED BY <1>1, <1>2, <1>3, <1>4 DEF CooldownEnds, TypeOK

LEMMA NextType ==
  ASSUME LadderInv, [Next]_vars
  PROVE  TypeOK'
<1> USE DEF LadderInv, engineVars, storeVars, vars
<1>1. CASE ArmingDone \/ CloseWindow \/ ResultShown \/ ChecksDone \/ GoIdle
  BY <1>1 DEF ArmingDone, CloseWindow, ResultShown, ChecksDone, GoIdle, TypeOK
<1>2. CASE Arm
  <2>1. overlay' \in [Player -> Frames]
    BY <1>2, DarkFrames DEF Arm
  <2> QED BY <1>2, <2>1 DEF Arm, TypeOK, Frames, Rungs
<1>3. ASSUME NEW p \in Player, NEW correct \in BOOLEAN, Answer(p, correct)
      PROVE  TypeOK'
  <2> DEFINE X == [player : Player, id : Nat, correct : BOOLEAN]
             x == [player |-> p, id |-> overlay[p].id, correct |-> correct]
  <2>1. answers \in Seq(X) /\ x \in X /\ Len(answers) <= AnswerBuf /\ AnswerBuf \in Nat
    BY Parameters DEF TypeOK
  <2>2. answers' \in Seq(X) /\ Len(answers') <= AnswerBuf
    <3>1. answers' = Offered(answers, AnswerBuf, x)
      BY <1>3 DEF Answer
    <3> HIDE DEF X, x
    <3> QED BY <2>1, <3>1, OfferedType
  <2> QED BY <1>3, <2>2 DEF Answer, TypeOK
<1>4. ASSUME NEW p \in Player, NEW l \in {"off", "on", "parked"}, Relink(p, l)
      PROVE  TypeOK'
  <2>1. overlay \in [Player -> Frames] /\ Dark \in Frames
    BY DEF TypeOK, Dark, Frames, Rungs
  <2>2. overlay' \in [Player -> Frames]
    BY <1>4, <2>1 DEF Relink
  <2>3. link' \in [Player -> {"off", "on", "parked"}]
    BY <1>4 DEF Relink, TypeOK
  <2> QED BY <1>4, <2>2, <2>3 DEF Relink, TypeOK, Frames, Rungs
<1>5. CASE BountyMoves
  <2>1. active' \in 1..MaxBounty /\ cur' \in 0..active' /\ upsets' \in Nat
    BY <1>5, Parameters DEF BountyMoves, TypeOK
  <2> QED BY <1>5, <2>1 DEF BountyMoves, TypeOK
<1>6. CASE Restart
  <2>1. /\ answers' \in Seq([player : Player, id : Nat, correct : BOOLEAN])
        /\ ext' \in Seq([player : Player, row : Row])
    BY <1>6 DEF Restart
  <2>2. Len(answers') <= AnswerBuf /\ Len(ext') <= ExtBuf
    BY <1>6, Parameters DEF Restart
  <2>3. sanctions' \in [Player -> Row]
    BY <1>6 DEF Restart, Clean, Row
  <2>4. /\ pendingTests' \in [Player -> Nat] /\ notified' \in [Player -> Rungs]
        /\ link' \in [Player -> {"off", "on", "parked"}]
    BY <1>6 DEF Restart, Rungs
  <2> QED BY <1>6, <2>1, <2>2, <2>3, <2>4 DEF Restart, TypeOK, Rungs
<1>7. CASE UNCHANGED vars
  BY <1>7 DEF TypeOK
<1> QED
  BY <1>1, <1>2, <1>3, <1>4, <1>5, <1>6, <1>7, SyncType, AnnounceType, FlagType,
     TakeAnswerType, TakeExternalType, AdminType, WriteType, CooldownType
  DEF Next

-----------------------------------------------------------------------------
(* Every step keeps the rows at the rung of their count.                   *)

LEMMA FlagFits ==
  ASSUME LadderInv, NEW p \in Player, NEW bump \in 1..MaxBump, Flag(p, bump)
  PROVE  AllFit' /\ IsFiniteSet(writes')
<1> DEFINE s == RungAfter(sanctions[p], bump)
<1>1. Fits(s)
  <2>1. sanctions[p] \in Row /\ Fits(sanctions[p])
    BY DEF LadderInv, TypeOK, AllFit
  <2>2. NewDeadline \in Nat /\ NewDeadline > 1
    BY DeadlineAhead DEF LadderInv
  <2> QED BY <2>1, <2>2, FlaggedRow
<1> DEFINE W == [bounty |-> cur, player |-> p, row |-> s]
<1>w. PICK w : w = W
  OBVIOUS
<1>2. /\ sanctions' = [sanctions EXCEPT ![p] = s]
      /\ writes' = writes \cup {w} /\ w.row = s
      /\ UNCHANGED <<saved, editing, ext>>
  BY <1>w DEF Flag
<1> HIDE DEF s, W
<1>3. \A q \in Player : sanctions'[q] = IF q = p THEN s ELSE sanctions[q]
  BY <1>2 DEF LadderInv, TypeOK
<1>4. \A q \in Player : Fits(sanctions'[q])
  BY <1>1, <1>3 DEF LadderInv, AllFit
<1>5. \A v \in writes' : Fits(v.row)
  BY <1>1, <1>2 DEF LadderInv, AllFit
<1>6. IsFiniteSet(writes')
  BY <1>2, FS_AddElement DEF LadderInv
<1> QED BY <1>2, <1>4, <1>5, <1>6 DEF LadderInv, AllFit

LEMMA AdminFits ==
  ASSUME LadderInv,
         \/ \E p \in Player, c \in 0..MaxCheck : AdminSave(p, c)
         \/ \E e \in editing : AdminPush(e)
  PROVE  AllFit' /\ IsFiniteSet(editing')
<1>1. ASSUME NEW p \in Player, NEW c \in 0..MaxCheck, AdminSave(p, c)
      PROVE  AllFit' /\ IsFiniteSet(editing')
  <2>1. Fits(RowFor(c))
    <3>1. c \in Nat
      BY Parameters
    <3> QED BY <3>1, DeadlineAhead, EditedRow DEF LadderInv
  <2> DEFINE E == [player |-> p, row |-> RowFor(c)]
  <2>2. saved' = [saved EXCEPT ![active] = [saved[active] EXCEPT ![p] = RowFor(c)]]
        /\ editing' = {E} /\ E.row = RowFor(c) /\ UNCHANGED <<sanctions, writes, ext>>
    BY <1>1 DEF AdminSave, engineVars
  <2>3. \A b \in 1..MaxBounty, q \in Player :
          saved'[b][q] = IF b = active /\ q = p THEN RowFor(c) ELSE saved[b][q]
    BY <2>2 DEF LadderInv, TypeOK
  <2>4. \A b \in 1..MaxBounty, q \in Player : Fits(saved'[b][q])
    BY <2>1, <2>3 DEF LadderInv, AllFit
  <2>5. \A e \in editing' : Fits(e.row)
    BY <2>1, <2>2
  <2>6. IsFiniteSet(editing')
    BY <2>2, FS_Singleton
  <2> QED BY <2>2, <2>4, <2>5, <2>6 DEF LadderInv, AllFit
<1>2. ASSUME NEW e \in editing, AdminPush(e)
      PROVE  AllFit' /\ IsFiniteSet(editing')
  <2> DEFINE X == [player : Player, row : Row]
  <2>1. ext \in Seq(X) /\ ext' = Offered(ext, ExtBuf, e)
    BY <1>2 DEF LadderInv, TypeOK, AdminPush
  <2>2. \A i \in DOMAIN ext' : (i \in DOMAIN ext /\ ext'[i] = ext[i]) \/ ext'[i] = e
    <3> HIDE DEF X
    <3> QED BY <2>1 DEF Offered
  <2>3. Fits(e.row) /\ \A i \in DOMAIN ext : Fits(ext[i].row)
    BY DEF LadderInv, AllFit
  <2>4. \A i \in DOMAIN ext' : Fits(ext'[i].row)
    BY <2>2, <2>3
  <2>5. editing' = {} /\ UNCHANGED <<sanctions, writes, saved>>
    BY <1>2 DEF AdminPush, engineVars
  <2> QED BY <2>4, <2>5, FS_EmptySet DEF LadderInv, AllFit
<1> QED BY <1>1, <1>2

LEMMA WriteFits ==
  ASSUME LadderInv, NEW w \in writes, WriteLands(w) \/ WriteFails(w)
  PROVE  AllFit' /\ IsFiniteSet(writes')
<1>1. w \in [bounty : 1..MaxBounty, player : Player, row : Row] /\ Fits(w.row)
  BY DEF LadderInv, TypeOK, AllFit
<1>2. writes' = writes \ {w} /\ UNCHANGED <<sanctions, editing, ext>>
  BY DEF WriteLands, WriteFails, engineVars
<1>3. \A b \in 1..MaxBounty, q \in Player : saved'[b][q] \in {saved[b][q], w.row}
  <2>1. CASE WriteLands(w)
    <3>1. saved' = [saved EXCEPT ![w.bounty] =
                      [saved[w.bounty] EXCEPT ![w.player] = w.row]]
      BY <2>1 DEF WriteLands
    <3> QED BY <1>1, <3>1 DEF LadderInv, TypeOK
  <2>2. CASE WriteFails(w)
    BY <2>2 DEF WriteFails
  <2> QED BY <2>1, <2>2
<1>4. IsFiniteSet(writes')
  BY <1>2, FS_RemoveElement DEF LadderInv
<1> QED BY <1>1, <1>2, <1>3, <1>4 DEF LadderInv, AllFit

LEMMA CooldownFits ==
  ASSUME LadderInv, CooldownEnds
  PROVE  AllFit' /\ IsFiniteSet(writes') /\ IsFiniteSet(editing')
<1>1. \A p \in Player : Fits(sanctions'[p])
  <2>1. \A p \in Player : sanctions'[p] = Nearer(sanctions[p]) /\ sanctions[p] \in Row
    BY DEF CooldownEnds, LadderInv, TypeOK
  <2> QED BY <2>1, NearerRow DEF LadderInv, AllFit
<1>2. \A b \in 1..MaxBounty, p \in Player : Fits(saved'[b][p])
  <2>1. \A b \in 1..MaxBounty, p \in Player :
          saved'[b][p] = Nearer(saved[b][p]) /\ saved[b][p] \in Row
    BY DEF CooldownEnds, LadderInv, TypeOK
  <2> QED BY <2>1, NearerRow DEF LadderInv, AllFit
<1>3. (\A w \in writes' : Fits(w.row)) /\ IsFiniteSet(writes')
  <2> DEFINE f == [w \in writes |-> [w EXCEPT !.row = Nearer(@)]]
  <2>1. writes' = {f[w] : w \in writes} /\ DOMAIN f = writes
    BY DEF CooldownEnds
  <2>2. \A w \in writes : f[w].row = Nearer(w.row) /\ w.row \in Row
    BY DEF LadderInv, TypeOK
  <2> HIDE DEF f
  <2>3. \A w \in writes : Fits(f[w].row)
    BY <2>2, NearerRow DEF LadderInv, AllFit
  <2>4. IsFiniteSet({f[w] : w \in writes})
    BY <2>1, ImageFinite DEF LadderInv
  <2> QED BY <2>1, <2>3, <2>4
<1>4. (\A e \in editing' : Fits(e.row)) /\ IsFiniteSet(editing')
  <2> DEFINE f == [e \in editing |-> [e EXCEPT !.row = Nearer(@)]]
  <2>1. editing' = {f[e] : e \in editing} /\ DOMAIN f = editing
    BY DEF CooldownEnds
  <2>2. \A e \in editing : f[e].row = Nearer(e.row) /\ e.row \in Row
    BY DEF LadderInv, TypeOK
  <2> HIDE DEF f
  <2>3. \A e \in editing : Fits(f[e].row)
    BY <2>2, NearerRow DEF LadderInv, AllFit
  <2>4. IsFiniteSet({f[e] : e \in editing})
    BY <2>1, ImageFinite DEF LadderInv
  <2> QED BY <2>1, <2>3, <2>4
<1>5. \A i \in DOMAIN ext' : Fits(ext'[i].row)
  <2>1. /\ DOMAIN ext' = DOMAIN ext
        /\ \A i \in DOMAIN ext : ext'[i].row = Nearer(ext[i].row) /\ ext[i].row \in Row
    BY CooldownType DEF LadderInv
  <2> QED BY <2>1, NearerRow DEF LadderInv, AllFit
<1> QED BY <1>1, <1>2, <1>3, <1>4, <1>5 DEF AllFit

LEMMA NextFits ==
  ASSUME LadderInv, [Next]_vars
  PROVE  AllFit' /\ IsFiniteSet(writes') /\ IsFiniteSet(editing')
<1>1. CASE SyncBounty
  <2>1. Fits(Clean)
    BY Parameters DEF Clean, Fits
  <2>2. \/ sanctions' = sanctions \/ sanctions' = saved[active]
        \/ sanctions' = [p \in Player |-> Clean]
    BY <1>1 DEF SyncBounty, engineVars
  <2>3. \A p \in Player : Fits(sanctions'[p])
    BY <2>1, <2>2 DEF LadderInv, TypeOK, AllFit
  <2> QED BY <1>1, <2>3 DEF SyncBounty, LadderInv, AllFit
<1>2. CASE TakeExternal
  <2>1. ext # <<>> /\ ext' = Tail(ext)
        /\ sanctions' = [sanctions EXCEPT ![Head(ext).player] = Head(ext).row]
        /\ UNCHANGED storeVars
    BY <1>2 DEF TakeExternal
  <2>2. Fits(Head(ext).row) /\ \A i \in DOMAIN ext' : Fits(ext'[i].row)
    BY <2>1, HeadOfExt DEF LadderInv, AllFit
  <2>3. \A p \in Player : sanctions'[p] \in {sanctions[p], Head(ext).row}
    BY <2>1 DEF LadderInv, TypeOK
  <2> QED BY <2>1, <2>2, <2>3 DEF LadderInv, AllFit, storeVars
<1>3. CASE Restart
  <2>1. Fits(Clean) /\ ext' = <<>> /\ editing' = {} /\ writes' = {}
        /\ sanctions' = [p \in Player |-> Clean] /\ saved' = saved
    BY <1>3, Parameters DEF Restart, Clean, Fits
  <2> QED BY <2>1, FS_EmptySet DEF LadderInv, AllFit
<1>4. CASE UNCHANGED <<sanctions, saved, writes, editing, ext>>
  BY <1>4 DEF LadderInv, AllFit
<1>5. ASSUME NEW p \in Player, NEW bump \in 1..MaxBump, Flag(p, bump)
      PROVE  AllFit' /\ IsFiniteSet(writes') /\ IsFiniteSet(editing')
  BY <1>5, FlagFits DEF Flag, LadderInv
<1>6. ASSUME NEW w \in writes, WriteLands(w) \/ WriteFails(w)
      PROVE  AllFit' /\ IsFiniteSet(writes') /\ IsFiniteSet(editing')
  BY <1>6, WriteFits DEF WriteLands, WriteFails, LadderInv
<1>7. ASSUME \/ \E p \in Player, c \in 0..MaxCheck : AdminSave(p, c)
             \/ \E e \in editing : AdminPush(e)
      PROVE  AllFit' /\ IsFiniteSet(writes') /\ IsFiniteSet(editing')
  BY <1>7, AdminFits DEF AdminSave, AdminPush, LadderInv
<1> QED
  BY <1>1, <1>2, <1>3, <1>4, <1>5, <1>6, <1>7, CooldownFits
  DEF Next, vars, engineVars, storeVars, Announce, ArmingDone, Arm, CloseWindow,
      ResultShown, ChecksDone, GoIdle, TakeAnswer, Answer, Relink, BountyMoves

-----------------------------------------------------------------------------
(* Every step keeps the bench apart from the rungs above it.               *)

LEMMA FlagExclusive ==
  ASSUME LadderInv, NEW p \in Player, NEW bump \in 1..MaxBump, Flag(p, bump)
  PROVE  RungsExclusive'
<1> DEFINE s == RungAfter(sanctions[p], bump)
<1>1. Bench(p, s) /\ sanctions' = [sanctions EXCEPT ![p] = s]
  BY DEF Flag
<1> HIDE DEF s
<1>2. \A q \in Player : sanctions'[q] = IF q = p THEN s ELSE sanctions[q]
  BY <1>1 DEF LadderInv, TypeOK
<1>3. CASE RungOf(s, TRUE) = "test"
  <2>1. ~s.ignored /\ ~Cooling(s)
    BY <1>3 DEF RungOf
  <2>2. underTest' = underTest \cup {p} /\ pendingTests' = pendingTests
    BY <1>1, <1>3 DEF Bench
  <2> QED BY <1>2, <2>1, <2>2 DEF LadderInv, RungsExclusive
<1>4. CASE RungOf(s, TRUE) # "test"
  <2>1. underTest' = underTest \ {p} /\ pendingTests' = [pendingTests EXCEPT ![p] = 0]
    BY <1>1, <1>4 DEF Bench
  <2>2. \A q \in Player : pendingTests'[q] = IF q = p THEN 0 ELSE pendingTests[q]
    BY <2>1 DEF LadderInv, TypeOK
  <2> QED BY <1>2, <2>1, <2>2 DEF LadderInv, RungsExclusive
<1> QED BY <1>3, <1>4

LEMMA NextExclusive ==
  ASSUME LadderInv, [Next]_vars
  PROVE  RungsExclusive'
<1>1. CASE SyncBounty
  BY <1>1 DEF SyncBounty, LadderInv, RungsExclusive, engineVars
<1>2. CASE Announce
  <2>1. /\ underTest \in SUBSET Player /\ pendingTests \in [Player -> Nat]
        /\ sanctions \in [Player -> Row] /\ TypeOK
        /\ Reconciled(underTest, pendingTests, sanctions)
    BY <1>2 DEF LadderInv, TypeOK, Announce
  <2>2. \A p \in Player : pendingTests'[p] # 0 => pendingTests[p] # 0 \/ p \in underTest
    BY <2>1, ReconciledKeeps
  <2> QED BY <1>2, <2>2 DEF Announce, LadderInv, RungsExclusive
<1>3. CASE TakeAnswer
  <2> DEFINE p == Head(answers).player
  <2>1. CASE UNCHANGED <<underTest, pendingTests>>
    BY <1>3, <2>1 DEF TakeAnswer, LadderInv, RungsExclusive
  <2>2. CASE Settles(Head(answers)) /\ sanctions' = sanctions
             /\ underTest' = underTest \ {p} /\ pendingTests' = [pendingTests EXCEPT ![p] = 0]
    BY <2>2 DEF LadderInv, TypeOK, RungsExclusive
  <2>3. CASE Settles(Head(answers)) /\ sanctions' = sanctions
             /\ underTest' = underTest /\ pendingTests' = [pendingTests EXCEPT ![p] = Fresh(p)]
    <3>1. pendingTests[p] # 0
      BY <2>3 DEF Settles
    <3> HIDE DEF p
    <3> QED BY <2>3, <3>1 DEF LadderInv, TypeOK, RungsExclusive
  <2> QED BY <1>3, <2>1, <2>2, <2>3 DEF TakeAnswer
<1>4. CASE TakeExternal
  <2>1. /\ Head(ext).player \in Player
        /\ underTest' = underTest \ {Head(ext).player}
        /\ sanctions' = [sanctions EXCEPT ![Head(ext).player] = Head(ext).row]
    BY <1>4, HeadOfExt DEF TakeExternal, LadderInv
  <2>2. \A p \in Player : pendingTests'[p] # 0 =>
          (pendingTests[p] # 0 /\ p # Head(ext).player) \/ p \in underTest'
    BY <1>4, TakeExternalType DEF LadderInv
  <2> QED BY <2>1, <2>2 DEF LadderInv, TypeOK, RungsExclusive
<1>5. CASE CooldownEnds
  <2>1. \A p \in Player : sanctions'[p] = Nearer(sanctions[p]) /\ sanctions[p] \in Row
    BY <1>5 DEF CooldownEnds, LadderInv, TypeOK
  <2> QED BY <1>5, <2>1, NearerRow DEF CooldownEnds, LadderInv, RungsExclusive
<1>6. CASE Restart
  BY <1>6 DEF Restart, RungsExclusive
<1>7. CASE UNCHANGED <<sanctions, underTest, pendingTests>>
  BY <1>7 DEF LadderInv, RungsExclusive
<1>8. ASSUME NEW p \in Player, NEW bump \in 1..MaxBump, Flag(p, bump)
      PROVE  RungsExclusive'
  BY <1>8, FlagExclusive
<1> QED
  BY <1>1, <1>2, <1>3, <1>4, <1>5, <1>6, <1>7, <1>8
  DEF Next, vars, engineVars, ArmingDone, Arm, CloseWindow, ResultShown, ChecksDone,
      GoIdle, Answer, Relink, AdminSave, AdminPush, WriteLands, WriteFails, BountyMoves

LEMMA NextUnloaded ==
  ASSUME LadderInv, [Next]_vars
  PROVE  Unloaded'
<1> USE DEF LadderInv, Unloaded
<1>1. CASE SyncBounty
  BY <1>1 DEF SyncBounty, engineVars, TypeOK
<1>2. CASE Announce \/ ArmingDone \/ Arm \/ CloseWindow \/ ResultShown \/ ChecksDone
           \/ GoIdle
  BY <1>2 DEF Announce, ArmingDone, Arm, CloseWindow, ResultShown, ChecksDone, GoIdle,
     engineVars
<1>3. CASE TakeAnswer \/ TakeExternal
  BY <1>3 DEF TakeAnswer, TakeExternal
<1>4. ASSUME NEW p \in Player, NEW bump \in 1..MaxBump, Flag(p, bump)
      PROVE  Unloaded'
  BY <1>4 DEF Flag
<1>5. CASE CooldownEnds \/ Restart \/ UNCHANGED <<stage, underTest, cur>>
  BY <1>5 DEF CooldownEnds, Restart
<1> QED
  BY <1>1, <1>2, <1>3, <1>4, <1>5
  DEF Next, vars, engineVars, Answer, Relink, AdminSave, AdminPush, WriteLands,
      WriteFails, BountyMoves

-----------------------------------------------------------------------------
\* Types, the bench and the rows' rungs, in every reachable state.
THEOREM LadderInvariant == Spec => []LadderInv
<1>1. LadderInv /\ [Next]_vars => LadderInv'
  BY NextType, NextFits, NextExclusive, NextUnloaded DEF LadderInv
<1> QED BY InitHolds, <1>1, PTL DEF Spec

\* applySanctionN, applyExternalSanction and handleAnswer between them never
\* leave a question open to somebody who is cooling down or ignored.
THEOREM RungsAlwaysExclusive == Spec => []RungsExclusive
<1>1. LadderInv => RungsExclusive
  BY DEF LadderInv
<1> QED BY <1>1, LadderInvariant, PTL

\* SanctionForChecks and applySanction agree about every row, wherever it is
\* and however it came there.
THEOREM RungAlwaysFollowsCount == Spec => []RungFollowsCount
<1>1. LadderInv => RungFollowsCount
  BY DEF LadderInv, AllFit, Fits, RungFollowsCount
<1> QED BY <1>1, LadderInvariant, PTL

\* handleAnswer: the bench is left by the right answer to the outstanding
\* question, by climbing, by an edit, by a new bounty or with the process.
THEOREM AnswersAloneFree == Spec => OnlyTheAnswerFrees
<1> DEFINE Freed ==
      \A p \in underTest :
        p \notin underTest' /\ cur' = cur /\ ext' = ext =>
          \/ answers # <<>> /\ Head(answers) =
               [player |-> p, id |-> pendingTests[p], correct |-> TRUE]
          \/ sanctions'[p].checks > sanctions[p].checks
<1>1. LadderInv /\ [Next]_vars => [Freed]_vars
  <2> SUFFICES ASSUME LadderInv, Next PROVE Freed
    OBVIOUS
  <2>1. CASE SyncBounty
    BY <2>1 DEF SyncBounty, engineVars
  <2>2. CASE TakeAnswer
    <3> SUFFICES ASSUME NEW p \in underTest, p \notin underTest'
                 PROVE  answers # <<>> /\ Head(answers) =
                          [player |-> p, id |-> pendingTests[p], correct |-> TRUE]
      OBVIOUS
    <3>1. /\ answers # <<>> /\ Settles(Head(answers)) /\ Head(answers).correct
          /\ underTest' = underTest \ {Head(answers).player}
      BY <2>2 DEF TakeAnswer
    <3>2. Head(answers) \in [player : Player, id : Nat, correct : BOOLEAN]
      <4> DEFINE X == [player : Player, id : Nat, correct : BOOLEAN]
      <4>1. answers \in Seq(X)
        BY DEF LadderInv, TypeOK
      <4> HIDE DEF X
      <4>2. Head(answers) \in X
        BY <3>1, <4>1
      <4> QED BY <4>2 DEF X
    <3>3. /\ Head(answers).player = p /\ Head(answers).id = pendingTests[p]
          /\ Head(answers).correct = TRUE
      BY <3>1, <3>2 DEF Settles
    <3> QED BY <3>1, <3>2, <3>3
  <2>3. CASE TakeExternal
    <3>1. Len(ext') # Len(ext)
      <4>1. ext # <<>> /\ ext' = Tail(ext)
        BY <2>3 DEF TakeExternal
      <4>2. Len(ext') = Len(ext) - 1
        BY <4>1, HeadOfExt DEF LadderInv
      <4>3. Len(ext) \in Nat
        BY DEF LadderInv, TypeOK
      <4> DEFINE n == Len(ext)
                 m == Len(ext')
      <4>4. n \in Nat /\ m = n - 1
        BY <4>2, <4>3
      <4> HIDE DEF n, m
      <4>5. m # n
        BY <4>4
      <4> QED BY <4>5 DEF n, m
    <3> QED BY <3>1
  <2>4. ASSUME NEW p \in Player, NEW bump \in 1..MaxBump, Flag(p, bump)
        PROVE  Freed
    <3>1. p \notin underTest /\ underTest \ {p} \subseteq underTest'
      BY <2>4 DEF Flag, Blocked, Bench
    <3> QED BY <3>1
  <2>5. CASE Restart
    BY <2>5 DEF Restart, LadderInv, Unloaded
  <2>6. CASE underTest' = underTest
    BY <2>6
  <2> QED
    BY <2>1, <2>2, <2>3, <2>4, <2>5, <2>6
    DEF Next, engineVars, Announce, ArmingDone, Arm, CloseWindow, ResultShown,
        ChecksDone, GoIdle, Answer, Relink, AdminSave, AdminPush, WriteLands,
        WriteFails, BountyMoves, CooldownEnds
<1> QED BY <1>1, LadderInvariant, PTL DEF Spec, OnlyTheAnswerFrees

\* notifySanctions: whoever frames reach sees its rung as a round begins to arm,
\* and the question the server waits for; whoever left the ladder sees nothing.
THEOREM ArmingAlwaysShows == Spec => ArmingShowsTheRung
<1> DEFINE Seen ==
      stage # "arming" /\ stage' = "arming" =>
        \A p \in Player :
          LET rung == RungOf(sanctions[p], p \in underTest)
          IN  link[p] = "on" /\ (rung # "none" \/ notified[p] # "none") =>
                /\ overlay'[p].rung = rung
                /\ rung = "test" => overlay'[p].id = pendingTests'[p]
<1>1. [Next]_vars => [Seen]_vars
  <2> SUFFICES ASSUME Next PROVE Seen
    OBVIOUS
  <2>1. CASE Announce
    <3> SUFFICES ASSUME NEW p \in Player, link[p] = "on"
        PROVE  LET rung == RungOf(sanctions[p], p \in underTest)
               IN  rung # "none" \/ notified[p] # "none" =>
                     /\ overlay'[p].rung = rung
                     /\ rung = "test" => overlay'[p].id = pendingTests'[p]
      OBVIOUS
    <3> DEFINE rung == RungOf(sanctions[p], p \in underTest)
    <3>1. overlay'[p] = IF rung # "none" THEN Told(p, rung, pendingTests')
                        ELSE IF notified[p] # "none" THEN Shown(p, Dark) ELSE overlay[p]
      BY <2>1 DEF Announce, Reconciled
    <3> HIDE DEF rung
    <3> QED BY <3>1 DEF Told, Shown, Dark, rung
  <2>2. CASE SyncBounty \/ ArmingDone \/ Arm \/ CloseWindow \/ ResultShown \/ ChecksDone
             \/ GoIdle \/ Restart
    BY <2>2 DEF SyncBounty, ArmingDone, Arm, CloseWindow, ResultShown, ChecksDone,
       GoIdle, Restart
  <2>3. CASE stage' = stage
    BY <2>3
  <2> QED
    BY <2>1, <2>2, <2>3
    DEF Next, engineVars, storeVars, TakeAnswer, TakeExternal, Flag, Answer, Relink,
        AdminSave, AdminPush, WriteLands, WriteFails, BountyMoves, CooldownEnds
<1> QED BY <1>1, PTL DEF Spec, ArmingShowsTheRung
==============================================================================
