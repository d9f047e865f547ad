-------------------------- MODULE BountyQueueProofs --------------------------
(***************************************************************************)
(* Theorems about the queue of bounties (BountyQueue), for any number of   *)
(* players and bounties and any bounds on the clock, the games, the host's *)
(* edits and the failures.                                                 *)
(***************************************************************************)
EXTENDS BountyQueue, Extremes

\* The shapes of the state.
Shapes ==
  /\ now \in 0..MaxNow
  /\ table \in [Id -> Row]
  /\ ended \in Nat
  /\ IsFiniteSet(games)
  /\ \A g \in games : g.id \in 1..ended /\ g.at \in 0..now /\ g.by \in Player
  /\ after \in {"none", "record", "hook"}
  /\ after = "record" =>
       latest.id \in 1..ended /\ latest.at \in 0..now /\ latest.by \in Player
  /\ pass \in [at : {"asleep", "advance", "compare", "refresh"}, now : 0..MaxNow,
               before : {0} \cup Id]
  /\ pass.now <= now
  /\ reads \in [{"game", "finalizer"} -> {Unread, 0} \cup Id]
  /\ cache \in {0} \cup Id

OneActive == \A b, c \in In("active") : b = c

\* What was settled had run out by the time of the pass, and a pass that is on
\* has a later time than any before it.
SettledWereDue ==
  \A b \in Won :
    /\ table[b].win <= now
    /\ pass.at # "asleep" => table[b].win <= pass.now

\* The inductive invariant.
QueueInv ==
  /\ Shapes
  /\ OneActive
  /\ SettledWereDue
  /\ WindowsFollowOn

-----------------------------------------------------------------------------
(* What the operators return.                                              *)

LEMMA Parameters ==
  /\ Players \in Nat \ {0} /\ Bounties \in Nat /\ MaxNow \in Nat
  /\ Id \in SUBSET Nat /\ 0 \notin Id
BY QueueAssumption DEF QueueAssumption, Id

\* There is a first of the pending rows: among the earliest deadlines, the
\* lowest id.
LEMMA EarliestIsOne ==
  ASSUME table \in [Id -> Row], NEW S \in SUBSET Id, S # {}
  PROVE  Earliest(S) \in S
<1> DEFINE D == {table[b].win : b \in S}
<1>1. \A b \in S : b \in Nat /\ table[b].win \in Nat
  BY Parameters DEF Row
<1>2. D \in SUBSET Nat /\ D # {}
  BY <1>1
<1>3. PICK d \in D : \A y \in D : d <= y
  <2> HIDE DEF D
  <2> QED BY <1>2, LeastExists
<1> DEFINE F == {b \in S : table[b].win = d}
<1>4. F \in SUBSET Nat /\ F # {}
  BY <1>1, <1>3
<1>5. PICK b \in F : \A c \in F : b <= c
  <2> HIDE DEF F
  <2> QED BY <1>4, LeastExists
<1>6. b \in S /\ \A c \in S :
        table[b].win < table[c].win \/ (table[b].win = table[c].win /\ b <= c)
  <2> SUFFICES ASSUME NEW c \in S
      PROVE  table[b].win < table[c].win \/ (table[b].win = table[c].win /\ b <= c)
    OBVIOUS
  <2>1. table[b].win = d /\ d <= table[c].win /\ d \in Nat /\ table[c].win \in Nat
    BY <1>1, <1>2, <1>3
  <2>2. table[c].win = d => b <= c
    BY <1>5
  <2> QED BY <2>1, <2>2
<1> HIDE DEF F, D
<1> QED BY <1>6 DEF Earliest

\* The winner of a window is a player, or nobody.
LEMMA WinnerIsPlayer ==
  ASSUME IsFiniteSet(games), NEW row
  PROVE  WindowWinner(row) \in {Nobody} \cup Player
<1> DEFINE wins(p) == Cardinality({g \in games : g.by = p /\ Counts(g, row)})
           some == {p \in Player : wins(p) > 0}
           first(p) == \A q \in some :
                         wins(p) > wins(q) \/ (wins(p) = wins(q) /\ p <= q)
<1>1. WindowWinner(row) = IF some = {} THEN Nobody ELSE CHOOSE p \in some : first(p)
  BY DEF WindowWinner
<1>2. \A p \in Player : p \in Nat /\ wins(p) \in Nat
  <2> SUFFICES ASSUME NEW p \in Player PROVE p \in Nat /\ wins(p) \in Nat
    OBVIOUS
  <2>1. IsFiniteSet({g \in games : g.by = p /\ Counts(g, row)})
    BY FS_Subset
  <2> QED BY <2>1, FS_CardinalityType, Parameters DEF Player
<1>3. ASSUME some # {} PROVE \E p \in some : first(p)
  <2> HIDE DEF wins
  <2> DEFINE N == {wins(p) : p \in some}
  <2>1. N \in SUBSET Nat /\ N # {}
    BY <1>2, <1>3
  <2>2. IsFiniteSet(N)
    <3>1. IsFiniteSet(some)
      <4>1. IsFiniteSet(Player)
        BY FS_Interval, Parameters DEF Player
      <4> QED BY <4>1, FS_Subset
    <3>2. [p \in some |-> wins(p)] \in Surjection(some, N)
      BY DEF Surjection
    <3> HIDE DEF N, some
    <3> QED BY <3>1, <3>2, FS_Surjection, Zenon
  <2>3. PICK m \in N : \A y \in N : y <= m
    <3> HIDE DEF N
    <3> QED BY <2>1, <2>2, GreatestExists
  <2> DEFINE F == {p \in some : wins(p) = m}
  <2>4. F \in SUBSET Nat /\ F # {}
    BY <1>2, <2>3
  <2>5. PICK p \in F : \A q \in F : p <= q
    <3> HIDE DEF F
    <3> QED BY <2>4, LeastExists
  <2>6. \A q \in some : wins(p) > wins(q) \/ (wins(p) = wins(q) /\ p <= q)
    <3> SUFFICES ASSUME NEW q \in some
                 PROVE  wins(p) > wins(q) \/ (wins(p) = wins(q) /\ p <= q)
      OBVIOUS
    <3>1. wins(p) = m /\ wins(q) <= m /\ wins(q) \in Nat /\ m \in Nat
      BY <1>2, <2>1, <2>3
    <3>2. wins(q) = m => p <= q
      BY <2>5
    <3> QED BY <3>1, <3>2
  <2> QED BY <2>6
<1>4. some \subseteq Player
  OBVIOUS
<1> HIDE DEF first, some
<1> QED BY <1>1, <1>3, <1>4

\* Settling a row changes its status and its winner.
LEMMA SettledRow ==
  ASSUME IsFiniteSet(games), NEW row \in Row
  PROVE  /\ Settled(row) \in Row /\ Settled(row).status = "won"
         /\ Settled(row).win = row.win /\ Settled(row).from = row.from
<1>1. WindowWinner(row) \in {Nobody} \cup Player
  BY WinnerIsPlayer
<1> QED BY <1>1 DEF Settled, Row

\* What a step of the queue does: the active row, if there is one, has run out
\* and is settled; the next, if there is one, starts where it ended, or at the
\* time of the pass if there was none.
Stepped(e, start) ==
  table' = [c \in Id |->
    IF c \in In("active") THEN Settled(table[c])
    ELSE IF c = e THEN [table[c] EXCEPT !.status = "active", !.from = start]
    ELSE table[c]]

LEMMA AdvanceStep ==
  ASSUME Shapes, OneActive, NEW S \in SUBSET In("pending"), Advance(S)
  PROVE  \E e \in {0} \cup S, start \in 0..MaxNow :
           /\ Stepped(e, start)
           /\ \A b \in In("active") : Due(table[b]) /\ start = table[b].win
           /\ In("active") = {} => start = pass.now
<1>1. S \in SUBSET Id /\ S \cap In("active") = {}
  BY DEF In
<1>2. S # {} => Earliest(S) \in S
  BY <1>1, EarliestIsOne DEF Shapes
<1>3. ASSUME NEW b \in In("active"), Due(table[b]),
             table' = Promoted([table EXCEPT ![b] = Settled(@)], S, PromoteFrom(b))
      PROVE  \E e \in {0} \cup S, start \in 0..MaxNow :
               /\ Stepped(e, start)
               /\ \A c \in In("active") : Due(table[c]) /\ start = table[c].win
               /\ In("active") = {} => start = pass.now
  <2>1. In("active") = {b} /\ b \in Id /\ table[b].win \in 0..MaxNow
    BY <1>3 DEF OneActive, In, Shapes, Row
  <2>2. CASE S = {}
    <3>1. Stepped(0, table[b].win)
      BY <1>3, <2>1, <2>2, Parameters DEF Promoted, Stepped, Shapes
    <3> QED BY <1>3, <2>1, <3>1
  <2>3. CASE S # {}
    <3> DEFINE e == Earliest(S)
    <3>1. e \in S /\ e \in Id /\ e # b
      BY <1>1, <1>2, <2>1, <2>3
    <3> DEFINE t == [table EXCEPT ![b] = Settled(@)]
    <3>2. table' = [t EXCEPT ![e].status = "active", ![e].from = table[b].win]
      BY <1>3, <2>3 DEF Promoted, PromoteFrom
    <3> HIDE DEF e
    <3>t. /\ t = [c \in Id |-> t[c]]
          /\ \A c \in Id : t[c] = IF c = b THEN Settled(table[b]) ELSE table[c]
      BY <2>1 DEF Shapes
    <3> HIDE DEF t
    <3>3. table' = [c \in Id |->
            IF c = e THEN [t[c] EXCEPT !.status = "active", !.from = table[b].win]
            ELSE t[c]]
      BY <3>1, <3>2, <3>t
    <3>4. Stepped(e, table[b].win)
      BY <2>1, <3>1, <3>3, <3>t DEF Stepped
    <3> QED BY <1>3, <2>1, <3>1, <3>4
  <2> QED BY <2>2, <2>3
<1>4. ASSUME In("active") = {}, S # {}, table' = Promoted(table, S, pass.now)
      PROVE  \E e \in {0} \cup S, start \in 0..MaxNow :
               /\ Stepped(e, start)
               /\ \A c \in In("active") : Due(table[c]) /\ start = table[c].win
               /\ In("active") = {} => start = pass.now
  <2> DEFINE e == Earliest(S)
  <2>1. e \in S /\ e \in Id
    BY <1>1, <1>2, <1>4
  <2>2. table' = [table EXCEPT ![e].status = "active", ![e].from = pass.now]
    BY <1>4 DEF Promoted
  <2> HIDE DEF e
  <2>3. Stepped(e, pass.now)
    BY <1>4, <2>1, <2>2 DEF Stepped, Shapes
  <2>4. pass.now \in 0..MaxNow
    BY DEF Shapes
  <2> QED BY <1>4, <2>1, <2>3, <2>4
<1> QED BY <1>3, <1>4 DEF Advance

\* The host's new row takes the place of an unused one.
LEMMA CreateRow ==
  ASSUME Shapes, NEW w \in 1..MaxNow, Create(w)
  PROVE  \E b \in In("unused") :
           table' = [table EXCEPT ![b] = [Unused EXCEPT !.status = "pending", !.win = w]]
<1>1. In("unused") \in SUBSET Nat /\ In("unused") # {}
  BY Parameters DEF In, Create
<1>2. Min(In("unused")) \in In("unused")
  BY <1>1, MinIsLeast
<1> QED BY <1>2 DEF Create

-----------------------------------------------------------------------------
(* What a step may do to the table.                                        *)

\* Anybody but the finalizer: no row is settled or promoted, and the window of
\* a won row and the start of the active one stay.
Kept ==
  /\ table' \in [Id -> Row]
  /\ \A c \in Id :
       /\ table'[c].status = "active" <=> table[c].status = "active"
       /\ table'[c].status = "won" <=> table[c].status = "won"
       /\ table[c].status \in {"active", "won"} => table'[c].from = table[c].from
       /\ table[c].status = "won" =>
            table'[c].win = table[c].win /\ table'[c].winner = table[c].winner

\* A step of the queue.
Advanced ==
  /\ pass.at = "advance"
  /\ \E S \in SUBSET In("pending") : Advance(S)
  /\ UNCHANGED <<now, games, ended, after, latest, pass, reads, cache>>

LEMMA CreateKeeps ==
  ASSUME Shapes, NEW w \in 1..MaxNow, Create(w)
  PROVE  Kept
<1> DEFINE row == [Unused EXCEPT !.status = "pending", !.win = w]
<1>1. row \in Row /\ row.status = "pending"
  <2>1. Unused \in Row
    BY Parameters DEF Row, Unused
  <2>2. w \in 0..MaxNow
    BY Parameters
  <2> QED BY <2>1, <2>2 DEF Row
<1> HIDE DEF row
<1>2. PICK b \in In("unused") : table' = [table EXCEPT ![b] = row]
  BY CreateRow DEF row
<1>3. b \in Id /\ table[b].status = "unused"
  BY <1>2 DEF In
<1> QED BY <1>1, <1>2, <1>3 DEF Kept, Shapes

LEMMA EditKeeps ==
  ASSUME Shapes, NEW b \in Id, Edit(b)
  PROVE  Kept
<1>1. table[b] \in Row
  BY DEF Shapes
<1>2. ASSUME Editable(b), NEW w \in 1..MaxNow, table' = [table EXCEPT ![b].win = w]
      PROVE  Kept
  <2> DEFINE r == [table[b] EXCEPT !.win = w]
  <2>1. r \in Row /\ r.status = table[b].status /\ r.from = table[b].from
    BY <1>1, Parameters DEF Row
  <2>2. table' = [table EXCEPT ![b] = r] /\ table[b].status # "won"
    BY <1>2 DEF Editable
  <2> HIDE DEF r
  <2> QED BY <2>1, <2>2 DEF Kept, Shapes
<1>3. ASSUME table[b].status = "pending", table' = [table EXCEPT ![b].status = "deleted"]
      PROVE  Kept
  <2> DEFINE r == [table[b] EXCEPT !.status = "deleted"]
  <2>1. r \in Row /\ r.status = "deleted"
    BY <1>1 DEF Row
  <2>2. table' = [table EXCEPT ![b] = r]
    BY <1>3
  <2> HIDE DEF r
  <2> QED BY <1>3, <2>1, <2>2 DEF Kept, Shapes
<1>4. ASSUME table' = [table EXCEPT ![b].archived = ~@]
      PROVE  Kept
  <2> DEFINE r == [table[b] EXCEPT !.archived = ~@]
  <2>1. /\ r \in Row /\ r.status = table[b].status /\ r.from = table[b].from
        /\ r.win = table[b].win /\ r.winner = table[b].winner
    BY <1>1 DEF Row
  <2>2. table' = [table EXCEPT ![b] = r]
    BY <1>4
  <2> HIDE DEF r
  <2> QED BY <2>1, <2>2 DEF Kept, Shapes
<1> QED BY <1>2, <1>3, <1>4 DEF Edit

\* Every step is a step of the queue, or keeps what matters of the table.
LEMMA StepKinds ==
  ASSUME Shapes, [Next]_vars
  PROVE  Kept \/ Advanced
<1> SUFFICES ASSUME ~Kept PROVE Advanced
  OBVIOUS
<1>1. table' # table
  BY DEF Kept, Shapes
<1>2. CASE StepQueue
  <2>1. In("pending") \in SUBSET In("pending")
    OBVIOUS
  <2> QED BY <1>2, <2>1 DEF StepQueue, Advanced
<1>3. CASE StepPastLocked
  <2>1. \A L : In("pending") \ L \in SUBSET In("pending")
    OBVIOUS
  <2> QED BY <1>3, <2>1 DEF StepPastLocked, Advanced
<1>4. CASE \E w \in 1..MaxNow : Create(w)
  BY <1>4, CreateKeeps
<1>5. CASE \E b \in Id : Edit(b)
  BY <1>5, EditKeeps
<1> QED BY <1>1, <1>2, <1>3, <1>4, <1>5
      DEF Next, vars, queue, BeginPass, StepsDone, AllLocked, PassFails, CompareIds, ReadActive,
          Swap, RefreshFails, Return, GameEnds, RecordGame, RecordFails, Tick, Restart

\* A step of the queue, row by row.
LEMMA AdvancedRows ==
  ASSUME Shapes, OneActive, Advanced
  PROVE  /\ table' \in [Id -> Row]
         /\ \E e \in {0} \cup In("pending"), start \in 0..MaxNow :
              /\ \A c \in In("active") :
                   /\ table'[c].status = "won"
                   /\ table'[c].win = table[c].win /\ table'[c].from = table[c].from
                   /\ table[c].win <= pass.now /\ start = table[c].win
              /\ e # 0 => table'[e].status = "active" /\ table'[e].from = start
              /\ \A c \in Id : c \notin In("active") /\ c # e => table'[c] = table[c]
              /\ In("active") = {} => start = pass.now
<1>1. PICK S \in SUBSET In("pending") : Advance(S)
  BY DEF Advanced
<1>2. PICK e \in {0} \cup S, start \in 0..MaxNow :
        /\ Stepped(e, start)
        /\ \A b \in In("active") : Due(table[b]) /\ start = table[b].win
        /\ In("active") = {} => start = pass.now
  BY <1>1, AdvanceStep
<1>3. IsFiniteSet(games) /\ \A c \in Id : table[c] \in Row
  BY DEF Shapes
<1>4. \A c \in Id : /\ Settled(table[c]) \in Row /\ Settled(table[c]).status = "won"
                    /\ Settled(table[c]).win = table[c].win
                    /\ Settled(table[c]).from = table[c].from
  BY <1>3, SettledRow
<1> DEFINE up(c) == [table[c] EXCEPT !.status = "active", !.from = start]
<1>5. \A c \in Id : up(c) \in Row /\ up(c).status = "active" /\ up(c).from = start
  BY <1>3 DEF Row
<1>6. table' = [c \in Id |-> IF c \in In("active") THEN Settled(table[c])
                            ELSE IF c = e THEN up(c) ELSE table[c]]
  BY <1>2 DEF Stepped
<1> HIDE DEF up
<1>7. table' \in [Id -> Row]
  BY <1>3, <1>4, <1>5, <1>6
<1>8. e # 0 => e \in Id /\ e \notin In("active")
  BY <1>1 DEF In
<1> QED BY <1>2, <1>4, <1>5, <1>6, <1>7, <1>8 DEF In, Due

-----------------------------------------------------------------------------
(* The inductive invariant.                                                *)

LEMMA ActiveOrNone ==
  ASSUME table \in [Id -> Row]
  PROVE  Current \in {0} \cup Id
<1>1. In("active") \in SUBSET Id /\ Id \in SUBSET Nat
  BY Parameters DEF In
<1>2. IsFiniteSet(In("active"))
  <2>1. IsFiniteSet(Id)
    BY FS_Interval, Parameters DEF Id
  <2> QED BY <1>1, <2>1, FS_Subset
<1>3. ASSUME In("active") # {} PROVE Max(In("active")) \in In("active")
  BY <1>1, <1>2, <1>3, MaxIsGreatest
<1>4. (\E b \in In("active") : ~table[b].archived) => In("active") # {}
  OBVIOUS
<1> QED BY <1>1, <1>3, <1>4 DEF Current

\* The clock does not go back, and a pass keeps its time.
LEMMA TimeGoesOn ==
  ASSUME Shapes, [Next]_vars
  PROVE  /\ now' \in 0..MaxNow /\ now <= now'
         /\ pass' \in [at : {"asleep", "advance", "compare", "refresh"},
                       now : 0..MaxNow, before : {0} \cup Id]
         /\ pass'.now <= now'
         /\ pass'.at # "asleep" =>
              \/ pass'.now = now
              \/ pass.at # "asleep" /\ pass'.now = pass.now
<1>1. now \in Nat /\ MaxNow \in Nat /\ now \in 0..MaxNow /\ table \in [Id -> Row]
  BY Parameters DEF Shapes
<1>2. /\ pass \in [at : {"asleep", "advance", "compare", "refresh"},
                   now : 0..MaxNow, before : {0} \cup Id]
      /\ pass.now <= now
  BY DEF Shapes
<1>3. CASE Tick
  BY <1>1, <1>2, <1>3 DEF Tick
<1>4. CASE BeginPass
  <2>1. now' = now
    BY <1>4 DEF BeginPass, queue
  <2>2. Current \in {0} \cup Id
    BY <1>1, ActiveOrNone
  <2>3. PICK id \in {0} \cup Id : pass' = [at |-> "advance", now |-> now, before |-> id]
    BY <1>4, <2>2 DEF BeginPass
  <2> QED BY <1>1, <2>1, <2>3
<1>5. CASE now' = now /\ pass' = Asleep
  BY <1>1, <1>5 DEF Asleep
<1>6. CASE now' = now /\ pass' = [pass EXCEPT !.at = "compare"] /\ pass.at = "advance"
  BY <1>1, <1>2, <1>6
<1>7. CASE now' = now /\ pass' = [pass EXCEPT !.at = "refresh"] /\ pass.at = "compare"
  BY <1>1, <1>2, <1>7
<1>8. CASE now' = now /\ pass' = pass
  BY <1>1, <1>2, <1>8
<1>9. CASE CompareIds
  BY <1>5, <1>7, <1>9 DEF CompareIds, Compare, queue
<1>10. CASE StepsDone \/ AllLocked
  BY <1>6, <1>10 DEF StepsDone, AllLocked, queue
<1> QED BY <1>3, <1>4, <1>5, <1>8, <1>9, <1>10
      DEF Next, vars, queue, StepQueue, StepPastLocked, PassFails, ReadActive, Swap,
          RefreshFails, Return, GameEnds, RecordGame, RecordFails, Create, Edit, Restart

LEMMA InitHolds == Init => QueueInv
<1> SUFFICES ASSUME Init PROVE QueueInv
  OBVIOUS
<1>1. Shapes
  <2>1. Unused \in Row
    BY Parameters DEF Unused, Row
  <2>2. IsFiniteSet({})
    BY FS_EmptySet
  <2> QED BY <2>1, <2>2, Parameters DEF Init, Shapes, Asleep, Unread
<1>2. \A status : status # "unused" => In(status) = {}
  BY DEF Init, In, Unused
<1>3. In("active") = {} /\ Won = {}
  BY <1>2 DEF Won
<1> QED BY <1>1, <1>3 DEF QueueInv, OneActive, SettledWereDue, WindowsFollowOn

LEMMA StepKeepsShapes ==
  ASSUME Shapes, OneActive, [Next]_vars
  PROVE  Shapes'
<1>1. table' \in [Id -> Row]
  BY StepKinds, AdvancedRows DEF Kept
<1>2. /\ now' \in 0..MaxNow /\ now <= now' /\ pass'.now <= now'
      /\ pass' \in [at : {"asleep", "advance", "compare", "refresh"}, now : 0..MaxNow,
                    before : {0} \cup Id]
  BY TimeGoesOn
<1>3. now \in Nat /\ now' \in Nat /\ ended \in Nat
  BY <1>2, Parameters DEF Shapes
<1>4. Current \in {0} \cup Id
  BY ActiveOrNone DEF Shapes
<1>5. reads' \in [{"game", "finalizer"} -> {Unread, 0} \cup Id] /\ cache' \in {0} \cup Id
  <2>1. /\ reads \in [{"game", "finalizer"} -> {Unread, 0} \cup Id] /\ cache \in {0} \cup Id
    BY DEF Shapes
  <2>2. ASSUME NEW who \in {"game", "finalizer"}, reads[who] # Unread
        PROVE  Swapped(reads[who]) \in {0} \cup Id
    BY <2>1, <2>2 DEF Swapped
  <2>3. CASE \E who \in {"game", "finalizer"} : ReadActive(who) \/ Swap(who) \/ RefreshFails(who)
    BY <1>4, <2>1, <2>2, <2>3 DEF ReadActive, Swap, RefreshFails, Return
  <2>4. CASE Restart
    BY <1>4, <2>4 DEF Restart
  <2> QED BY <2>1, <2>3, <2>4
        DEF Next, vars, queue, BeginPass, StepQueue, StepPastLocked, StepsDone, AllLocked, PassFails,
            CompareIds, GameEnds, RecordGame, RecordFails, Create, Edit, Tick
<1>6. /\ ended' \in Nat /\ IsFiniteSet(games')
      /\ \A g \in games' : g.id \in 1..ended' /\ g.at \in 0..now' /\ g.by \in Player
      /\ after' \in {"none", "record", "hook"}
      /\ after' = "record" =>
           latest'.id \in 1..ended' /\ latest'.at \in 0..now' /\ latest'.by \in Player
  <2>1. /\ IsFiniteSet(games) /\ after \in {"none", "record", "hook"}
        /\ \A g \in games : g.id \in 1..ended /\ g.at \in 0..now /\ g.by \in Player
        /\ after = "record" =>
             latest.id \in 1..ended /\ latest.at \in 0..now /\ latest.by \in Player
    BY DEF Shapes
  <2>2. CASE GameEnds
    <3>1. games' = games /\ now' = now
      BY <2>2 DEF GameEnds
    <3>2. ASSUME ended' = ended + 1, after' = "record", NEW p \in Player,
                 latest' = [id |-> ended', at |-> now, by |-> p]
          PROVE  /\ ended' \in Nat /\ \A g \in games : g.id \in 1..ended'
                 /\ latest'.id \in 1..ended' /\ latest'.at \in 0..now /\ latest'.by \in Player
      BY <1>3, <2>1, <3>2
    <3>3. CASE UNCHANGED <<ended, latest>> /\ after' = "hook"
      BY <1>3, <2>1, <3>1, <3>3
    <3> QED BY <1>3, <2>1, <2>2, <3>1, <3>2, <3>3 DEF GameEnds
  <2>3. CASE RecordGame
    <3>1. IsFiniteSet(games \cup {latest})
      BY <2>1, FS_AddElement
    <3> QED BY <1>3, <2>1, <2>3, <3>1 DEF RecordGame
  <2>4. CASE ended' = ended /\ games' = games /\ latest' = latest
               /\ (after' = after \/ after' \in {"none", "hook"})
    BY <1>2, <1>3, <2>1, <2>4
  <2>5. CASE ended' = ended /\ games' = games /\ after' \in {"none", "hook"}
    BY <1>2, <1>3, <2>1, <2>5
  <2> QED BY <2>2, <2>3, <2>4, <2>5
        DEF Next, vars, queue, BeginPass, StepQueue, StepPastLocked, StepsDone, AllLocked, PassFails,
            CompareIds, ReadActive, Swap, RefreshFails, Return, RecordFails, Create, Edit,
            Tick, Restart
<1> QED BY <1>1, <1>2, <1>5, <1>6 DEF Shapes

\* The active and the won bounties before and after a step of the queue.
LEMMA AdvancedSets ==
  ASSUME Shapes, OneActive, Advanced
  PROVE  \E e \in {0} \cup Id, start \in 0..MaxNow :
           /\ \A b \in Id : table'[b].status = "active" =>
                b = e /\ table'[b].from = start
           /\ \A b \in Id : table[b].status = "won" => table'[b] = table[b]
           /\ \A b \in Id : table'[b].status = "won" => table[b].status \in {"active", "won"}
           /\ \A b \in Id : table[b].status = "active" =>
                /\ table'[b].status = "won"
                /\ table'[b].win = table[b].win /\ table'[b].from = table[b].from
                /\ table[b].win <= pass.now /\ start = table[b].win
           /\ In("active") = {} => start = pass.now
<1>1. PICK e \in {0} \cup In("pending"), start \in 0..MaxNow :
        /\ \A c \in In("active") :
             /\ table'[c].status = "won"
             /\ table'[c].win = table[c].win /\ table'[c].from = table[c].from
             /\ table[c].win <= pass.now /\ start = table[c].win
        /\ e # 0 => table'[e].status = "active" /\ table'[e].from = start
        /\ \A c \in Id : c \notin In("active") /\ c # e => table'[c] = table[c]
        /\ In("active") = {} => start = pass.now
  BY AdvancedRows
<1>2. \A c \in Id : c = e => table[c].status = "pending" /\ table'[c].status = "active"
  BY <1>1, Parameters DEF In
<1>3. \A c \in Id : c \in In("active") <=> table[c].status = "active"
  BY DEF In
<1>4. e \in {0} \cup Id
  BY DEF In
<1>5. \A c \in Id : table[c].status = "won" \/ table'[c].status = "won" =>
        c # e /\ (table[c].status = "active" \/ table'[c] = table[c])
  BY <1>1, <1>2, <1>3
<1>6. \A c \in Id : table'[c].status = "active" => c = e
  BY <1>1, <1>3
<1> QED
  <2> WITNESS e \in {0} \cup Id, start \in 0..MaxNow
  <2>1. \A b \in Id : table'[b].status = "active" => b = e /\ table'[b].from = start
    BY <1>1, <1>6, Parameters
  <2>2. \A b \in Id : table[b].status = "won" => table'[b] = table[b]
    BY <1>5
  <2>3. \A b \in Id : table'[b].status = "won" => table[b].status \in {"active", "won"}
    BY <1>5
  <2> QED BY <1>1, <1>3, <2>1, <2>2, <2>3

LEMMA StepKeepsOneActive ==
  ASSUME Shapes, OneActive, [Next]_vars
  PROVE  OneActive'
<1>1. CASE Kept
  BY <1>1 DEF Kept, OneActive, In
<1>2. CASE Advanced
  BY <1>2, AdvancedSets DEF OneActive, In
<1> QED BY <1>1, <1>2, StepKinds

LEMMA StepKeepsSettled ==
  ASSUME Shapes, Shapes', OneActive, SettledWereDue, [Next]_vars
  PROVE  SettledWereDue'
<1>1. /\ now <= now' /\ pass'.now <= now' /\ pass.now <= now
      /\ pass'.at # "asleep" =>
           pass'.now = now \/ (pass.at # "asleep" /\ pass'.now = pass.now)
  BY TimeGoesOn DEF Shapes
<1>2. /\ now \in Nat /\ now' \in Nat /\ pass.now \in Nat /\ pass'.now \in Nat
      /\ \A b \in Id : table[b].win \in Nat /\ table'[b].win \in Nat
  BY Parameters DEF Shapes, Row
<1>3. \A b \in Id : table[b].status = "won" =>
        table[b].win <= now /\ (pass.at # "asleep" => table[b].win <= pass.now)
  BY DEF SettledWereDue, Won, In
<1>4. CASE Kept
  <2>1. SUFFICES ASSUME NEW b \in Id, table'[b].status = "won"
                 PROVE  /\ table'[b].win <= now'
                        /\ pass'.at # "asleep" => table'[b].win <= pass'.now
    BY DEF SettledWereDue, Won, In
  <2>2. table[b].status = "won" /\ table'[b].win = table[b].win
    BY <1>4, <2>1 DEF Kept
  <2> QED BY <1>1, <1>2, <1>3, <2>2
<1>5. CASE Advanced
  <2>1. SUFFICES ASSUME NEW b \in Id, table'[b].status = "won"
                 PROVE  /\ table'[b].win <= now'
                        /\ pass'.at # "asleep" => table'[b].win <= pass'.now
    BY DEF SettledWereDue, Won, In
  <2>2. pass.at = "advance" /\ pass' = pass /\ now' = now
    BY <1>5 DEF Advanced
  <2>3. table[b].win <= pass.now /\ table'[b].win = table[b].win
    <3>1. CASE table[b].status = "won"
      BY <1>3, <1>5, <2>2, <3>1, AdvancedSets
    <3>2. CASE table[b].status # "won"
      BY <1>5, <2>1, <3>2, AdvancedSets
    <3> QED BY <3>1, <3>2
  <2> QED BY <1>1, <1>2, <2>2, <2>3
<1> QED BY <1>4, <1>5, StepKinds

\* The windows follow on: what a step settles ended after what was settled
\* before it, for its own window began there; and what a step promotes begins
\* where that ended, or now, when all that was settled has ended.
LEMMA StepKeepsWindows ==
  ASSUME Shapes, Shapes', OneActive, SettledWereDue, WindowsFollowOn, [Next]_vars
  PROVE  WindowsFollowOn'
<1> DEFINE won(b) == table[b].status = "won"
           act(b) == table[b].status = "active"
<1> SUFFICES ASSUME \A b \in Id : won(b)' => table'[b].from <= table'[b].win
             PROVE  /\ \A b, c \in Id : won(b)' /\ won(c)' /\ b # c =>
                          Span(table[b])' \cap Span(table[c])' = {}
                    /\ \A b, c \in Id : won(b)' /\ act(c)' =>
                          table'[b].win <= table'[c].from
  BY DEF WindowsFollowOn, Won, In
<1>1. \A b \in Id : /\ table[b].win \in Nat /\ table'[b].win \in Nat
                    /\ table[b].from \in Nat /\ table'[b].from \in Nat
  BY Parameters DEF Shapes, Row
<1>2. \A b \in Id : Span(table[b])' = {t \in 0..MaxNow : table'[b].from < t /\ t <= table'[b].win}
  BY DEF Span
<1>3. (\A b \in Id : won(b) => table[b].from <= table[b].win) =>
        /\ \A b, c \in Id : won(b) /\ won(c) /\ b # c => Span(table[b]) \cap Span(table[c]) = {}
        /\ \A b, c \in Id : won(b) /\ act(c) => table[b].win <= table[c].from
  BY DEF WindowsFollowOn, Won, In
<1>4. CASE Kept
  <2>1. \A b \in Id : /\ won(b)' <=> won(b)
                      /\ act(b)' <=> act(b)
                      /\ won(b) \/ act(b) => table'[b].from = table[b].from
                      /\ won(b) => table'[b].win = table[b].win
    BY <1>4 DEF Kept
  <2>2. \A b \in Id : won(b) => table[b].from <= table[b].win
    BY <2>1
  <2>3. \A b \in Id : won(b) => Span(table[b])' = Span(table[b])
    BY <1>2, <2>1 DEF Span
  <2> HIDE DEF won, act
  <2> QED BY <1>3, <2>1, <2>2, <2>3
<1>5. CASE Advanced
  <2>1. PICK e \in {0} \cup Id, start \in 0..MaxNow :
          /\ \A b \in Id : act(b)' => b = e /\ table'[b].from = start
          /\ \A b \in Id : won(b) => table'[b] = table[b]
          /\ \A b \in Id : won(b)' => act(b) \/ won(b)
          /\ \A b \in Id : act(b) =>
               /\ won(b)'
               /\ table'[b].win = table[b].win /\ table'[b].from = table[b].from
               /\ table[b].win <= pass.now /\ start = table[b].win
          /\ In("active") = {} => start = pass.now
    BY <1>5, AdvancedSets
  <2>2. \A b \in Id : won(b) => /\ won(b)'
                                /\ table'[b].win = table[b].win
                                /\ table'[b].from = table[b].from
    BY <2>1
  <2>3. \A b \in Id : won(b) => table[b].from <= table[b].win
    BY <2>2
  <2>4. \A b, c \in Id : won(b) /\ act(c) => table[b].win <= table[c].from
    BY <1>3, <2>3
  <2>5. \A b, c \in Id : act(b) /\ act(c) => b = c
    BY DEF OneActive, In
  <2>6. \A b \in Id : won(b) => table[b].win <= pass.now
    <3>1. pass.at = "advance"
      BY <1>5 DEF Advanced
    <3> QED BY <3>1 DEF SettledWereDue, Won, In
  <2>7. ASSUME NEW b \in Id, won(b), NEW c \in Id, won(c)', ~won(c)
        PROVE  Span(table[b])' \cap Span(table[c])' = {}
    <3>1. table'[b].win <= table'[c].from
      BY <2>1, <2>2, <2>4, <2>7
    <3> QED BY <1>1, <1>2, <3>1
  <2>8. ASSUME NEW b \in Id, NEW c \in Id, won(b), won(c), b # c
        PROVE  Span(table[b])' \cap Span(table[c])' = {}
    <3>1. Span(table[b]) \cap Span(table[c]) = {}
      BY <1>3, <2>3, <2>8
    <3>2. Span(table[b])' = Span(table[b]) /\ Span(table[c])' = Span(table[c])
      BY <1>2, <2>2, <2>8 DEF Span
    <3> QED BY <3>1, <3>2
  <2>9. ASSUME NEW b \in Id, NEW c \in Id, won(b)', won(c)', b # c
        PROVE  Span(table[b])' \cap Span(table[c])' = {}
    <3>1. CASE won(b) /\ won(c)
      BY <2>8, <2>9, <3>1
    <3>2. CASE won(b) /\ ~won(c)
      BY <2>7, <2>9, <3>2
    <3>3. CASE ~won(b) /\ won(c)
      <4>1. Span(table[c])' \cap Span(table[b])' = {}
        BY <2>7, <2>9, <3>3
      <4> QED BY <4>1
    <3>4. CASE ~won(b) /\ ~won(c)
      BY <2>1, <2>5, <2>9, <3>4
    <3> QED BY <3>1, <3>2, <3>3, <3>4
  <2>10. ASSUME NEW b \in Id, NEW c \in Id, won(b)', act(c)'
         PROVE  table'[b].win <= table'[c].from
    <3>1. table'[c].from = start /\ start \in Nat
      BY <1>1, <2>1, <2>10
    <3>2. ASSUME ~won(b) PROVE table'[b].win = start
      BY <2>1, <2>10, <3>2
    <3>3. ASSUME won(b) PROVE table[b].win <= start
      <4>1. CASE In("active") = {}
        BY <2>1, <2>6, <3>3, <4>1
      <4>2. ASSUME NEW d \in In("active") PROVE table[b].win <= start
        <5>1. d \in Id /\ act(d) /\ start = table[d].win
          BY <2>1, <4>2 DEF In
        <5>2. table[b].win <= table[d].from
          BY <2>4, <3>3, <5>1
        <5>3. table[d].from <= table[d].win
          BY <2>1, <5>1
        <5> QED BY <1>1, <5>1, <5>2, <5>3
      <4> QED BY <4>1, <4>2
    <3> QED BY <1>1, <2>2, <3>1, <3>2, <3>3
  <2> QED BY <2>9, <2>10
<1> QED BY <1>4, <1>5, StepKinds

-----------------------------------------------------------------------------
(* The theorems.                                                           *)

LEMMA StepKeepsInv == QueueInv /\ [Next]_vars => QueueInv'
<1> SUFFICES ASSUME QueueInv, [Next]_vars PROVE QueueInv'
  OBVIOUS
<1>1. Shapes /\ OneActive /\ SettledWereDue /\ WindowsFollowOn
  BY DEF QueueInv
<1>2. Shapes'
  BY <1>1, StepKeepsShapes
<1>3. OneActive'
  BY <1>1, StepKeepsOneActive
<1>4. SettledWereDue'
  BY <1>1, <1>2, StepKeepsSettled
<1>5. WindowsFollowOn'
  BY <1>1, <1>2, StepKeepsWindows
<1> QED BY <1>2, <1>3, <1>4, <1>5 DEF QueueInv

\* The shapes of the tables, one active bounty at most, settled bounties that
\* had run out, and windows that follow on: what every transaction on the queue,
\* the host's edits and the passes that fail keep together.
THEOREM QueueInvariant == Spec => []QueueInv
BY InitHolds, StepKeepsInv, PTL DEF Spec

\* The state has its types, and there is never more than one active bounty: no
\* order of the steps runs advanceBounty into the schema's unique index on it.
THEOREM AlwaysTyped == Spec => []TypeOK
<1>1. QueueInv => TypeOK
  <2> SUFFICES ASSUME QueueInv PROVE TypeOK
    OBVIOUS
  <2>1. Shapes /\ OneActive
    BY DEF QueueInv
  <2>2. Cardinality(In("active")) <= 1
    <3>1. CASE In("active") = {}
      BY <3>1, FS_EmptySet
    <3>2. ASSUME NEW b \in In("active") PROVE Cardinality(In("active")) <= 1
      <4>1. In("active") = {b}
        BY <2>1, <3>2 DEF OneActive
      <4> QED BY <4>1, FS_Singleton
    <3> QED BY <3>1, <3>2
  <2>3. pass.now \in 0..now
    BY <2>1, Parameters DEF Shapes
  <2> QED BY <2>1, <2>2, <2>3 DEF TypeOK, Shapes
<1> QED BY <1>1, QueueInvariant, PTL

\* As long as no bounty was promoted past its own deadline, settled windows do
\* not overlap and the open one begins where they have ended.
THEOREM WindowsAlwaysFollowOn == Spec => []WindowsFollowOn
<1>1. QueueInv => WindowsFollowOn
  BY DEF QueueInv
<1> QED BY <1>1, QueueInvariant, PTL

\* What FinalizeDueBounties promises, that every game is attributed to one
\* bounty, holds under the same condition: no game counts for two.
GamesCountOnceInTime ==
  (\A b \in Won : table[b].from <= table[b].win) =>
    \A g \in games : \A b, c \in Won :
      Counts(g, table[b]) /\ Counts(g, table[c]) => b = c

\* No game is counted for two bounties unless one was promoted past its own
\* deadline.
THEOREM GamesAlwaysCountOnceInTime == Spec => []GamesCountOnceInTime
<1>1. QueueInv => GamesCountOnceInTime
  <2> SUFFICES ASSUME QueueInv,
                      \A b \in Won : table[b].from <= table[b].win,
                      NEW g \in games, NEW b \in Won, NEW c \in Won,
                      Counts(g, table[b]), Counts(g, table[c]), b # c
               PROVE  FALSE
    BY DEF GamesCountOnceInTime
  <2>1. Span(table[b]) \cap Span(table[c]) = {}
    BY DEF QueueInv, WindowsFollowOn
  <2>2. g.at \in 0..MaxNow
    BY Parameters DEF QueueInv, Shapes
  <2> QED BY <2>1, <2>2 DEF Counts, Span
<1> QED BY <1>1, QueueInvariant, PTL

\* A won bounty keeps its window and its winner: UpdateBounty and DeleteBounty
\* leave it alone, and no later pass settles it again.
THEOREM WonStaysWon == Spec => WonIsFinal
<1>1. ASSUME QueueInv, [Next]_vars, NEW b \in Won
      PROVE  [table'[b] EXCEPT !.archived = FALSE] = [table[b] EXCEPT !.archived = FALSE]
  <2>1. b \in Id /\ table[b].status = "won" /\ table[b] \in Row
    BY <1>1 DEF Won, In, QueueInv, Shapes
  <2>2. Shapes /\ OneActive
    BY <1>1 DEF QueueInv
  <2>3. CASE Kept
    <3>1. /\ table'[b] \in Row /\ table'[b].status = table[b].status
          /\ table'[b].win = table[b].win /\ table'[b].from = table[b].from
          /\ table'[b].winner = table[b].winner
      BY <2>1, <2>3 DEF Kept
    <3> QED BY <2>1, <3>1 DEF Row
  <2>4. CASE Advanced
    <3>1. table'[b] = table[b]
      BY <2>1, <2>2, <2>4, AdvancedSets
    <3> QED BY <3>1
  <2> QED BY <1>1, <2>2, <2>3, <2>4, StepKinds
<1>2. QueueInv /\ [Next]_vars =>
        [\A b \in Won : [table'[b] EXCEPT !.archived = FALSE]
                        = [table[b] EXCEPT !.archived = FALSE]]_vars
  BY <1>1
<1> QED BY <1>2, QueueInvariant, PTL DEF Spec, WonIsFinal
==============================================================================
