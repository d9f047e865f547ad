----------------------------- MODULE BoardProofs -----------------------------
(***************************************************************************)
(* Proofs about the scoring window (Board), for every crowd, budget, board *)
(* width and channel capacity: the state keeps its shape, the two maps of  *)
(* the board agree, a button pays once, the log, the board's width and the *)
(* slot ids keep step with the claims, the tick stream rebuilds the board, *)
(* and the window implements the abstract race for the buttons.  Then the  *)
(* board as the players see it (ClientBoard).                              *)
(***************************************************************************)
EXTENDS ClientBoard, Extremes, SequenceTheorems, FiniteSetTheorems, TLAPS

-----------------------------------------------------------------------------
\* The number of slots of a round is a positive number, whoever races.
LEMMA BudgetPositive ==
  ASSUME NEW players \in Nat
  PROVE  BudgetOf(players) \in Nat \ {0}
  BY BoardAssumption DEF BudgetOf, BoardAssumption

\* A player's share of a window is a number.
LEMMA DeltaNat ==
  ASSUME scored \in Seq(Click), NEW p
  PROVE  Delta(p) \in Nat
<1> DEFINE S == {i \in DOMAIN scored : scored[i].player = p}
<1>1. DOMAIN scored = 1..Len(scored) /\ Len(scored) \in Nat
  OBVIOUS
<1>2. IsFiniteSet(DOMAIN scored)
  BY <1>1, FS_Interval
<1>3. S \subseteq DOMAIN scored
  OBVIOUS
<1>4. IsFiniteSet(S)
  BY <1>2, <1>3, FS_Subset
<1>5. Cardinality(S) \in Nat
  BY <1>4, FS_CardinalityType
<1> QED BY <1>5 DEF Delta

\* A map of the board after a claim has struck d off and put k on.
LEMMA PutAndDel ==
  ASSUME NEW f, NEW d, NEW k, NEW v
  PROVE  /\ \A x \in DOMAIN Del(f, d) : x \in DOMAIN f /\ Del(f, d)[x] = f[x]
         /\ \A x \in DOMAIN Put(Del(f, d), k, v) :
              \/ x = k /\ Put(Del(f, d), k, v)[x] = v
              \/ x \in DOMAIN f /\ Put(Del(f, d), k, v)[x] = f[x]
BY DEF Put, Del

\* What a claim looks like when it scores.
LEMMA ClaimType ==
  ASSUME TypeOK, NEW ev \in Click, Scores(ev)
  PROVE  ClaimOf(ev) \in Claim
<1>1. byNonce[ev.nonce] \in 0..(SlotMod - 1)
  BY DEF TypeOK, Scores
<1>2. [slot |-> (nextSlot + 1) % SlotMod, nonce |-> minted + 1] \in Button
  BY BoardAssumption DEF BoardAssumption, TypeOK, Button
<1>3. ev.player \in Player
  BY DEF Click
<1> QED BY <1>1, <1>2, <1>3 DEF ClaimOf, Claim, NoSpawn

-----------------------------------------------------------------------------
\* Every step keeps the shape of the state: in particular the click channel
\* never holds more than its capacity and slot ids fit their 16 bits.
LEMMA TypeInductive ==
  ASSUME TypeOK, [Next]_vars
  PROVE  TypeOK'
<1> USE BoardAssumption DEF BoardAssumption
<1>1. ASSUME NEW p \in Player, NEW k \in 0..shown, Submit(p, k)
      PROVE  TypeOK'
  <2>1. [player |-> p, nonce |-> k] \in Click
    BY DEF Click, TypeOK
  <2>2. queue' \in Seq(Click) /\ Len(queue') <= ClickBuf
    BY <1>1, <2>1 DEF TypeOK, Submit, Enqueued
  <2> QED BY <1>1, <2>2 DEF TypeOK, Submit, boardVars
<1>2. CASE Discard
  BY <1>2 DEF TypeOK, Discard, boardVars
<1>3. ASSUME NEW players \in Crowd, Arm(players)
      PROVE  TypeOK'
  <2>1. BudgetOf(players) \in Nat \ {0} /\ BudgetOf(players) + X + 1 < SlotMod
    BY BudgetPositive
  <2>2. /\ DOMAIN live' \subseteq 0..(SlotMod - 1)
        /\ \A s \in DOMAIN live' : live'[s] \in 1..minted'
    BY <1>3, <2>1 DEF Arm, TypeOK
  <2>3. /\ DOMAIN byNonce' \subseteq 1..minted'
        /\ \A k \in DOMAIN byNonce' : byNonce'[k] \in 0..(SlotMod - 1)
    BY <1>3, <2>1 DEF Arm, TypeOK
  <2>4. nextSlot' \in 0..(SlotMod - 1) /\ minted' \in Nat /\ shown' \in Nat
    BY <1>3, <2>1 DEF Arm, TypeOK
  <2> QED BY <1>3, <2>1, <2>2, <2>3, <2>4 DEF Arm, TypeOK
<1>4. CASE Offer
  <2> DEFINE ev == Head(queue)
  <2>1. ev \in Click /\ queue' \in Seq(Click) /\ Len(queue') <= ClickBuf
    BY <1>4 DEF Offer, TypeOK
  <2>2. CASE ~Scores(ev) /\ UNCHANGED boardVars
    BY <1>4, <2>1, <2>2 DEF Offer, TypeOK, boardVars
  <2>3. CASE Scores(ev) /\ TakeSlot(ev)
    <3> DEFINE c == ClaimOf(ev)
    <3>1. c \in Claim
      BY <2>1, <2>3, ClaimType
    <3>2. /\ scored' \in Seq(Click)
          /\ pending' \in Seq(Claim)
          /\ log' \in Seq(Claim)
      BY <2>1, <2>3, <3>1 DEF TypeOK, TakeSlot
    <3>3. CASE c.spawn = NoSpawn
      <4>1. /\ live' = Del(live, c.slot) /\ byNonce' = Del(byNonce, ev.nonce)
            /\ UNCHANGED <<nextSlot, minted>>
        BY <2>3, <3>3 DEF TakeSlot
      <4>2. /\ \A s \in DOMAIN live' : s \in DOMAIN live /\ live'[s] = live[s]
            /\ \A k \in DOMAIN byNonce' : k \in DOMAIN byNonce /\ byNonce'[k] = byNonce[k]
        BY <4>1, PutAndDel
      <4>3. UNCHANGED <<phase, round, game, n, scores, ticks, shown, sent>>
        BY <1>4, <2>3 DEF Offer, TakeSlot
      <4> HIDE DEF ev, c
      <4>4. /\ \A s \in DOMAIN live' : s \in 0..(SlotMod - 1) /\ live'[s] \in 1..minted'
            /\ \A k \in DOMAIN byNonce' : k \in 1..minted' /\ byNonce'[k] \in 0..(SlotMod - 1)
        BY <4>1, <4>2 DEF TypeOK
      <4> QED BY <2>1, <3>2, <4>1, <4>3, <4>4 DEF TypeOK
    <3>4. CASE c.spawn # NoSpawn
      <4>1. c.spawn = [slot |-> (nextSlot + 1) % SlotMod, nonce |-> minted + 1]
        BY <3>4 DEF ClaimOf
      <4>2. /\ live' = Put(Del(live, c.slot), c.spawn.slot, c.spawn.nonce)
            /\ byNonce' = Put(Del(byNonce, ev.nonce), c.spawn.nonce, c.spawn.slot)
            /\ nextSlot' = (nextSlot + 1) % SlotMod
            /\ minted' = minted + 1
        BY <2>3, <3>4, <4>1 DEF TakeSlot
      <4>3. nextSlot' \in 0..(SlotMod - 1) /\ minted' \in Nat
        <5>1. nextSlot \in Nat /\ minted \in Nat /\ SlotMod \in Nat \ {0}
          BY DEF TypeOK
        <5>2. (nextSlot + 1) % SlotMod \in 0..(SlotMod - 1)
          BY ONLY <5>1
        <5> QED BY <4>2, <5>1, <5>2
      <4>6. /\ c.spawn.slot \in 0..(SlotMod - 1) /\ c.spawn.nonce \in 1..minted'
            /\ 1..minted \subseteq 1..minted'
        <5>1. minted \in Nat /\ minted' = minted + 1
          BY <4>2 DEF TypeOK
        <5>2. c.spawn.slot = nextSlot' /\ c.spawn.nonce = minted'
          BY <4>1, <4>2
        <5> HIDE DEF c
        <5> QED BY <4>3, <5>1, <5>2
      <4>4. /\ DOMAIN live' \subseteq 0..(SlotMod - 1)
            /\ \A s \in DOMAIN live' : live'[s] \in 1..minted'
        <5>1. \A s \in DOMAIN live' : \/ s = c.spawn.slot /\ live'[s] = c.spawn.nonce
                                      \/ s \in DOMAIN live /\ live'[s] = live[s]
          BY <4>2, PutAndDel
        <5>2. \A s \in DOMAIN live : s \in 0..(SlotMod - 1) /\ live[s] \in 1..minted
          BY DEF TypeOK
        <5> HIDE DEF c
        <5> QED BY <4>6, <5>1, <5>2
      <4>5. /\ DOMAIN byNonce' \subseteq 1..minted'
            /\ \A k \in DOMAIN byNonce' : byNonce'[k] \in 0..(SlotMod - 1)
        <5>1. \A k \in DOMAIN byNonce' : \/ k = c.spawn.nonce /\ byNonce'[k] = c.spawn.slot
                                         \/ k \in DOMAIN byNonce /\ byNonce'[k] = byNonce[k]
          BY <4>2, PutAndDel
        <5>2. \A k \in DOMAIN byNonce : k \in 1..minted /\ byNonce[k] \in 0..(SlotMod - 1)
          BY DEF TypeOK
        <5> HIDE DEF c
        <5> QED BY <4>6, <5>1, <5>2
      <4> QED BY <1>4, <2>1, <2>3, <3>2, <4>3, <4>4, <4>5 DEF Offer, TypeOK, TakeSlot
    <3> QED BY <3>3, <3>4
  <2> QED BY <1>4, <2>2, <2>3 DEF Offer
<1>5. ASSUME EmitTick, TypeOK
      PROVE  ticks' \in Seq(Frame) /\ pending' \in Seq(Claim) /\ shown' \in Nat
  <2>1. [remaining |-> n - Len(scored), claims |-> pending] \in Frame
    BY <1>5 DEF TypeOK, Frame
  <2> QED BY <1>5, <2>1 DEF EmitTick, TypeOK
<1>6. CASE Tick
  <2>1. EmitTick
    BY <1>6 DEF Tick
  <2> QED BY <1>5, <1>6, <2>1 DEF Tick, TypeOK
<1>7. ASSUME Close
      PROVE  TypeOK'
  <2>1. scores' \in [Player -> Nat]
    BY <1>7, DeltaNat DEF Close, TypeOK
  <2>2. ticks' \in Seq(Frame) /\ pending' \in Seq(Claim) /\ shown' \in Nat
    BY <1>5, <1>7 DEF Close, TypeOK
  <2>3. /\ phase' \in {"pending", "armed", "result", "over"}
        /\ phase' = "result" => round' < Rounds
    BY <1>7 DEF Close, TypeOK
  <2> QED BY <1>7, <2>1, <2>2, <2>3 DEF Close, TypeOK
<1>8. CASE CloseFull
  BY <1>7, <1>8 DEF CloseFull
<1>9. CASE CloseTimeout
  BY <1>7, <1>9 DEF CloseTimeout
<1>10. CASE NextRound
  BY <1>10 DEF NextRound, TypeOK, boardVars
<1>11. CASE NewGame
  BY <1>11 DEF NewGame, TypeOK, boardVars
<1>12. CASE UNCHANGED vars
  BY <1>12 DEF TypeOK, vars, boardVars
<1> QED
  BY <1>1, <1>2, <1>3, <1>4, <1>6, <1>8, <1>9, <1>10, <1>11, <1>12 DEF Next

\* Before the first game the state has its shape.
LEMMA TypeInit == Init => TypeOK
  BY BoardAssumption DEF BoardAssumption, Init, TypeOK

\* Type correctness of the window, for every crowd and budget that fits the
\* slot ids (Engine.race, board.offer): the channel respects its capacity.
THEOREM TypeCorrect == Spec => []TypeOK
<1>1. TypeOK /\ [Next]_vars => TypeOK'
  BY TypeInductive
<1> QED BY <1>1, TypeInit, PTL DEF Spec

-----------------------------------------------------------------------------
(***************************************************************************)
(* Safety of the board.  The strengthening: slot ids and nonces are handed *)
(* out side by side, so a live button's nonce is its slot id plus what had *)
(* been minted before the window (Base); and a window mints one id for     *)
(* each button of the armed frame and at most one for each claim, so that  *)
(* the uint16 counter does not wrap while the budget fits it.              *)
(***************************************************************************)
Base == minted - nextSlot

\* The slot counter, the nonces and the claims of a window move together.
SlotsInStep ==
  /\ Base >= 0
  /\ nextSlot <= X + Len(scored)
  /\ \A s \in DOMAIN live : s \in 1..nextSlot /\ live[s] = Base + s
  /\ phase = "armed" => n + X + 1 < SlotMod
  /\ phase = "armed" /\ ~Full => nextSlot = X + Len(scored)

\* The width of the board, of which BoardKeptFull speaks, is a number.
LiveFinite == IsFiniteSet(DOMAIN live)

BoardInv ==
  /\ TypeOK
  /\ SlotsInStep
  /\ MirrorsAgree
  /\ OneClaimPerButton
  /\ LogMatchesScored
  /\ LiveFinite
  /\ BoardKeptFull

\* What the proofs below use of the state's shape.
LEMMA Shapes ==
  ASSUME TypeOK
  PROVE  /\ n \in Nat \ {0} /\ nextSlot \in Nat /\ minted \in Nat
         /\ scored \in Seq(Click) /\ log \in Seq(Claim)
         /\ Len(scored) \in Nat /\ DOMAIN scored = 1..Len(scored)
  BY BoardAssumption DEF BoardAssumption, TypeOK

\* A scoring click while the budget lasts: it claims a live button of this
\* window, and what it puts on the board instead is new.
LEMMA ClaimFacts ==
  ASSUME BoardInv, phase = "armed", NEW ev \in Click, Scores(ev)
  PROVE  /\ ev.nonce \in DOMAIN byNonce
         /\ byNonce[ev.nonce] \in DOMAIN live
         /\ ev.nonce = Base + byNonce[ev.nonce]
         /\ ev.nonce \in (Base + 1)..minted
         /\ Len(scored) < n
         /\ nextSlot = X + Len(scored) /\ n + X + 1 < SlotMod
         /\ (nextSlot + 1) % SlotMod = nextSlot + 1
         /\ nextSlot + 1 \notin DOMAIN live
         /\ minted + 1 \notin DOMAIN byNonce
         /\ \A i \in DOMAIN scored : scored[i].nonce # ev.nonce
<1> USE BoardAssumption DEF BoardAssumption
<1>1. ev.nonce \in DOMAIN byNonce /\ Len(scored) < n
  BY DEF Scores, Full, BoardInv, TypeOK
<1>2. byNonce[ev.nonce] \in DOMAIN live /\ live[byNonce[ev.nonce]] = ev.nonce
  BY <1>1 DEF BoardInv, MirrorsAgree
<1>3. ev.nonce = Base + byNonce[ev.nonce]
  BY <1>2 DEF BoardInv, SlotsInStep
<1> DEFINE m == nextSlot + 1
<1>4. n \in Nat /\ nextSlot \in Nat /\ Len(scored) \in Nat
  BY DEF BoardInv, TypeOK
<1>5. m \in Nat /\ m < SlotMod /\ nextSlot = X + Len(scored) /\ n + X + 1 < SlotMod
  <2>1. ~Full
    BY <1>1, <1>4 DEF Full
  <2>2. nextSlot = X + Len(scored) /\ n + X + 1 < SlotMod
    BY <2>1 DEF BoardInv, SlotsInStep
  <2> QED BY <1>1, <1>4, <2>2
<1>6. m % SlotMod = m
  <2> HIDE DEF m
  <2> QED BY <1>5
<1>7. nextSlot + 1 \notin DOMAIN live
  BY DEF BoardInv, TypeOK, SlotsInStep
<1>8. minted + 1 \notin DOMAIN byNonce
  BY DEF BoardInv, TypeOK
<1>9. ev.nonce \in (Base + 1)..minted
  <2>1. ev.nonce \in 1..minted /\ minted \in Nat
    BY <1>1 DEF BoardInv, TypeOK
  <2>2. byNonce[ev.nonce] \in 1..nextSlot
    BY <1>2 DEF BoardInv, SlotsInStep
  <2>3. Base \in Int
    BY <1>4, <2>1 DEF Base
  <2> QED BY <1>3, <1>4, <2>1, <2>2, <2>3
<1>10. \A i \in DOMAIN scored : scored[i].nonce # ev.nonce
  BY <1>1 DEF BoardInv, OneClaimPerButton
<1> QED
  BY <1>1, <1>2, <1>3, <1>5, <1>6, <1>7, <1>8, <1>9, <1>10

\* A claim's replacement is a record, so it is never taken for no button.
LEMMA SpawnIsNoNoSpawn ==
  ASSUME NEW s, NEW k
  PROVE  [slot |-> s, nonce |-> k] # NoSpawn
<1>1. DOMAIN [slot |-> s, nonce |-> k] = {"slot", "nonce"}
  OBVIOUS
<1>2. DOMAIN NoSpawn = {}
  BY DEF NoSpawn
<1> QED BY <1>1, <1>2

\* The claim that does not spend the budget: button and replacement.
LEMMA RefillKeeps ==
  ASSUME BoardInv, phase = "armed", NEW ev \in Click, Scores(ev), TakeSlot(ev),
         phase' = phase, TypeOK', Len(scored) + 1 < n
  PROVE  BoardInv'
<1> USE BoardAssumption DEF BoardAssumption
<1> DEFINE slot == byNonce[ev.nonce]
<1>1. /\ ev.nonce \in DOMAIN byNonce
      /\ slot \in DOMAIN live
      /\ ev.nonce = Base + slot
      /\ ev.nonce \in (Base + 1)..minted
      /\ Len(scored) < n
      /\ nextSlot = X + Len(scored) /\ n + X + 1 < SlotMod
      /\ (nextSlot + 1) % SlotMod = nextSlot + 1
      /\ nextSlot + 1 \notin DOMAIN live
      /\ minted + 1 \notin DOMAIN byNonce
      /\ \A i \in DOMAIN scored : scored[i].nonce # ev.nonce
  BY ClaimFacts
<1> DEFINE fresh == [slot |-> nextSlot + 1, nonce |-> minted + 1]
<1>2. ClaimOf(ev) = [slot |-> slot, claimer |-> ev.player, spawn |-> fresh]
  BY <1>1 DEF ClaimOf
<1>3. ClaimOf(ev).spawn # NoSpawn
  BY <1>2, SpawnIsNoNoSpawn
<1>4. /\ scored' = Append(scored, ev)
      /\ log' = Append(log, ClaimOf(ev))
      /\ live' = Put(Del(live, slot), nextSlot + 1, minted + 1)
      /\ byNonce' = Put(Del(byNonce, ev.nonce), minted + 1, nextSlot + 1)
      /\ nextSlot' = nextSlot + 1
      /\ minted' = minted + 1
      /\ n' = n
  BY <1>2, <1>3 DEF TakeSlot
<1>5. /\ TypeOK
      /\ n \in Nat \ {0} /\ nextSlot \in Nat /\ minted \in Nat
      /\ scored \in Seq(Click) /\ log \in Seq(Claim)
      /\ Len(scored') = Len(scored) + 1
      /\ Len(scored) \in Nat
      /\ DOMAIN scored = 1..Len(scored) /\ DOMAIN scored' = 1..(Len(scored) + 1)
  <2>1. TypeOK
    BY DEF BoardInv
  <2> QED BY <2>1, <1>4, Shapes
<1>6. Base' = Base
  BY <1>4, <1>5 DEF Base
<1>7. /\ DOMAIN live' = (DOMAIN live \ {slot}) \cup {nextSlot + 1}
      /\ live'[nextSlot + 1] = minted + 1
      /\ \A s \in DOMAIN live \ {slot} : live'[s] = live[s]
  BY <1>1, <1>4 DEF Put, Del
<1>8. /\ DOMAIN byNonce' = (DOMAIN byNonce \ {ev.nonce}) \cup {minted + 1}
      /\ byNonce'[minted + 1] = nextSlot + 1
      /\ \A k \in DOMAIN byNonce \ {ev.nonce} : byNonce'[k] = byNonce[k]
  BY <1>1, <1>4 DEF Put, Del
<1>9. SlotsInStep'
  <2>1. \A s \in DOMAIN live' : s \in 1..nextSlot' /\ live'[s] = Base' + s
    BY <1>4, <1>5, <1>6, <1>7 DEF BoardInv, SlotsInStep, Base
  <2>2. nextSlot' = X + Len(scored')
    BY <1>1, <1>4, <1>5
  <2>3. n' + X + 1 < SlotMod /\ Base' >= 0
    BY <1>1, <1>4, <1>6 DEF BoardInv, SlotsInStep
  <2>4. nextSlot' <= X + Len(scored')
    BY <2>2, <1>5
  <2> QED BY <2>1, <2>2, <2>3, <2>4 DEF SlotsInStep
<1>10. MirrorsAgree'
  BY <1>1, <1>7, <1>8 DEF BoardInv, MirrorsAgree
<1>11. OneClaimPerButton'
  <2>1. Len(scored') <= n'
    BY <1>1, <1>4, <1>5
  <2>2. \A i \in DOMAIN scored' :
          scored'[i] = IF i = Len(scored) + 1 THEN ev ELSE scored[i]
    BY <1>4, <1>5
  <2>3. ASSUME NEW i \in DOMAIN scored'
        PROVE  /\ scored'[i].nonce \notin DOMAIN byNonce'
               /\ scored'[i].nonce \in (Base' + 1)..minted'
    <3>1. Base \in Int
      BY <1>5 DEF Base
    <3>2. CASE i = Len(scored) + 1
      <4>1. scored'[i] = ev
        BY <2>2, <3>2
      <4>2. ev.nonce \in Int /\ ev.nonce # minted + 1
        BY <3>1, <1>1, <1>5
      <4>3. ev.nonce \notin DOMAIN byNonce'
        BY <4>2, <1>8
      <4>4. ev.nonce \in (Base' + 1)..minted'
        <5>1. ev.nonce \in (Base + 1)..minted /\ minted' = minted + 1 /\ minted \in Nat
          BY <1>1, <1>4, <1>5
        <5>2. ev.nonce \in (Base + 1)..minted'
          BY ONLY <3>1, <5>1
        <5> QED BY <1>6, <5>2
      <4> QED BY <4>1, <4>3, <4>4
    <3>3. CASE i \in DOMAIN scored
      <4>1. /\ scored[i].nonce \notin DOMAIN byNonce
            /\ scored[i].nonce \in (Base + 1)..minted
        BY <3>3 DEF BoardInv, OneClaimPerButton, Base
      <4>2. scored'[i] = scored[i]
        BY <2>2, <3>3, <1>5
      <4>3. scored[i].nonce # minted + 1
        BY <3>1, <4>1, <1>5
      <4>4. scored'[i].nonce \notin DOMAIN byNonce'
        BY <4>1, <4>2, <4>3, <1>8
      <4>5. scored'[i].nonce \in (Base' + 1)..minted'
        BY <3>1, <4>1, <4>2, <1>4, <1>5, <1>6
      <4> QED BY <4>4, <4>5
    <3> QED BY <3>2, <3>3, <1>5
  <2>4. \A i, j \in DOMAIN scored' :
          scored'[i].nonce = scored'[j].nonce => i = j
    <3>1. \A i, j \in DOMAIN scored : scored[i].nonce = scored[j].nonce => i = j
      BY DEF BoardInv, OneClaimPerButton
    <3>2. \A i \in DOMAIN scored : scored[i].nonce # ev.nonce
      BY <1>1
    <3>3. \A i \in DOMAIN scored' : i = Len(scored) + 1 \/ i \in DOMAIN scored
      BY <1>5
    <3>4. \A i \in DOMAIN scored : scored'[i] = scored[i]
      BY <2>2, <1>5
    <3>5. Len(scored) + 1 \in DOMAIN scored' => scored'[Len(scored) + 1] = ev
      BY <2>2
    <3> HIDE DEF slot, fresh
    <3> QED BY <3>1, <3>2, <3>3, <3>4, <3>5
  <2> QED BY <2>1, <2>3, <2>4 DEF OneClaimPerButton, Base
<1>12. LogMatchesScored'
  <2>1. Len(log) = Len(scored) /\ Len(log') = Len(scored')
    BY <1>4, <1>5 DEF BoardInv, LogMatchesScored
  <2>2. DOMAIN log' = 1..(Len(scored) + 1) /\ DOMAIN log = 1..Len(scored)
    BY <2>1, <1>4, <1>5
  <2>3. \A i \in DOMAIN log :
          log'[i] = log[i] /\ scored'[i] = scored[i]
    BY <2>1, <2>2, <1>4, <1>5
  <2>4. /\ log'[Len(scored) + 1] = ClaimOf(ev)
        /\ scored'[Len(scored) + 1] = ev
    BY <2>1, <1>4, <1>5
  <2>5. \A i \in DOMAIN log :
          /\ log'[i].claimer = scored'[i].player
          /\ log'[i].slot = scored'[i].nonce - Base'
          /\ log'[i].spawn = NoSpawn <=> i = n'
    BY <2>3, <1>4, <1>6 DEF BoardInv, LogMatchesScored, Base
  <2>6. /\ ClaimOf(ev).claimer = ev.player
        /\ ClaimOf(ev).slot = ev.nonce - Base'
        /\ Len(scored) + 1 # n'
    <3>1. slot \in 0..(SlotMod - 1)
      BY <1>1, <1>5 DEF TypeOK
    <3>2. Base \in Int
      BY <1>5 DEF Base
    <3>3. ev.nonce - Base = slot
      BY <3>1, <3>2, <1>1
    <3>4. ClaimOf(ev).claimer = ev.player /\ ClaimOf(ev).slot = slot
      BY <1>2
    <3> QED BY <3>3, <3>4, <1>4, <1>5, <1>6
  <2>7. \A i \in DOMAIN log' :
          /\ log'[i].claimer = scored'[i].player
          /\ log'[i].slot = scored'[i].nonce - Base'
          /\ log'[i].spawn = NoSpawn <=> i = n'
    BY <2>2, <2>4, <2>5, <2>6, <1>3, <1>5
  <2> QED BY <2>1, <2>7 DEF LogMatchesScored, Base
<1>13. LiveFinite' /\ Cardinality(DOMAIN live') = Cardinality(DOMAIN live)
  <2>1. IsFiniteSet(DOMAIN live)
    BY DEF BoardInv, LiveFinite
  <2>2. /\ IsFiniteSet(DOMAIN live \ {slot})
        /\ Cardinality(DOMAIN live \ {slot}) = Cardinality(DOMAIN live) - 1
    <3>1. slot \in DOMAIN live
      BY <1>1
    <3> HIDE DEF slot
    <3> QED BY <2>1, <3>1, FS_RemoveElement
  <2>3. nextSlot + 1 \notin DOMAIN live \ {slot}
    BY <1>1
  <2>4. /\ IsFiniteSet(DOMAIN live')
        /\ Cardinality(DOMAIN live') = Cardinality(DOMAIN live \ {slot}) + 1
    <3> DEFINE Kept == DOMAIN live \ {slot}
               new == nextSlot + 1
    <3>1. IsFiniteSet(Kept) /\ new \notin Kept /\ DOMAIN live' = Kept \cup {new}
      BY <2>2, <2>3, <1>7
    <3>2. Cardinality(DOMAIN live \ {slot}) = Cardinality(Kept)
      OBVIOUS
    <3> HIDE DEF Kept, new
    <3>3. IsFiniteSet(Kept \cup {new})
          /\ Cardinality(Kept \cup {new}) = Cardinality(Kept) + 1
      BY <3>1, FS_AddElement
    <3> QED BY <3>1, <3>2, <3>3
  <2>5. Cardinality(DOMAIN live) \in Nat
    BY <2>1, FS_CardinalityType
  <2> QED BY <2>2, <2>4, <2>5 DEF LiveFinite
<1>14. BoardKeptFull'
  <2>1. ~Full /\ ~Full'
    <3>1. Len(scored') = Len(scored) + 1 /\ n' = n
      BY <1>4, <1>5
    <3>2. Len(scored) \in Nat /\ n \in Nat
      BY <1>5
    <3> HIDE DEF slot, fresh
    <3> QED BY <3>1, <3>2 DEF Full
  <2> QED BY <2>1, <1>13 DEF BoardInv, BoardKeptFull
<1> QED
  BY <1>9, <1>10, <1>11, <1>12, <1>13, <1>14 DEF BoardInv

\* The claim that spends the budget: the button goes and nothing replaces it.
LEMMA LastKeeps ==
  ASSUME BoardInv, phase = "armed", NEW ev \in Click, Scores(ev), TakeSlot(ev),
         phase' = phase, TypeOK', Len(scored) + 1 >= n
  PROVE  BoardInv'
<1> USE BoardAssumption DEF BoardAssumption
<1> DEFINE slot == byNonce[ev.nonce]
<1>1. /\ ev.nonce \in DOMAIN byNonce
      /\ slot \in DOMAIN live
      /\ ev.nonce = Base + slot
      /\ ev.nonce \in (Base + 1)..minted
      /\ Len(scored) < n
      /\ nextSlot = X + Len(scored) /\ n + X + 1 < SlotMod
      /\ \A i \in DOMAIN scored : scored[i].nonce # ev.nonce
  BY ClaimFacts
<1>2. /\ TypeOK
      /\ n \in Nat \ {0} /\ nextSlot \in Nat /\ minted \in Nat
      /\ scored \in Seq(Click) /\ log \in Seq(Claim)
      /\ Len(scored) \in Nat /\ DOMAIN scored = 1..Len(scored)
  BY Shapes DEF BoardInv
<1>3. ClaimOf(ev) = [slot |-> slot, claimer |-> ev.player, spawn |-> NoSpawn]
  BY <1>2 DEF ClaimOf
<1>4. /\ scored' = Append(scored, ev)
      /\ log' = Append(log, ClaimOf(ev))
      /\ live' = Del(live, slot)
      /\ byNonce' = Del(byNonce, ev.nonce)
      /\ nextSlot' = nextSlot
      /\ minted' = minted
      /\ n' = n
  BY <1>3 DEF TakeSlot
<1>5. /\ Len(scored') = Len(scored) + 1
      /\ DOMAIN scored' = 1..(Len(scored) + 1)
      /\ Len(scored) + 1 = n
  BY <1>1, <1>2, <1>4
<1>6. Base' = Base /\ Base \in Int
  BY <1>2, <1>4 DEF Base
<1>7. /\ DOMAIN live' = DOMAIN live \ {slot}
      /\ \A s \in DOMAIN live \ {slot} : live'[s] = live[s]
  BY <1>1, <1>4 DEF Del
<1>8. /\ DOMAIN byNonce' = DOMAIN byNonce \ {ev.nonce}
      /\ \A k \in DOMAIN byNonce \ {ev.nonce} : byNonce'[k] = byNonce[k]
  BY <1>1, <1>4 DEF Del
<1>9. SlotsInStep'
  <2>1. \A s \in DOMAIN live' : s \in 1..nextSlot' /\ live'[s] = Base' + s
    BY <1>4, <1>6, <1>7 DEF BoardInv, SlotsInStep
  <2>2. n' + X + 1 < SlotMod /\ Base' >= 0
    BY <1>1, <1>4, <1>6 DEF BoardInv, SlotsInStep
  <2>3. Full'
    BY <1>4, <1>5, <1>2 DEF Full
  <2>4. nextSlot' <= X + Len(scored')
    BY <1>1, <1>2, <1>4, <1>5
  <2> QED BY <2>1, <2>2, <2>3, <2>4 DEF SlotsInStep
<1>10. MirrorsAgree'
  BY <1>1, <1>7, <1>8 DEF BoardInv, MirrorsAgree
<1>11. \A i \in DOMAIN scored' :
         scored'[i] = IF i = Len(scored) + 1 THEN ev ELSE scored[i]
  BY <1>2, <1>4, <1>5
<1>12. OneClaimPerButton'
  <2>1. Len(scored') <= n'
    BY <1>2, <1>4, <1>5
  <2>2. \A i \in DOMAIN scored :
          /\ scored[i].nonce \notin DOMAIN byNonce
          /\ scored[i].nonce \in (Base + 1)..minted
    BY DEF BoardInv, OneClaimPerButton, Base
  <2>3. \A i \in DOMAIN scored' :
          /\ scored'[i].nonce \notin DOMAIN byNonce'
          /\ scored'[i].nonce \in (Base' + 1)..minted'
    <3>1. \A i \in DOMAIN scored' : i \in DOMAIN scored \/ i = Len(scored) + 1
      BY <1>2, <1>5
    <3>2. \A i \in DOMAIN scored : i # Len(scored) + 1
      BY <1>2
    <3>3. minted' = minted /\ Base' = Base
      BY <1>4, <1>6
    <3>4. ev.nonce \notin DOMAIN byNonce' /\ ev.nonce \in (Base + 1)..minted
      BY <1>1, <1>8
    <3>5. \A i \in DOMAIN scored : scored[i].nonce \notin DOMAIN byNonce'
      BY <1>8, <2>2
    <3> QED BY <1>11, <2>2, <3>1, <3>2, <3>3, <3>4, <3>5
  <2>4. \A i, j \in DOMAIN scored' :
          scored'[i].nonce = scored'[j].nonce => i = j
    <3>1. \A i, j \in DOMAIN scored : scored[i].nonce = scored[j].nonce => i = j
      BY DEF BoardInv, OneClaimPerButton
    <3>2. \A i \in DOMAIN scored' : i \in DOMAIN scored \/ i = Len(scored) + 1
      BY <1>2, <1>5
    <3>3. \A i \in DOMAIN scored : i # Len(scored) + 1 /\ scored[i].nonce # ev.nonce
      BY <1>1, <1>2
    <3> QED BY <3>1, <3>2, <3>3, <1>11
  <2> QED BY <2>1, <2>3, <2>4 DEF OneClaimPerButton, Base
<1>13. LogMatchesScored'
  <2>1. Len(log) = Len(scored) /\ Len(log') = Len(scored')
    BY <1>2, <1>4, <1>5 DEF BoardInv, LogMatchesScored
  <2>2. DOMAIN log' = 1..(Len(scored) + 1) /\ DOMAIN log = 1..Len(scored)
    BY <2>1, <1>2, <1>4
  <2>3. \A i \in DOMAIN log : log'[i] = log[i] /\ scored'[i] = scored[i]
    BY <2>1, <2>2, <1>2, <1>4
  <2>4. /\ log'[Len(scored) + 1] = ClaimOf(ev)
        /\ scored'[Len(scored) + 1] = ev
    BY <2>1, <1>2, <1>4
  <2>5. \A i \in DOMAIN log :
          /\ log'[i].claimer = scored'[i].player
          /\ log'[i].slot = scored'[i].nonce - Base'
          /\ log'[i].spawn = NoSpawn <=> i = n'
    BY <2>3, <1>4, <1>6 DEF BoardInv, LogMatchesScored, Base
  <2>6. /\ ClaimOf(ev).claimer = ev.player
        /\ ClaimOf(ev).slot = ev.nonce - Base'
        /\ ClaimOf(ev).spawn = NoSpawn
    <3>1. slot \in 0..(SlotMod - 1)
      BY <1>1, <1>2 DEF TypeOK
    <3>2. ev.nonce - Base = slot
      BY <3>1, <1>1, <1>6
    <3>3. /\ ClaimOf(ev).claimer = ev.player
          /\ ClaimOf(ev).slot = slot
          /\ ClaimOf(ev).spawn = NoSpawn
      BY <1>3
    <3> QED BY <3>2, <3>3, <1>6
  <2>7. \A i \in DOMAIN log' :
          /\ log'[i].claimer = scored'[i].player
          /\ log'[i].slot = scored'[i].nonce - Base'
          /\ log'[i].spawn = NoSpawn <=> i = n'
    BY <2>2, <2>4, <2>5, <2>6, <1>2, <1>4, <1>5
  <2> QED BY <2>1, <2>7 DEF LogMatchesScored, Base
<1>14. LiveFinite' /\ Cardinality(DOMAIN live') = Cardinality(DOMAIN live) - 1
  <2>1. IsFiniteSet(DOMAIN live) /\ slot \in DOMAIN live
    BY <1>1 DEF BoardInv, LiveFinite
  <2>2. /\ IsFiniteSet(DOMAIN live \ {slot})
        /\ Cardinality(DOMAIN live \ {slot}) = Cardinality(DOMAIN live) - 1
    <3> HIDE DEF slot
    <3> QED BY <2>1, FS_RemoveElement
  <2> QED BY <2>2, <1>7 DEF LiveFinite
<1>15. BoardKeptFull'
  <2>1. ~Full /\ Full'
    BY <1>1, <1>2, <1>4, <1>5 DEF Full
  <2> QED BY <2>1, <1>14 DEF BoardInv, BoardKeptFull
<1> QED
  BY <1>9, <1>10, <1>12, <1>13, <1>14, <1>15 DEF BoardInv

\* A new window: a fresh board, whatever the last one left.
LEMMA ArmKeeps ==
  ASSUME BoardInv, NEW players \in Crowd, Arm(players), TypeOK'
  PROVE  BoardInv'
<1> USE BoardAssumption DEF BoardAssumption
<1>1. /\ BudgetOf(players) \in Nat \ {0}
      /\ BudgetOf(players) + X + 1 < SlotMod
  BY BudgetPositive
<1>2. minted \in Nat
  BY Shapes DEF BoardInv
<1>3. /\ live' = [s \in 1..X |-> minted + s]
      /\ byNonce' = [k \in (minted + 1)..(minted + X) |-> k - minted]
      /\ nextSlot' = X
      /\ minted' = minted + X
      /\ n' = BudgetOf(players)
      /\ scored' = <<>> /\ log' = <<>>
  BY DEF Arm
<1>4. Base' = minted /\ Len(scored') = 0
  BY <1>2, <1>3 DEF Base
<1>5. SlotsInStep'
  <2>1. \A s \in DOMAIN live' : s \in 1..nextSlot' /\ live'[s] = Base' + s
    BY <1>3, <1>4
  <2> QED BY <2>1, <1>1, <1>2, <1>3, <1>4 DEF SlotsInStep
<1>6. MirrorsAgree'
  BY <1>2, <1>3 DEF MirrorsAgree
<1>7. OneClaimPerButton' /\ LogMatchesScored'
  BY <1>1, <1>3 DEF OneClaimPerButton, LogMatchesScored
<1>8. LiveFinite' /\ Cardinality(DOMAIN live') = X
  <2>1. DOMAIN live' = 1..X
    BY <1>3
  <2>2. IsFiniteSet(1..X) /\ Cardinality(1..X) = X
    BY FS_Interval
  <2> QED BY <2>1, <2>2 DEF LiveFinite
<1>9. BoardKeptFull'
  <2>1. ~Full'
    BY <1>1, <1>3, <1>4 DEF Full
  <2> QED BY <2>1, <1>8 DEF BoardKeptFull
<1> QED
  BY <1>5, <1>6, <1>7, <1>8, <1>9 DEF BoardInv

\* Every other step leaves the board alone, and only Arm opens a window.
LEMMA RestKeeps ==
  ASSUME BoardInv, TypeOK', phase' = "armed" => phase = "armed",
         UNCHANGED <<n, live, byNonce, nextSlot, minted, scored, log>>
  PROVE  BoardInv'
<1>1. /\ Base' = Base
      /\ Full' <=> Full
  BY DEF Base, Full
<1>2. SlotsInStep'
  BY <1>1 DEF BoardInv, SlotsInStep
<1>3. MirrorsAgree' /\ LiveFinite'
  BY DEF BoardInv, MirrorsAgree, LiveFinite
<1>4. OneClaimPerButton' /\ LogMatchesScored'
  BY DEF BoardInv, OneClaimPerButton, LogMatchesScored
<1>5. BoardKeptFull'
  BY <1>1 DEF BoardInv, BoardKeptFull
<1> QED
  BY <1>2, <1>3, <1>4, <1>5 DEF BoardInv

\* Before the first game the invariant holds.
LEMMA BoardInit == Init => BoardInv
<1> SUFFICES ASSUME Init PROVE BoardInv
  OBVIOUS
<1>1. /\ phase = "over" /\ n = 1 /\ nextSlot = 0 /\ minted = 0
      /\ live = <<>> /\ byNonce = <<>> /\ scored = <<>> /\ log = <<>>
  BY DEF Init
<1>2. TypeOK
  BY TypeInit
<1>3. Base = 0 /\ Len(scored) = 0 /\ Len(log) = 0
  BY <1>1 DEF Base
<1>4. SlotsInStep
  BY <1>1, <1>3, BoardAssumption DEF SlotsInStep, BoardAssumption
<1>5. MirrorsAgree /\ OneClaimPerButton /\ LogMatchesScored
  BY <1>1, <1>3 DEF MirrorsAgree, OneClaimPerButton, LogMatchesScored
<1>6. LiveFinite
  <2>1. DOMAIN live = {}
    BY <1>1
  <2> QED BY <2>1, FS_EmptySet DEF LiveFinite
<1>7. BoardKeptFull
  BY <1>1 DEF BoardKeptFull
<1> QED
  BY <1>2, <1>4, <1>5, <1>6, <1>7 DEF BoardInv

\* Every step keeps it.
LEMMA BoardInductive ==
  ASSUME BoardInv, [Next]_vars
  PROVE  BoardInv'
<1>1. TypeOK'
  BY TypeInductive DEF BoardInv
<1>2. ASSUME NEW p \in Player, NEW k \in 0..shown, Submit(p, k)
      PROVE  BoardInv'
  BY <1>1, <1>2, RestKeeps DEF Submit, boardVars
<1>3. CASE Discard
  BY <1>1, <1>3, RestKeeps DEF Discard, boardVars
<1>4. ASSUME NEW players \in Crowd, Arm(players)
      PROVE  BoardInv'
  BY <1>1, <1>4, ArmKeeps
<1>5. CASE Offer
  <2> DEFINE ev == Head(queue)
  <2>1. ev \in Click
    BY <1>5 DEF Offer, BoardInv, TypeOK
  <2>2. CASE ~Scores(ev) /\ UNCHANGED boardVars
    BY <1>1, <1>5, <2>2, RestKeeps DEF Offer, boardVars
  <2>3. CASE Scores(ev) /\ TakeSlot(ev)
    <3>1. phase = "armed" /\ phase' = phase
      BY <1>5 DEF Offer
    <3>2. CASE Len(scored) + 1 < n
      BY <1>1, <2>1, <2>3, <3>1, <3>2, RefillKeeps
    <3>3. CASE Len(scored) + 1 >= n
      BY <1>1, <2>1, <2>3, <3>1, <3>3, LastKeeps
    <3>4. n \in Nat /\ Len(scored) \in Nat
      BY Shapes DEF BoardInv
    <3> QED BY <3>2, <3>3, <3>4
  <2> QED BY <1>5, <2>2, <2>3 DEF Offer
<1>6. CASE Tick
  BY <1>1, <1>6, RestKeeps DEF Tick
<1>7. ASSUME Close
      PROVE  BoardInv'
  <2>1. phase' # "armed"
    BY <1>7 DEF Close
  <2> QED BY <1>1, <1>7, <2>1, RestKeeps DEF Close
<1>8. CASE CloseFull
  BY <1>7, <1>8 DEF CloseFull
<1>9. CASE CloseTimeout
  BY <1>7, <1>9 DEF CloseTimeout
<1>10. CASE NextRound
  BY <1>1, <1>10, RestKeeps DEF NextRound, boardVars
<1>11. CASE NewGame
  BY <1>1, <1>11, RestKeeps DEF NewGame, boardVars
<1>12. CASE UNCHANGED vars
  BY <1>1, <1>12, RestKeeps DEF vars, boardVars
<1> QED
  BY <1>2, <1>3, <1>4, <1>5, <1>6, <1>8, <1>9, <1>10, <1>11, <1>12 DEF Next

\* The strengthened invariant holds throughout.
THEOREM BoardInvariant == Spec => []BoardInv
<1>1. BoardInv /\ [Next]_vars => BoardInv'
  BY BoardInductive
<1> QED BY <1>1, BoardInit, PTL DEF Spec

\* The board's two maps always describe the same buttons (board.register,
\* board.offer), however clicks, ticks and timeouts interleave.
THEOREM MirrorsAlwaysAgree == Spec => []MirrorsAgree
<1>1. BoardInv => MirrorsAgree
  BY DEF BoardInv
<1> QED BY <1>1, BoardInvariant, PTL

\* No button pays twice and no window pays more than its budget (board.offer
\* and the loop condition of Engine.race).
THEOREM ButtonsPayOnce == Spec => []OneClaimPerButton
<1>1. BoardInv => OneClaimPerButton
  BY DEF BoardInv
<1> QED BY <1>1, BoardInvariant, PTL

\* The log entry of the i-th scoring click is that click's claim, which
\* Engine.race relies on when it reads buttons out of the log by index.
THEOREM LogAlwaysMatches == Spec => []LogMatchesScored
<1>1. BoardInv => LogMatchesScored
  BY DEF BoardInv
<1> QED BY <1>1, BoardInvariant, PTL

\* An armed board shows X buttons until the budget is spent (board.offer's
\* replacement button).
THEOREM BoardStaysFull == Spec => []BoardKeptFull
<1>1. BoardInv => BoardKeptFull
  BY DEF BoardInv
<1> QED BY <1>1, BoardInvariant, PTL

-----------------------------------------------------------------------------
(***************************************************************************)
(* The tick stream.  The claims of the ticks so far and those waiting for  *)
(* the next one are the log, in order; and the log, applied to the buttons *)
(* of the armed frame, gives the board.  The two operators below are       *)
(* Carried and Rebuilt with their state as arguments.                      *)
(***************************************************************************)

\* The board after one more claim.
Claimed(S, c) ==
  {b \in S : b.slot # c.slot} \cup (IF c.spawn = NoSpawn THEN {} ELSE {c.spawn})

\* The board S after the claims cs.
Replayed(S, cs) ==
  LET f[i \in 0..Len(cs)] == IF i = 0 THEN S ELSE Claimed(f[i - 1], cs[i])
  IN  f[Len(cs)]

\* f lists the boards on the way.
Boards(f, S, cs) ==
  /\ f[0] = S /\ \A i \in 1..Len(cs) : f[i] = Claimed(f[i - 1], cs[i])
  /\ Replayed(S, cs) = f[Len(cs)]

\* The recursion in Replayed has a solution, which goes claim by claim.
LEMMA ReplaySteps ==
  ASSUME NEW S, NEW cs, Len(cs) \in Nat
  PROVE  \E f : Boards(f, S, cs)
<1> DEFINE K == Len(cs)
           U == S \cup {cs[i].spawn : i \in 1..K}
           G == [x \in (1..K) \X SUBSET U |-> Claimed(x[2], cs[x[1]])]
           F(f) == [i \in 0..K |-> IF i = 0 THEN S ELSE Claimed(f[i - 1], cs[i])]
           h == CHOOSE f : f = F(f)
<1> HIDE DEF K
<1>1. K \in Nat /\ S \in SUBSET U
  BY DEF K
<1>2. ASSUME NEW i \in 1..K, NEW B \in SUBSET U PROVE Claimed(B, cs[i]) \in SUBSET U
  <2>1. cs[i].spawn \in U
    OBVIOUS
  <2> HIDE DEF U
  <2> QED BY <2>1 DEF Claimed
<1> HIDE DEF U
<1>3. G \in [(1..K) \X SUBSET U -> SUBSET U] /\
      \A i \in 1..K, B \in SUBSET U : G[<<i, B>>] = Claimed(B, cs[i])
  BY <1>2
<1> HIDE DEF G
<1>4. PICK f : Follows(f, SUBSET U, S, K, G)
  BY <1>1, <1>3, StepwiseExists
<1>5. f = F(f)
  <2>1. ASSUME NEW i \in 1..K PROVE f[i] = Claimed(f[i - 1], cs[i])
    <3>1. i - 1 \in 0..K
      BY <1>1
    <3>2. f[i - 1] \in SUBSET U
      BY <1>4, <3>1 DEF Follows
    <3> QED BY <1>3, <1>4, <3>2 DEF Follows
  <2>2. \A i \in 0..K : i # 0 => i \in 1..K
    BY <1>1
  <2> QED BY <1>4, <2>1, <2>2 DEF Follows
<1>6. h = F(h)
  <2> HIDE DEF F
  <2> QED BY <1>5
<1> HIDE DEF h
<1>7. h[0] = S /\ \A i \in 1..K : h[i] = Claimed(h[i - 1], cs[i])
  BY <1>1, <1>6
<1>8. Replayed(S, cs) = h[K]
  BY DEF Replayed, h, K
<1> QED BY <1>7, <1>8 DEF Boards, K

\* No claims, no change.
LEMMA ReplayEmpty == ASSUME NEW S PROVE Replayed(S, <<>>) = S
<1>1. Len(<<>>) = 0 /\ 0 \in Nat
  OBVIOUS
<1>2. PICK f : Boards(f, S, <<>>)
  BY <1>1, ReplaySteps
<1> QED BY <1>1, <1>2 DEF Boards

\* One claim more.
LEMMA ReplayAppend ==
  ASSUME NEW S, NEW T, NEW cs \in Seq(T), NEW c \in T
  PROVE  Replayed(S, Append(cs, c)) = Claimed(Replayed(S, cs), c)
<1> DEFINE ds == Append(cs, c)
           K == Len(cs)
<1>1. /\ K \in Nat /\ Len(ds) = K + 1 /\ ds[K + 1] = c
      /\ \A i \in 1..K : ds[i] = cs[i]
  BY AppendProperties
<1>4. PICK f : Boards(f, S, cs)
  BY <1>1, ReplaySteps
<1> HIDE DEF ds
<1>5. Len(ds) \in Nat
  BY <1>1
<1>6. PICK g : Boards(g, S, ds)
  BY <1>5, ReplaySteps
<1> DEFINE Same == {i \in 0..K : f[i] = g[i]}
<1>7. 0..K \subseteq Same
  <2>1. 0 \in Same
    BY <1>1, <1>4, <1>6 DEF Boards
  <2>2. ASSUME NEW i \in 1..K, i - 1 \in Same PROVE i \in Same
    <3>1. i \in 1..Len(ds) /\ i \in 0..K /\ f[i - 1] = g[i - 1]
      BY <1>1, <2>2
    <3> QED BY <1>1, <1>4, <1>6, <3>1 DEF Boards
  <2> HIDE DEF Same, K
  <2> QED BY <1>1, <2>1, <2>2, UpTo
<1>8. f[K] = g[K] /\ K + 1 \in 1..Len(ds) /\ (K + 1) - 1 = K
  BY <1>1, <1>7
<1>9. g[K + 1] = Claimed(g[K], c)
  BY <1>1, <1>6, <1>8 DEF Boards
<1> QED BY <1>1, <1>4, <1>6, <1>8, <1>9 DEF Boards, ds

\* The claims carried by the first i frames of the tick stream ts.
Flushed(ts) ==
  LET f[i \in Nat] == IF i = 0 THEN <<>> ELSE f[i - 1] \o ts[i].claims
  IN  f

\* The recursion in Flushed has a solution, which goes frame by frame.
LEMMA FlushedSteps ==
  ASSUME NEW ts
  PROVE  /\ Flushed(ts)[0] = <<>>
         /\ \A i \in Nat \ {0} : Flushed(ts)[i] = Flushed(ts)[i - 1] \o ts[i].claims
<1> DEFINE Upto(f, m) == /\ f[0] = <<>>
                         /\ \A i \in 1..m : f[i] = f[i - 1] \o ts[i].claims
           T == {m \in Nat : \E f : Upto(f, m)}
           F(f) == [i \in Nat |-> IF i = 0 THEN <<>> ELSE f[i - 1] \o ts[i].claims]
           some(m) == CHOOSE f : Upto(f, m)
           all == [i \in Nat |-> some(i)[i]]
<1>1. 0 \in T
  <2>1. Upto([i \in {0} |-> <<>>], 0)
    OBVIOUS
  <2> QED BY <2>1
<1>2. ASSUME NEW m \in Nat \ {0}, m - 1 \in T PROVE m \in T
  <2>1. PICK f : Upto(f, m - 1)
    BY <1>2
  <2> DEFINE y == f[m - 1] \o ts[m].claims
             g == [i \in 0..m |-> IF i < m THEN f[i] ELSE y]
  <2>2. g[0] = <<>>
    BY <2>1
  <2>3. ASSUME NEW i \in 1..m PROVE g[i] = g[i - 1] \o ts[i].claims
    <3>1. CASE i < m
      <4>1. i \in 1..(m - 1) /\ i \in 0..m /\ i - 1 \in 0..m /\ i - 1 < m
        BY <3>1
      <4>2. g[i] = f[i] /\ g[i - 1] = f[i - 1]
        <5> HIDE DEF y
        <5> QED BY <3>1, <4>1
      <4> HIDE DEF g
      <4> QED BY <2>1, <4>1, <4>2
    <3>2. CASE i = m
      <4>1. m \in 0..m /\ m - 1 \in 0..m /\ m - 1 < m /\ ~(m < m)
        OBVIOUS
      <4>2. g[m] = y /\ g[m - 1] = f[m - 1]
        <5> HIDE DEF y
        <5>1. g[m] = y
          BY <4>1
        <5>2. g[m - 1] = f[m - 1]
          BY <4>1
        <5> QED BY <5>1, <5>2
      <4>3. g[m] = g[m - 1] \o ts[m].claims
        <5> HIDE DEF g
        <5> QED BY <4>2
      <4> HIDE DEF g, y
      <4> QED BY <3>2, <4>3
    <3>3. i < m \/ i = m
      OBVIOUS
    <3> HIDE DEF g, y
    <3> QED BY <3>1, <3>2, <3>3
  <2>4. Upto(g, m)
    <3> HIDE DEF g
    <3> QED BY <2>2, <2>3
  <2> HIDE DEF Upto
  <2> QED BY <2>4
<1>3. ASSUME NEW m \in Nat PROVE Upto(some(m), m)
  <2>1. 0..m \subseteq T
    <3> HIDE DEF T
    <3>1. \A i \in 1..m : i - 1 \in T => i \in T
      BY <1>2
    <3> QED BY <1>1, <3>1, UpTo
  <2>2. \E f : Upto(f, m)
    <3>1. m \in 0..m
      OBVIOUS
    <3> HIDE DEF Upto
    <3> QED BY <2>1, <3>1
  <2> HIDE DEF Upto
  <2> QED BY <2>2
<1>4. ASSUME NEW m \in Nat, NEW j \in 0..m, NEW f, NEW g, Upto(f, m), Upto(g, j)
      PROVE  f[j] = g[j]
  <2> DEFINE Same == {i \in 0..j : f[i] = g[i]}
  <2>1. 0 \in Same
    BY <1>4
  <2>2. ASSUME NEW i \in 1..j, i - 1 \in Same PROVE i \in Same
    <3>1. i \in 1..m /\ i \in 0..j /\ f[i - 1] = g[i - 1]
      BY <2>2
    <3> QED BY <1>4, <3>1
  <2>3. 0..j \subseteq Same
    <3> HIDE DEF Same
    <3> QED BY <2>1, <2>2, UpTo
  <2>4. j \in 0..j
    OBVIOUS
  <2> QED BY <2>3, <2>4
<1>5. all = F(all)
  <2>1. ASSUME NEW i \in Nat, i # 0 PROVE all[i] = all[i - 1] \o ts[i].claims
    <3>1. Upto(some(i), i) /\ Upto(some(i - 1), i - 1) /\ i - 1 \in Nat /\ i - 1 \in 0..i
      <4>1. i - 1 \in Nat /\ i - 1 \in 0..i
        BY <2>1
      <4> HIDE DEF Upto, some
      <4> QED BY <1>3, <4>1
    <3>2. some(i)[i - 1] = some(i - 1)[i - 1]
      <4> HIDE DEF Upto, some
      <4> QED BY <1>4, <3>1
    <3>3. some(i)[i] = some(i)[i - 1] \o ts[i].claims
      <4> HIDE DEF some
      <4>1. i \in 1..i
        BY <2>1
      <4> QED BY <3>1, <4>1
    <3> HIDE DEF some
    <3> QED BY <3>1, <3>2, <3>3
  <2>2. all[0] = <<>>
    <3> HIDE DEF some
    <3>1. some(0)[0] = <<>>
      BY <1>3
    <3> QED BY <3>1
  <2>3. all = [i \in Nat |-> all[i]]
    OBVIOUS
  <2> HIDE DEF all
  <2> QED BY <2>1, <2>2, <2>3
<1>6. Flushed(ts) = F(Flushed(ts))
  <2>1. Flushed(ts) = CHOOSE f : f = F(f)
    BY DEF Flushed
  <2> HIDE DEF F, all
  <2> QED BY <1>5, <2>1
<1> DEFINE h == Flushed(ts)
<1> HIDE DEF h
<1>7. h = F(h)
  BY <1>6 DEF h
<1>8. h[0] = <<>> /\ \A i \in Nat \ {0} : h[i] = h[i - 1] \o ts[i].claims
  BY <1>7
<1> QED BY <1>8 DEF h

\* Carried is Flushed of the ticks so far.
LEMMA CarriedIsFlushed == Carried = Flushed(ticks)
  BY DEF Carried, Flushed

\* One frame more.
LEMMA FlushedAppend ==
  ASSUME NEW ts \in Seq(Frame), NEW fr \in Frame
  PROVE  /\ \A i \in 0..Len(ts) : Flushed(ts)[i] \in Seq(Claim)
         /\ \A i \in 0..Len(ts) : Flushed(Append(ts, fr))[i] = Flushed(ts)[i]
         /\ Flushed(Append(ts, fr))[Len(ts) + 1] = Flushed(ts)[Len(ts)] \o fr.claims
<1> DEFINE K == Len(ts)
           us == Append(ts, fr)
           f == Flushed(ts)
           g == Flushed(us)
<1>1. /\ K \in Nat /\ us[K + 1] = fr
      /\ \A i \in 1..K : us[i] = ts[i] /\ ts[i].claims \in Seq(Claim)
  <2>1. \A i \in 1..K : ts[i] \in Frame
    OBVIOUS
  <2> QED BY <2>1, AppendProperties DEF Frame
<1>2. /\ f[0] = <<>> /\ \A i \in Nat \ {0} : f[i] = f[i - 1] \o ts[i].claims
      /\ g[0] = <<>> /\ \A i \in Nat \ {0} : g[i] = g[i - 1] \o us[i].claims
  <2> HIDE DEF us
  <2> QED BY FlushedSteps
<1> HIDE DEF f, g, us
<1> DEFINE Good == {i \in 0..K : f[i] \in Seq(Claim) /\ g[i] = f[i]}
<1>3. 0..K \subseteq Good
  <2>1. 0 \in Good
    <3>1. <<>> \in Seq(Claim)
      OBVIOUS
    <3>2. 0 \in 0..K /\ f[0] \in Seq(Claim) /\ g[0] = f[0]
      <4> HIDE DEF K
      <4> QED BY <1>1, <1>2, <3>1
    <3> QED BY <3>2
  <2>2. ASSUME NEW i \in 1..K, i - 1 \in Good PROVE i \in Good
    <3>1. i \in Nat \ {0} /\ i \in 0..K
      BY <1>1
    <3>2. f[i] = f[i - 1] \o ts[i].claims /\ g[i] = g[i - 1] \o us[i].claims
      BY <1>2, <3>1
    <3>3. f[i - 1] \in Seq(Claim) /\ g[i - 1] = f[i - 1]
      BY <2>2
    <3>4. f[i] \in Seq(Claim)
      BY <1>1, <3>2, <3>3, ConcatProperties
    <3> QED BY <1>1, <3>1, <3>2, <3>3, <3>4
  <2> HIDE DEF Good, K
  <2> QED BY <1>1, <2>1, <2>2, UpTo
<1>4. g[K + 1] = f[K] \o fr.claims
  <2>1. K + 1 \in Nat \ {0} /\ (K + 1) - 1 = K /\ K \in 0..K
    BY <1>1
  <2>2. g[K + 1] = g[K] \o us[K + 1].claims
    BY <1>2, <2>1
  <2>3. g[K] = f[K]
    BY <1>3, <2>1
  <2> QED BY <1>1, <2>2, <2>3
<1> QED BY <1>3, <1>4 DEF f, g, us

\* The log is what the ticks carried and what waits for the next, and each
\* frame's count is what was left of the budget after the claims it ends with.
LogIsFlushed ==
  /\ \A i \in 0..Len(ticks) : Flushed(ticks)[i] \in Seq(Claim)
  /\ log = Flushed(ticks)[Len(ticks)] \o pending
  /\ \A i \in DOMAIN ticks : ticks[i].remaining = n - Len(Flushed(ticks)[i])

Buttons == {[slot |-> s, nonce |-> live[s]] : s \in DOMAIN live}

\* The log, from the armed frame on, gives the board.
LogGivesBoard == phase = "armed" => Replayed(FirstButtons(Base), log) = Buttons

ReplayInv == BoardInv /\ LogIsFlushed /\ LogGivesBoard

\* A scoring click changes the buttons as a reader of its claim changes them.
LEMMA ClaimMovesBoard ==
  ASSUME BoardInv, phase = "armed", NEW ev \in Click, Scores(ev), TakeSlot(ev)
  PROVE  Buttons' = Claimed(Buttons, ClaimOf(ev)) /\ Base' = Base
<1> DEFINE c == ClaimOf(ev)
           rest == Del(live, c.slot)
<1>1. (nextSlot + 1) % SlotMod = nextSlot + 1 /\ nextSlot + 1 \notin DOMAIN live
      /\ nextSlot \in Nat /\ minted \in Nat
  BY ClaimFacts, Shapes DEF BoardInv
<1>2. {[slot |-> s, nonce |-> rest[s]] : s \in DOMAIN rest} = {b \in Buttons : b.slot # c.slot}
  <2>1. DOMAIN rest = DOMAIN live \ {c.slot} /\ \A s \in DOMAIN rest : rest[s] = live[s]
    BY DEF Del
  <2> HIDE DEF rest, c
  <2> QED BY <2>1 DEF Buttons
<1>3. CASE c.spawn = NoSpawn
  <2>1. live' = rest /\ minted' = minted /\ nextSlot' = nextSlot
    BY <1>3 DEF TakeSlot
  <2>2. Claimed(Buttons, c) = {b \in Buttons : b.slot # c.slot}
    BY <1>3 DEF Claimed
  <2> HIDE DEF rest, c
  <2> QED BY <1>2, <2>1, <2>2 DEF Buttons, Base, c
<1>4. CASE c.spawn # NoSpawn
  <2>1. c.spawn = [slot |-> nextSlot + 1, nonce |-> minted + 1]
    BY <1>1, <1>4 DEF ClaimOf
  <2>2. live' = Put(rest, nextSlot + 1, minted + 1) /\ nextSlot' = nextSlot + 1
        /\ minted' = minted + 1
    BY <1>4, <2>1 DEF TakeSlot
  <2>3. nextSlot + 1 \notin DOMAIN rest
    BY <1>1 DEF Del
  <2>4. DOMAIN live' = DOMAIN rest \cup {nextSlot + 1} /\ live'[nextSlot + 1] = minted + 1
        /\ \A s \in DOMAIN rest : live'[s] = rest[s]
    <3> HIDE DEF rest
    <3> QED BY <2>2, <2>3 DEF Put
  <2>5. Claimed(Buttons, c) = {b \in Buttons : b.slot # c.slot} \cup {c.spawn}
    BY <1>4 DEF Claimed
  <2>6. Base' = Base
    BY <1>1, <2>2 DEF Base
  <2> HIDE DEF rest, c
  <2>7. Buttons' = {[slot |-> s, nonce |-> rest[s]] : s \in DOMAIN rest}
                     \cup {[slot |-> nextSlot + 1, nonce |-> minted + 1]}
    BY <2>4 DEF Buttons
  <2> QED BY <1>2, <2>1, <2>5, <2>6, <2>7 DEF c
<1> QED BY <1>3, <1>4

\* Before the first tick.
LEMMA NothingFlushed ==
  /\ \A i \in 0..Len(<<>>) : Flushed(<<>>)[i] \in Seq(Claim)
  /\ <<>> = Flushed(<<>>)[Len(<<>>)] \o <<>>
  /\ \A k : \A i \in DOMAIN <<>> : <<>>[i].remaining = k - Len(Flushed(<<>>)[i])
<1>1. Flushed(<<>>)[0] = <<>>
  BY FlushedSteps
<1>2. Len(<<>>) = 0 /\ <<>> \in Seq(Claim)
  BY EmptySeq
<1>3. <<>> \o <<>> = <<>>
  BY <1>2, ConcatEmptySeq
<1>4. \A i \in 0..0 : i = 0
  OBVIOUS
<1>5. DOMAIN <<>> = {}
  OBVIOUS
<1> QED BY <1>1, <1>2, <1>3, <1>4, <1>5

\* Before the first game the log is empty and nothing was flushed.
LEMMA ReplayInit == Init => ReplayInv
<1> SUFFICES ASSUME Init PROVE ReplayInv
  OBVIOUS
<1>1. ticks = <<>> /\ log = <<>> /\ pending = <<>> /\ phase = "over"
  BY DEF Init
<1>3. LogIsFlushed
  BY <1>1, NothingFlushed DEF LogIsFlushed
<1> QED BY <1>1, <1>3, BoardInit DEF ReplayInv, LogGivesBoard

\* Every step keeps the log in step with the ticks and the board.
LEMMA ReplayInductive ==
  ASSUME ReplayInv, [Next]_vars
  PROVE  ReplayInv'
<1>1. BoardInv /\ BoardInv'
  BY BoardInductive DEF ReplayInv
<1>2. /\ ticks \in Seq(Frame) /\ pending \in Seq(Claim) /\ log \in Seq(Claim)
      /\ Len(ticks) \in Nat /\ DOMAIN ticks = 1..Len(ticks)
      /\ n \in Nat /\ Len(scored) \in Nat /\ Len(log) = Len(scored)
  <2>1. TypeOK /\ Len(log) = Len(scored)
    BY <1>1 DEF BoardInv, LogMatchesScored
  <2>2. ticks \in Seq(Frame) /\ pending \in Seq(Claim) /\ log \in Seq(Claim) /\ n \in Nat
    BY <2>1 DEF TypeOK
  <2> QED BY <2>1, <2>2, Shapes, LenProperties
<1>3. /\ \A i \in 0..Len(ticks) : Flushed(ticks)[i] \in Seq(Claim)
      /\ log = Flushed(ticks)[Len(ticks)] \o pending
      /\ \A i \in DOMAIN ticks : ticks[i].remaining = n - Len(Flushed(ticks)[i])
  BY DEF ReplayInv, LogIsFlushed
<1>4. ASSUME NEW players \in Crowd, Arm(players) PROVE ReplayInv'
  <2>1. ticks' = <<>> /\ pending' = <<>> /\ log' = <<>>
    BY <1>4 DEF Arm
  <2>3. LogIsFlushed'
    BY <2>1, NothingFlushed DEF LogIsFlushed
  <2>4. Base' = minted /\ DOMAIN live' = 1..X /\ \A s \in 1..X : live'[s] = minted + s
    BY <1>1, <1>4, Shapes, BoardAssumption DEF Arm, Base, BoardInv, BoardAssumption
  <2>5. Buttons' = FirstButtons(Base')
    BY <2>4 DEF Buttons, FirstButtons
  <2>7. Replayed(FirstButtons(Base'), <<>>) = FirstButtons(Base')
    BY ReplayEmpty
  <2>8. LogGivesBoard'
    BY <2>1, <2>5, <2>7 DEF LogGivesBoard
  <2> QED BY <1>1, <2>3, <2>8 DEF ReplayInv
<1>5. CASE UNCHANGED <<n, live, minted, nextSlot, log, pending, ticks>> /\
           (phase' = phase \/ phase' # "armed")
  <2>1. LogIsFlushed'
    BY <1>3, <1>5 DEF LogIsFlushed
  <2>2. LogGivesBoard'
    BY <1>5 DEF ReplayInv, LogGivesBoard, Buttons, Base
  <2> QED BY <1>1, <2>1, <2>2 DEF ReplayInv
<1>6. ASSUME phase = "armed", UNCHANGED <<phase, ticks>>, NEW ev \in Click, Scores(ev), TakeSlot(ev)
      PROVE  ReplayInv'
  <2> DEFINE c == ClaimOf(ev)
  <2>1. /\ pending' = Append(pending, c) /\ log' = Append(log, c) /\ n' = n
        /\ c \in Claim
    BY <1>1, <1>6, ClaimType DEF TakeSlot, BoardInv
  <2> HIDE DEF c
  <2>2. log' = Flushed(ticks)[Len(ticks)] \o pending'
    <3> DEFINE s == Flushed(ticks)[Len(ticks)]
    <3>1. s \in Seq(Claim)
      BY <1>2, <1>3
    <3> HIDE DEF s
    <3>2. Append(s \o pending, c) = s \o Append(pending, c)
      <4>1. s \o pending \in Seq(Claim) /\ <<c>> \in Seq(Claim)
        BY <1>2, <2>1, <3>1, ConcatProperties
      <4>2. /\ Append(s \o pending, c) = (s \o pending) \o <<c>>
            /\ Append(pending, c) = pending \o <<c>>
        BY <1>2, <2>1, <4>1, AppendIsConcat
      <4>3. (s \o pending) \o <<c>> = s \o (pending \o <<c>>)
        BY <1>2, <3>1, <4>1, ConcatAssociative
      <4> QED BY <4>2, <4>3
    <3> QED BY <1>3, <2>1, <3>2 DEF s
  <2>3. LogIsFlushed'
    BY <1>3, <1>6, <2>1, <2>2 DEF LogIsFlushed
  <2>4. Buttons' = Claimed(Buttons, c) /\ Base' = Base
    BY <1>1, <1>6, ClaimMovesBoard DEF c
  <2>5. Replayed(FirstButtons(Base), Append(log, c)) = Claimed(Replayed(FirstButtons(Base), log), c)
    BY <1>2, <2>1, ReplayAppend
  <2>6. LogGivesBoard'
    BY <1>6, <2>1, <2>4, <2>5 DEF ReplayInv, LogGivesBoard
  <2> QED BY <1>1, <2>3, <2>6 DEF ReplayInv
<1>7. ASSUME EmitTick, UNCHANGED <<n, live, minted, nextSlot, log>>,
             phase' = phase \/ phase' # "armed"
      PROVE  ReplayInv'
  <2> DEFINE fr == [remaining |-> n - Len(scored), claims |-> pending]
  <2>1. ticks' = Append(ticks, fr) /\ pending' = <<>>
    BY <1>7 DEF EmitTick
  <2>2. fr \in Frame /\ fr.claims = pending /\ fr.remaining = n - Len(scored)
    BY <1>2 DEF Frame
  <2> HIDE DEF fr
  <2>3. /\ Len(ticks') = Len(ticks) + 1 /\ DOMAIN ticks' = 1..(Len(ticks) + 1)
        /\ ticks'[Len(ticks) + 1] = fr /\ \A i \in 1..Len(ticks) : ticks'[i] = ticks[i]
    BY <1>2, <2>1, <2>2, AppendProperties
  <2>4. /\ \A i \in 0..Len(ticks) : Flushed(ticks')[i] = Flushed(ticks)[i]
        /\ Flushed(ticks')[Len(ticks) + 1] = log
    BY <1>2, <1>3, <2>1, <2>2, FlushedAppend
  <2>5. \A i \in 0..Len(ticks') : i \in 0..Len(ticks) \/ i = Len(ticks) + 1
    BY <1>2, <2>3
  <2>6. \A i \in 0..Len(ticks') : Flushed(ticks')[i] \in Seq(Claim)
    BY <1>2, <1>3, <2>4, <2>5
  <2>7. log' = Flushed(ticks')[Len(ticks')] \o pending'
    <3>1. log \o <<>> = log
      BY <1>2
    <3> QED BY <1>7, <2>1, <2>3, <2>4, <3>1
  <2>8. \A i \in DOMAIN ticks' : ticks'[i].remaining = n' - Len(Flushed(ticks')[i])
    <3>1. SUFFICES ASSUME NEW i \in 1..(Len(ticks) + 1)
                   PROVE  ticks'[i].remaining = n - Len(Flushed(ticks')[i])
      BY <1>7, <2>3
    <3>2. CASE i = Len(ticks) + 1
      BY <1>2, <2>2, <2>3, <2>4, <3>2
    <3>3. CASE i \in 1..Len(ticks)
      <4>1. i \in 0..Len(ticks) /\ i \in DOMAIN ticks
        BY <1>2, <3>3
      <4> QED BY <1>3, <2>3, <2>4, <3>3, <4>1
    <3> QED BY <1>2, <3>2, <3>3
  <2>9. LogIsFlushed'
    BY <2>6, <2>7, <2>8 DEF LogIsFlushed
  <2>10. LogGivesBoard'
    BY <1>7 DEF ReplayInv, LogGivesBoard, Buttons, Base
  <2> QED BY <1>1, <2>9, <2>10 DEF ReplayInv
<1>8. CASE Offer
  <2>1. Head(queue) \in Click /\ phase = "armed" /\ UNCHANGED <<phase, ticks>>
    BY <1>1, <1>8 DEF Offer, BoardInv, TypeOK
  <2>2. CASE Scores(Head(queue)) /\ TakeSlot(Head(queue))
    BY <1>6, <2>1, <2>2
  <2>3. CASE UNCHANGED boardVars
    BY <1>5, <2>1, <2>3 DEF boardVars
  <2> QED BY <1>8, <2>2, <2>3 DEF Offer
<1>9. CASE Tick
  BY <1>7, <1>9 DEF Tick
<1>10. CASE CloseFull \/ CloseTimeout
  <2>1. Close
    BY <1>10 DEF CloseFull, CloseTimeout
  <2>2. UNCHANGED <<n, live, minted, nextSlot, log>> /\ phase' # "armed"
    BY <2>1 DEF Close
  <2>3. EmitTick \/ UNCHANGED <<ticks, pending>>
    BY <2>1 DEF Close
  <2> QED BY <1>5, <1>7, <2>2, <2>3
<1>11. ASSUME NEW p \in Player, NEW k \in 0..shown, Submit(p, k) PROVE ReplayInv'
  BY <1>5, <1>11 DEF Submit, boardVars
<1>12. CASE Discard \/ NextRound \/ NewGame \/ UNCHANGED vars
  BY <1>5, <1>12 DEF Discard, NextRound, NewGame, vars, boardVars
<1> QED BY <1>4, <1>8, <1>9, <1>10, <1>11, <1>12 DEF Next

\* The claims the ticks have carried, in order, with those that wait, are the log.
THEOREM LogAlwaysFlushed == Spec => []ReplayInv
<1>1. ReplayInv /\ [Next]_vars => ReplayInv'
  BY ReplayInductive
<1> QED BY <1>1, ReplayInit, PTL DEF Spec

\* The tick stream determines the board (board.takePending, Engine.emitTick): what
\* the frames carried and what waits rebuilds exactly the live buttons, and every
\* frame's count agrees with the claims carried up to it.
THEOREM ReplayAlwaysRebuilds == Spec => []ReplayRebuildsBoard
<1>1. ASSUME ReplayInv PROVE ReplayRebuildsBoard
  <2>1. Carried = Flushed(ticks)
    BY CarriedIsFlushed
  <2>2. \A cs : Rebuilt(cs) = Replayed(FirstButtons(Base), cs)
    BY DEF Rebuilt, Replayed, Claimed, Base
  <2>3. phase = "armed" => Rebuilt(Carried[Len(ticks)] \o pending) = Buttons
    BY <1>1, <2>1, <2>2 DEF ReplayInv, LogIsFlushed, LogGivesBoard
  <2>4. \A i \in DOMAIN ticks : ticks[i].remaining = n - Len(Carried[i])
    BY <1>1, <2>1 DEF ReplayInv, LogIsFlushed
  <2> QED BY <2>3, <2>4 DEF ReplayRebuildsBoard, Buttons
<1> QED BY <1>1, LogAlwaysFlushed, PTL

-----------------------------------------------------------------------------
(***************************************************************************)
(* The refinement: the window implements ButtonRace.  The abstract owner   *)
(* of a button is read off the scoring clicks, whose nonces are distinct,  *)
(* so that a claim gives one more button its owner and the deltas of a     *)
(* window count each player's buttons.                                     *)
(***************************************************************************)
\* The abstract `owner', of any sequence of clicks.
OwnerOf(s) ==
  [k \in {s[i].nonce : i \in DOMAIN s} |-> s[CHOOSE i \in DOMAIN s : s[i].nonce = k].player]

LEMMA OwnerOfClick ==
  ASSUME NEW s \in Seq(Click),
         \A i, j \in DOMAIN s : s[i].nonce = s[j].nonce => i = j,
         NEW i \in DOMAIN s
  PROVE  s[i].nonce \in DOMAIN OwnerOf(s) /\ OwnerOf(s)[s[i].nonce] = s[i].player
<1>1. (CHOOSE j \in DOMAIN s : s[j].nonce = s[i].nonce) = i
  OBVIOUS
<1> QED BY <1>1 DEF OwnerOf

\* One more click, of a button nobody took: one more owner.
LEMMA OwnerOfAppend ==
  ASSUME NEW s \in Seq(Click), NEW ev \in Click,
         \A i, j \in DOMAIN s : s[i].nonce = s[j].nonce => i = j,
         \A i \in DOMAIN s : s[i].nonce # ev.nonce
  PROVE  OwnerOf(Append(s, ev)) =
           [k \in DOMAIN OwnerOf(s) \cup {ev.nonce} |->
              IF k = ev.nonce THEN ev.player ELSE OwnerOf(s)[k]]
<1> DEFINE t == Append(s, ev)
<1>1. /\ t \in Seq(Click) /\ Len(s) \in Nat
      /\ DOMAIN s = 1..Len(s) /\ DOMAIN t = 1..(Len(s) + 1)
      /\ t[Len(s) + 1] = ev
      /\ \A i \in DOMAIN s : t[i] = s[i]
  OBVIOUS
<1>2. \A i, j \in DOMAIN t : t[i].nonce = t[j].nonce => i = j
  <2> SUFFICES ASSUME NEW i \in DOMAIN t, NEW j \in DOMAIN t, t[i].nonce = t[j].nonce
               PROVE  i = j
    OBVIOUS
  <2>1. CASE i \in DOMAIN s /\ j \in DOMAIN s
    BY <1>1, <2>1
  <2>2. CASE i \notin DOMAIN s /\ j \notin DOMAIN s
    BY <1>1, <2>2
  <2>3. CASE i \in DOMAIN s <=> j \notin DOMAIN s
    BY <1>1, <2>3
  <2> QED BY <2>1, <2>2, <2>3
<1> HIDE DEF t
<1>3. DOMAIN OwnerOf(t) = DOMAIN OwnerOf(s) \cup {ev.nonce}
  BY <1>1 DEF OwnerOf
<1>4. OwnerOf(t)[ev.nonce] = ev.player
  BY <1>1, <1>2, OwnerOfClick
<1>5. ASSUME NEW i \in DOMAIN s
      PROVE  OwnerOf(t)[s[i].nonce] = OwnerOf(s)[s[i].nonce]
  <2>1. OwnerOf(s)[s[i].nonce] = s[i].player
    BY OwnerOfClick
  <2>2. i \in DOMAIN t /\ t[i] = s[i]
    BY <1>1
  <2>3. OwnerOf(t)[t[i].nonce] = t[i].player
    BY <1>1, <1>2, <2>2, OwnerOfClick
  <2> QED BY <2>1, <2>2, <2>3
<1>6. DOMAIN OwnerOf(s) = {s[i].nonce : i \in DOMAIN s}
  BY DEF OwnerOf
<1>7. OwnerOf(t) = [k \in DOMAIN OwnerOf(t) |-> OwnerOf(t)[k]]
  BY DEF OwnerOf
<1>8. \A k \in DOMAIN OwnerOf(t) :
        OwnerOf(t)[k] = IF k = ev.nonce THEN ev.player ELSE OwnerOf(s)[k]
  BY <1>3, <1>4, <1>5, <1>6
<1> QED BY <1>3, <1>7, <1>8 DEF t

\* A player owns as many buttons as it made scoring clicks.
LEMMA OwnedAreClicks ==
  ASSUME NEW s \in Seq(Click), NEW p,
         \A i, j \in DOMAIN s : s[i].nonce = s[j].nonce => i = j
  PROVE  Cardinality({b \in DOMAIN OwnerOf(s) : OwnerOf(s)[b] = p}) =
           Cardinality({i \in DOMAIN s : s[i].player = p})
<1> DEFINE S == {i \in DOMAIN s : s[i].player = p}
           T == {b \in DOMAIN OwnerOf(s) : OwnerOf(s)[b] = p}
           f == [i \in S |-> s[i].nonce]
<1>1. IsFiniteSet(S)
  <2>1. DOMAIN s = 1..Len(s) /\ Len(s) \in Nat
    OBVIOUS
  <2>2. IsFiniteSet(1..Len(s))
    BY <2>1, FS_Interval
  <2> QED BY <2>1, <2>2, FS_Subset
<1>2. \A i \in DOMAIN s :
        s[i].nonce \in DOMAIN OwnerOf(s) /\ OwnerOf(s)[s[i].nonce] = s[i].player
  BY OwnerOfClick
<1>3. \A b \in DOMAIN OwnerOf(s) : \E i \in DOMAIN s : s[i].nonce = b
  BY DEF OwnerOf
<1>4. f \in [S -> T]
  BY <1>2
<1>5. DOMAIN f = S /\ \A i, j \in S : f[i] = f[j] => i = j
  OBVIOUS
<1>6. \A b \in T : \E i \in S : f[i] = b
  BY <1>2, <1>3
<1> HIDE DEF S, T, f
<1>7. f \in Bijection(S, T)
  <2>1. f \in Injection(S, T)
    BY <1>4, <1>5 DEF Injection, IsInjective
  <2>2. f \in Surjection(S, T)
    BY <1>4, <1>6 DEF Surjection
  <2> QED BY <2>1, <2>2 DEF Bijection
<1>8. Cardinality(T) = Cardinality(S)
  BY <1>1, <1>7, FS_Bijection DEF ExistsBijection
<1> QED BY <1>8 DEF S, T

\* ButtonRace counts as this module does.
LEMMA SameCount == ASSUME NEW S PROVE Race!Cardinality(S) = Cardinality(S)
BY DEF Race!Cardinality, Cardinality

LEMMA RaceStarts == Init => Race!RaceInit
<1> SUFFICES ASSUME Init PROVE Race!RaceInit
  OBVIOUS
<1>1. /\ phase = "over" /\ n = 1 /\ byNonce = <<>> /\ scored = <<>>
      /\ scores = [p \in Player |-> 0]
  BY DEF Init
<1>2. OwnerOf(scored) = <<>>
  <2>1. DOMAIN scored = {}
    BY <1>1
  <2> QED BY <2>1 DEF OwnerOf
<1> QED BY <1>1, <1>2 DEF Race!RaceInit, OwnerOf

\* A click that scores takes an open button, and what replaces it is new.
LEMMA ScoringIsTaking ==
  ASSUME BoardInv, phase = "armed", phase' = phase, scores' = scores,
         NEW ev \in Click, Scores(ev), TakeSlot(ev)
  PROVE  Race!RaceNext
<1>1. /\ ev.nonce \in DOMAIN byNonce
      /\ ev.nonce \in (Base + 1)..minted
      /\ Len(scored) < n
      /\ (nextSlot + 1) % SlotMod = nextSlot + 1
      /\ minted + 1 \notin DOMAIN byNonce
      /\ \A i \in DOMAIN scored : scored[i].nonce # ev.nonce
  BY ClaimFacts
<1>2. /\ n \in Nat \ {0} /\ minted \in Nat /\ scored \in Seq(Click) /\ Len(scored) \in Nat
      /\ ev.player \in Player
  BY Shapes DEF BoardInv, Click
<1>3. /\ \A i, j \in DOMAIN scored : scored[i].nonce = scored[j].nonce => i = j
      /\ \A i \in DOMAIN scored : scored[i].nonce \in 1..minted
  <2>1. /\ \A i, j \in DOMAIN scored : scored[i].nonce = scored[j].nonce => i = j
        /\ \A i \in DOMAIN scored : scored[i].nonce \in (minted - nextSlot + 1)..minted
    BY DEF BoardInv, OneClaimPerButton
  <2>2. minted - nextSlot >= 0 /\ nextSlot \in Nat
    BY Shapes DEF BoardInv, SlotsInStep, Base
  <2> QED BY <1>2, <2>1, <2>2
<1>4. /\ scored' = Append(scored, ev) /\ n' = n
      /\ Len(scored') = Len(scored) + 1
  BY <1>2 DEF TakeSlot
<1> DEFINE left == n - Len(scored)
           open == DOMAIN byNonce
           owner == OwnerOf(scored)
<1>5. left \in Nat /\ left > 0 /\ left' = left - 1
  BY <1>1, <1>2, <1>4
<1>6. owner' = [c \in DOMAIN owner \cup {ev.nonce} |->
                  IF c = ev.nonce THEN ev.player ELSE owner[c]]
  BY <1>1, <1>2, <1>3, <1>4, OwnerOfAppend
<1>7. DOMAIN owner = {scored[i].nonce : i \in DOMAIN scored}
  BY DEF OwnerOf
<1>8. ASSUME left = 1 PROVE open' = open \ {ev.nonce}
  <2>1. ClaimOf(ev).spawn = NoSpawn
    BY <1>2, <1>8 DEF ClaimOf
  <2> QED BY <2>1 DEF TakeSlot, Del
<1>9. ASSUME left # 1
      PROVE  /\ minted + 1 \in open' /\ minted + 1 \notin open \cup DOMAIN owner
             /\ open' = (open \ {ev.nonce}) \cup {minted + 1}
  <2>1. ClaimOf(ev).spawn = [slot |-> nextSlot + 1, nonce |-> minted + 1]
    BY <1>1, <1>2, <1>9 DEF ClaimOf
  <2>2. ClaimOf(ev).spawn # NoSpawn
    BY <2>1, SpawnIsNoNoSpawn
  <2>3. byNonce' = Put(Del(byNonce, ev.nonce), minted + 1, nextSlot + 1)
    BY <2>1, <2>2 DEF TakeSlot
  <2>4. DOMAIN byNonce' = (DOMAIN byNonce \ {ev.nonce}) \cup {minted + 1}
    BY <2>3 DEF Put, Del
  <2>5. minted + 1 \notin DOMAIN owner
    BY <1>2, <1>3, <1>7
  <2> QED BY <1>1, <2>4, <2>5
<1>10. Race!Take(ev.player, ev.nonce)
  <2> HIDE DEF left, open, owner
  <2>1. /\ left > 0 /\ ev.nonce \in open /\ left' = left - 1
        /\ owner' = [c \in DOMAIN owner \cup {ev.nonce} |->
                       IF c = ev.nonce THEN ev.player ELSE owner[c]]
        /\ IF left = 1 THEN open' = open \ {ev.nonce}
           ELSE \E c \in open' : /\ c \notin open \cup DOMAIN owner
                                 /\ open' = (open \ {ev.nonce}) \cup {c}
    BY <1>1, <1>5, <1>6, <1>8, <1>9 DEF open
  <2>2. UNCHANGED <<phase = "armed", scores>>
    OBVIOUS
  <2> QED BY <2>1, <2>2 DEF Race!Take, left, open, owner, OwnerOf
<1> QED BY <1>1, <1>2, <1>10 DEF Race!RaceNext

\* What leaves the claims, the open buttons, the scores and the window alone is
\* not seen by the race.
LEMMA UnseenByRace ==
  ASSUME UNCHANGED <<n, byNonce, scored, scores>>, phase' = "armed" <=> phase = "armed"
  PROVE  UNCHANGED Race!rvars
<1>1. OwnerOf(scored)' = OwnerOf(scored)
  OBVIOUS
<1>2. (phase = "armed")' = (phase = "armed")
  OBVIOUS
<1> QED BY <1>1, <1>2 DEF Race!rvars, OwnerOf

\* The armed frame starts a race.
LEMMA ArmingStarts ==
  ASSUME BoardInv, NEW players \in Crowd, Arm(players)
  PROVE  Race!RaceNext
<1>1. BudgetOf(players) \in Nat \ {0} /\ X \in Nat \ {0} /\ minted \in Nat
  BY BudgetPositive, BoardAssumption, Shapes DEF BoardAssumption, BoardInv
<1>2. /\ phase = "pending" /\ phase' = "armed"
      /\ n' = BudgetOf(players) /\ scored' = <<>> /\ scores' = scores
      /\ byNonce' = [k \in (minted + 1)..(minted + X) |-> k - minted]
  BY DEF Arm
<1>3. n' - Len(scored') \in Nat \ {0}
  BY <1>1, <1>2
<1>4. Cardinality(DOMAIN byNonce') = X
  <2>1. DOMAIN byNonce' = (minted + 1)..(minted + X)
    BY <1>2
  <2>2. Cardinality((minted + 1)..(minted + X)) = (minted + X) - (minted + 1) + 1
    BY <1>1, FS_Interval
  <2> QED BY <1>1, <2>1, <2>2
<1>5. OwnerOf(scored') = <<>>
  <2>1. DOMAIN scored' = {}
    BY <1>2
  <2> QED BY <2>1 DEF OwnerOf
<1>6. Race!Start
  <2>1. (phase = "armed") = FALSE /\ (phase' = "armed") = TRUE
    BY <1>2
  <2> QED BY <2>1, <1>2, <1>3, <1>4, <1>5, SameCount DEF Race!Start, OwnerOf
<1> QED BY <1>6 DEF Race!RaceNext

\* The end of a window, full or timed out, finishes the race: the deltas pay for
\* the buttons owned.
LEMMA ClosingFinishes ==
  ASSUME BoardInv, phase = "armed", Close
  PROVE  Race!RaceNext
<1>1. /\ scored' = scored /\ n' = n /\ byNonce' = byNonce
      /\ scores' = [p \in Player |-> scores[p] + Delta(p)]
      /\ phase' # "armed"
  BY DEF Close
<1>2. /\ scored \in Seq(Click)
      /\ \A i, j \in DOMAIN scored : scored[i].nonce = scored[j].nonce => i = j
  BY Shapes DEF BoardInv, OneClaimPerButton
<1>3. \A p \in Player : Delta(p) =
        Cardinality({b \in DOMAIN OwnerOf(scored) : OwnerOf(scored)[b] = p})
  BY <1>2, OwnedAreClicks DEF Delta
<1>4. scores' = [p \in Player |-> scores[p]
                  + Cardinality({b \in DOMAIN OwnerOf(scored) : OwnerOf(scored)[b] = p})]
  BY <1>1, <1>3
<1>5. Race!Finish
  <2>1. (phase = "armed") = TRUE /\ (phase' = "armed") = FALSE
    BY <1>1
  <2>2. n' - Len(scored') = n - Len(scored) /\ DOMAIN byNonce' = DOMAIN byNonce
        /\ OwnerOf(scored)' = OwnerOf(scored)
    BY <1>1
  <2> QED BY <2>1, <2>2, <1>4, SameCount DEF Race!Finish, OwnerOf
<1> QED BY <1>5 DEF Race!RaceNext

LEMMA StepRaces ==
  ASSUME BoardInv, [Next]_vars
  PROVE  [Race!RaceNext]_(Race!rvars)
<1>1. ASSUME NEW players \in Crowd, Arm(players) PROVE Race!RaceNext
  BY <1>1, ArmingStarts
<1>2. CASE CloseFull \/ CloseTimeout
  BY <1>2, ClosingFinishes DEF CloseFull, CloseTimeout
<1>3. CASE Offer
  <2>1. Head(queue) \in Click
    BY <1>3 DEF Offer, BoardInv, TypeOK
  <2>2. phase = "armed" /\ phase' = phase /\ scores' = scores
    BY <1>3 DEF Offer
  <2>3. CASE Scores(Head(queue)) /\ TakeSlot(Head(queue))
    BY <2>1, <2>2, <2>3, ScoringIsTaking
  <2>4. CASE UNCHANGED boardVars
    BY <2>2, <2>4, UnseenByRace DEF boardVars
  <2> QED BY <1>3, <2>3, <2>4 DEF Offer
<1>4. CASE NewGame
  <2>1. /\ phase # "armed" /\ phase' # "armed" /\ n' = n /\ byNonce' = byNonce
        /\ scored' = scored /\ scores' = [p \in Player |-> 0]
    BY <1>4 DEF NewGame, boardVars
  <2>2. Race!Reset
    BY <2>1 DEF Race!Reset
  <2> QED BY <2>2 DEF Race!RaceNext
<1>5. CASE NextRound
  <2>1. UNCHANGED <<n, byNonce, scored, scores>> /\ phase # "armed" /\ phase' # "armed"
    BY <1>5 DEF NextRound, boardVars
  <2> QED BY <2>1, UnseenByRace
<1>6. CASE Discard \/ Tick \/ UNCHANGED vars
           \/ \E p \in Player, k \in 0..shown : Submit(p, k)
  <2>1. UNCHANGED <<n, byNonce, scored, scores, phase>>
    BY <1>6 DEF Discard, Tick, Submit, vars, boardVars
  <2> QED BY <2>1, UnseenByRace
<1> QED BY <1>1, <1>2, <1>3, <1>4, <1>5, <1>6 DEF Next

\* The board, the race loop and the games around them implement the abstract
\* window: what Engine.race pays is what the players took, button by button, for
\* any crowd, budget, width of the board, channel capacity and number of rounds.
THEOREM WindowRefinesRace == Spec => ImplementsRace
<1>1. Spec => Race!RaceInit
  BY RaceStarts DEF Spec
<1>2. BoardInv /\ [Next]_vars => [Race!RaceNext]_(Race!rvars)
  BY StepRaces
<1> QED BY <1>1, <1>2, BoardInvariant, PTL DEF Spec, ImplementsRace, Race!RaceSpec

-----------------------------------------------------------------------------
(***************************************************************************)
(* The board as the players see it (ClientBoard): for any viewers and      *)
(* rivals, any capacity of the send channels, and frames dropped or        *)
(* overtaken anywhere.                                                     *)
(***************************************************************************)

\* A button of the window that is open, or was last, has the slot its nonce
\* stands for; of earlier windows' buttons nothing is said.
Honest(b) == b.nonce > Base => b.slot = b.nonce - Base

\* What frames have carried so far.
Wire == {b \in [slot : 0..(SlotMod - 1), nonce : 1..shown] : Honest(b)}

\* Frames and screens with buttons out of B.
Claims(B) == {c \in Claim : c.spawn \in B \cup {NoSpawn}}
Frames(B) ==
  [t : {"hello"}, phase : {"pending", "armed", "result", "over"}, round : Nat]
    \cup [t : {"round_pending"}, round : Nat]
    \cup [t : {"armed"}, round : Nat, buttons : SUBSET B, clicks : Nat]
    \cup [t : {"tick"}, round : Nat, remaining : Int, claims : Seq(Claims(B))]
    \cup [t : {"round_result"}, round : Nat]
    \cup [t : {"game_over"}]
Screens(B) ==
  [phase : {"disconnected", "connecting", "waiting", "pending", "armed", "result",
            "gameover"},
   round : Nat, left : Int, buttons : SUBSET B]
Snaps == [phase : {"pending", "armed", "result", "over"}, round : Nat]

\* The shapes of the clients' state.
ClientShapes ==
  /\ stage \in [Viewer -> {"off", "registered", "snapped", "greeted"}]
  /\ opened \in [Viewer -> 0..MaxConn]
  /\ snap \in [Viewer -> Snaps \cup {NoSnap}]
  /\ \A p \in Viewer : stage[p] = "snapped" => snap[p] \in Snaps
  /\ benched \subseteq Viewer
  /\ outq \in [Viewer -> Seq(Frames(Wire))]
  /\ \A p \in Viewer : Len(outq[p]) <= SendBuf
  /\ screen \in [Viewer -> Screens(Wire)]
  /\ got \in [Viewer -> [pending : BOOLEAN, armed : BOOLEAN, all : BOOLEAN, last : BOOLEAN]]
  /\ \A p \in Viewer : stage[p] = "off" => outq[p] = <<>> /\ screen[p].buttons = {}

\* A claim that waits for its tick brings a button of this window.
WaitingIsHonest ==
  /\ shown <= minted
  /\ \A i \in DOMAIN pending :
       \/ pending[i].spawn = NoSpawn
       \/ /\ pending[i].spawn.nonce \in 1..minted
          /\ pending[i].spawn.nonce = Base + pending[i].spawn.slot

-----------------------------------------------------------------------------
(* What the operators return.                                              *)

\* What the proofs use of the constants.
LEMMA Parameters ==
  /\ X \in Nat \ {0} /\ SlotMod \in Nat \ {0} /\ SendBuf \in Nat \ {0} /\ MaxConn \in Nat
  /\ Viewer \subseteq Player
BY BoardAssumption, ClientAssumption DEF BoardAssumption, ClientAssumption

\* One claim applied to the buttons shown.
AfterClaim(bs, c, current) ==
  {b \in bs : b.slot # c.slot}
    \cup (IF current /\ c.spawn # NoSpawn THEN {c.spawn} ELSE {})

\* f lists the buttons shown on the way through the claims cs.
Shows(f, bs, cs, current) ==
  /\ f[0] = bs /\ \A i \in 1..Len(cs) : f[i] = AfterClaim(f[i - 1], cs[i], current)
  /\ AfterClaims(bs, cs, current) = f[Len(cs)]

\* The recursion in AfterClaims has a solution, which goes claim by claim.
LEMMA ClaimSteps ==
  ASSUME NEW bs, NEW cs, Len(cs) \in Nat, NEW current
  PROVE  \E f : Shows(f, bs, cs, current)
<1> DEFINE K == Len(cs)
           U == bs \cup {cs[i].spawn : i \in 1..K}
           G == [x \in (1..K) \X SUBSET U |-> AfterClaim(x[2], cs[x[1]], current)]
           F(f) == [i \in 0..K |-> IF i = 0 THEN bs ELSE AfterClaim(f[i - 1], cs[i], current)]
           h == CHOOSE f : f = F(f)
<1> HIDE DEF K
<1>1. K \in Nat /\ bs \in SUBSET U
  BY DEF K
<1>2. ASSUME NEW i \in 1..K, NEW B \in SUBSET U
      PROVE  AfterClaim(B, cs[i], current) \in SUBSET U
  <2>1. cs[i].spawn \in U
    OBVIOUS
  <2> HIDE DEF U
  <2> QED BY <2>1 DEF AfterClaim
<1> HIDE DEF U
<1>3. G \in [(1..K) \X SUBSET U -> SUBSET U] /\
      \A i \in 1..K, B \in SUBSET U : G[<<i, B>>] = AfterClaim(B, cs[i], current)
  BY <1>2
<1> HIDE DEF G
<1>4. PICK f : Follows(f, SUBSET U, bs, K, G)
  BY <1>1, <1>3, StepwiseExists
<1>5. f = F(f)
  <2>1. ASSUME NEW i \in 1..K PROVE f[i] = AfterClaim(f[i - 1], cs[i], current)
    <3>1. i - 1 \in 0..K
      BY <1>1
    <3>2. f[i - 1] \in SUBSET U
      BY <1>4, <3>1 DEF Follows
    <3> QED BY <1>3, <1>4, <3>2 DEF Follows
  <2>2. \A i \in 0..K : i # 0 => i \in 1..K
    BY <1>1
  <2> QED BY <1>4, <2>1, <2>2 DEF Follows
<1>6. h = F(h)
  <2> HIDE DEF F
  <2> QED BY <1>5
<1> HIDE DEF h
<1>7. h[0] = bs /\ \A i \in 1..K : h[i] = AfterClaim(h[i - 1], cs[i], current)
  BY <1>1, <1>6
<1>8. AfterClaims(bs, cs, current) = h[K]
  BY DEF AfterClaims, AfterClaim, h, K
<1> QED BY <1>7, <1>8 DEF Shows, K

\* Whatever claims a client applies, it shows buttons it showed or was sent; and
\* only the former unless it takes the window to be the frame's.
LEMMA AfterClaimsWithin ==
  ASSUME NEW B, NEW bs \in SUBSET B, NEW cs \in Seq(Claims(B)), NEW current \in BOOLEAN
  PROVE  /\ AfterClaims(bs, cs, current) \in SUBSET B
         /\ ~current => AfterClaims(bs, cs, current) \in SUBSET bs
<1> DEFINE K == Len(cs)
           C == IF current THEN B ELSE bs
<1>1. K \in Nat /\ bs \in SUBSET C /\ C \subseteq B
  OBVIOUS
<1>2. ASSUME NEW i \in 1..K, NEW S \in SUBSET C
      PROVE  AfterClaim(S, cs[i], current) \in SUBSET C
  <2>1. cs[i].spawn \in B \cup {NoSpawn}
    BY DEF Claims
  <2> QED BY <2>1 DEF AfterClaim
<1>3. PICK f : Shows(f, bs, cs, current)
  BY <1>1, ClaimSteps
<1> DEFINE Good == {i \in 0..K : f[i] \in SUBSET C}
<1> HIDE DEF C
<1>4. 0..K \subseteq Good
  <2>1. 0 \in Good
    BY <1>1, <1>3 DEF Shows
  <2>2. ASSUME NEW i \in 1..K, i - 1 \in Good PROVE i \in Good
    <3>1. i \in 0..K /\ f[i - 1] \in SUBSET C
      BY <1>1, <2>2
    <3> QED BY <1>2, <1>3, <3>1 DEF Shows
  <2> HIDE DEF Good, K
  <2> QED BY <1>1, <2>1, <2>2, UpTo
<1>5. AfterClaims(bs, cs, current) \in SUBSET C
  <2>1. K \in 0..K
    BY <1>1
  <2> QED BY <1>3, <1>4, <2>1 DEF Shows
<1> QED BY <1>1, <1>5 DEF C

\* Outside the window it is sent claims of, it takes no button from them.
LEMMA AfterForeignClaims ==
  ASSUME NEW B, NEW bs \in SUBSET B, NEW cs \in Seq(Claims(B))
  PROVE  AfterClaims(bs, cs, FALSE) \in SUBSET bs
<1>1. \A current \in BOOLEAN : ~current => AfterClaims(bs, cs, current) \in SUBSET bs
  BY AfterClaimsWithin
<1> QED BY <1>1

\* A client that takes the window to be the frame's does with the buttons what a
\* reader of the whole tick stream does: it goes on from the claims before.
LEMMA ClientReplays ==
  ASSUME NEW S, NEW A, NEW cs \in Seq(A), NEW ds \in Seq(A)
  PROVE  AfterClaims(Replayed(S, cs), ds, TRUE) = Replayed(S, cs \o ds)
<1> DEFINE K == Len(cs)
           L == Len(ds)
           es == cs \o ds
           R == Replayed(S, cs)
<1>1. /\ K \in Nat /\ L \in Nat /\ Len(es) = K + L
      /\ \A i \in 1..K : es[i] = cs[i]
      /\ \A i \in 1..L : es[K + i] = ds[i]
  <2>1. K \in Nat /\ L \in Nat
    OBVIOUS
  <2>2. /\ Len(es) = K + L
        /\ \A i \in 1..(K + L) : es[i] = IF i <= K THEN cs[i] ELSE ds[i - K]
    BY ConcatProperties
  <2> HIDE DEF K, L, es
  <2>3. \A i \in 1..K : i \in 1..(K + L) /\ i <= K
    BY <2>1
  <2>4. \A i \in 1..L : K + i \in 1..(K + L) /\ ~(K + i <= K) /\ (K + i) - K = i
    BY <2>1
  <2> QED BY <2>1, <2>2, <2>3, <2>4
<1> HIDE DEF es, R
<1>2. PICK f : Boards(f, S, cs)
  BY <1>1, ReplaySteps
<1>3. PICK g : Boards(g, S, es)
  <2>1. Len(es) \in Nat
    BY <1>1
  <2> QED BY <2>1, ReplaySteps
<1>4. PICK h : Shows(h, R, ds, TRUE)
  BY <1>1, ClaimSteps
<1>5. \A i \in 0..K : f[i] = g[i]
  <2> DEFINE Same == {i \in 0..K : f[i] = g[i]}
  <2>1. 0 \in Same
    <3>1. 0 \in 0..K
      BY <1>1
    <3> QED BY <1>2, <1>3, <3>1 DEF Boards
  <2>2. ASSUME NEW i \in 1..K, i - 1 \in Same PROVE i \in Same
    <3>1. i \in 0..K /\ i \in 1..Len(es) /\ f[i - 1] = g[i - 1] /\ es[i] = cs[i]
      BY <1>1, <2>2
    <3> QED BY <1>2, <1>3, <3>1 DEF Boards
  <2>3. 0..K \subseteq Same
    <3> HIDE DEF Same, K
    <3> QED BY <1>1, <2>1, <2>2, UpTo
  <2> QED BY <2>3
<1>6. g[K] = R
  <2>1. K \in 0..K
    BY <1>1
  <2> QED BY <1>2, <1>5, <2>1 DEF Boards, R
<1>7. \A i \in 0..L : g[K + i] = h[i]
  <2> DEFINE Same == {i \in 0..L : g[K + i] = h[i]}
  <2>1. 0 \in Same
    <3>1. 0 \in 0..L /\ K + 0 = K
      BY <1>1
    <3> QED BY <1>4, <1>6, <3>1 DEF Shows
  <2>2. ASSUME NEW i \in 1..L, i - 1 \in Same PROVE i \in Same
    <3>1. /\ i \in 0..L /\ K + i \in 1..Len(es) /\ g[K + (i - 1)] = h[i - 1]
          /\ (K + i) - 1 = K + (i - 1) /\ es[K + i] = ds[i]
      BY <1>1, <2>2
    <3>2. g[K + i] = Claimed(h[i - 1], ds[i])
      BY <1>3, <3>1 DEF Boards
    <3>3. h[i] = AfterClaim(h[i - 1], ds[i], TRUE)
      BY <1>4, <3>1 DEF Shows
    <3>4. AfterClaim(h[i - 1], ds[i], TRUE) = Claimed(h[i - 1], ds[i])
      BY DEF AfterClaim, Claimed
    <3> QED BY <3>1, <3>2, <3>3, <3>4
  <2>3. 0..L \subseteq Same
    <3> HIDE DEF Same, L
    <3> QED BY <1>1, <2>1, <2>2, UpTo
  <2> QED BY <2>3
<1>8. L \in 0..L
  BY <1>1
<1>9. Replayed(S, es) = g[K + L] /\ AfterClaims(R, ds, TRUE) = h[L]
  BY <1>1, <1>3, <1>4 DEF Boards, Shows
<1> QED BY <1>7, <1>8, <1>9 DEF es, R

\* What a fan-out leaves in a channel: what was in it, and as many of the new
\* frames as it has room for.
LEMMA PushedFrames ==
  ASSUME NEW F, NEW p \in Viewer, outq[p] \in Seq(F), Len(outq[p]) <= SendBuf,
         NEW ms \in Seq(F)
  PROVE  /\ Pushed(p, ms) \in Seq(F)
         /\ Len(outq[p]) <= Len(Pushed(p, ms)) /\ Len(Pushed(p, ms)) <= SendBuf
         /\ Len(Pushed(p, ms)) <= Len(outq[p]) + Len(ms)
         /\ Room(p, Len(ms)) => Len(Pushed(p, ms)) = Len(outq[p]) + Len(ms)
         /\ \A i \in 1..Len(outq[p]) : Pushed(p, ms)[i] = outq[p][i]
         /\ \A i \in (Len(outq[p]) + 1)..Len(Pushed(p, ms)) :
              i - Len(outq[p]) \in DOMAIN ms /\ Pushed(p, ms)[i] = ms[i - Len(outq[p])]
<1> DEFINE q == outq[p]
           k == IF Room(p, Len(ms)) THEN Len(ms) ELSE SendBuf - Len(q)
           s == SubSeq(ms, 1, k)
<1>1. /\ Len(q) \in Nat /\ Len(ms) \in Nat /\ SendBuf \in Nat
      /\ Room(p, Len(ms)) <=> Len(q) + Len(ms) <= SendBuf
  BY Parameters DEF Room
<1>2. k \in 0..Len(ms) /\ Len(q) + k <= SendBuf /\ (Room(p, Len(ms)) => k = Len(ms))
  <2> HIDE DEF q
  <2>1. Len(q) <= SendBuf
    BY DEF q
  <2>2. CASE Room(p, Len(ms))
    BY <1>1, <2>2
  <2>3. CASE ~Room(p, Len(ms))
    BY <1>1, <2>1, <2>3
  <2> QED BY <2>2, <2>3
<1> HIDE DEF k
<1>3. s \in Seq(F) /\ Len(s) = k /\ \A i \in 1..k : s[i] = ms[i]
  BY <1>1, <1>2
<1>4. Pushed(p, ms) = q \o s
  BY DEF Pushed, k
<1> HIDE DEF s, q
<1>5. /\ q \o s \in Seq(F) /\ Len(q \o s) = Len(q) + k
      /\ \A i \in 1..Len(q) : (q \o s)[i] = q[i]
      /\ \A i \in (Len(q) + 1)..(Len(q) + k) : (q \o s)[i] = s[i - Len(q)]
  <2>1. q \in Seq(F)
    BY DEF q
  <2>2. /\ q \o s \in Seq(F) /\ Len(q \o s) = Len(q) + Len(s)
        /\ \A i \in 1..Len(q) + Len(s) :
             (q \o s)[i] = IF i <= Len(q) THEN q[i] ELSE s[i - Len(q)]
    BY <1>3, <2>1, ConcatProperties
  <2> QED BY <1>1, <1>2, <1>3, <2>2
<1>6. \A i \in (Len(q) + 1)..(Len(q) + k) : i - Len(q) \in 1..k /\ i - Len(q) \in DOMAIN ms
  BY <1>1, <1>2
<1>7. /\ Len(q) <= Len(q) + k /\ Len(q) + k <= Len(q) + Len(ms)
      /\ \A i \in (Len(q) + 1)..(Len(q) + k) : s[i - Len(q)] = ms[i - Len(q)]
  BY <1>1, <1>2, <1>3, <1>6
<1> QED BY <1>2, <1>4, <1>5, <1>6, <1>7 DEF q

\* Frames and screens with fewer buttons are among those with more.
LEMMA Wider ==
  ASSUME NEW B, NEW D, B \subseteq D
  PROVE  /\ Seq(Frames(B)) \subseteq Seq(Frames(D)) /\ Screens(B) \subseteq Screens(D)
         /\ Frames(B) \subseteq Frames(D)
<1>1. Claims(B) \subseteq Claims(D)
  BY DEF Claims
<1>2. Seq(Claims(B)) \subseteq Seq(Claims(D))
  BY <1>1, SeqMonotonic, Zenon
<1>3. Frames(B) \subseteq Frames(D)
  BY <1>2 DEF Frames
<1>4. Screens(B) \subseteq Screens(D)
  BY DEF Screens
<1> QED BY <1>3, <1>4, SeqMonotonic, Zenon

\* A frame takes a screen with buttons out of B to another.
LEMMA ApplyTyped ==
  ASSUME NEW B, NEW s \in Screens(B), NEW m \in Frames(B)
  PROVE  Apply(s, m) \in Screens(B)
<1>1. CASE m.t = "hello"
  <2>1. m.round \in Nat
    BY <1>1 DEF Frames
  <2> QED BY <1>1, <2>1 DEF Apply, Screens, PhaseFrom
<1>2. CASE m.t = "round_pending" \/ m.t = "round_result"
  <2>1. m.round \in Nat
    BY <1>2 DEF Frames
  <2> QED BY <1>2, <2>1 DEF Apply, Screens
<1>3. CASE m.t = "armed"
  <2>1. m.round \in Nat /\ m.clicks \in Nat /\ m.buttons \in SUBSET B
    BY <1>3 DEF Frames
  <2> QED BY <1>3, <2>1 DEF Apply, Screens
<1>4. CASE m.t = "tick"
  <2>1. m.remaining \in Int /\ m.claims \in Seq(Claims(B))
    BY <1>4 DEF Frames
  <2> DEFINE current == s.phase = "armed" /\ s.round = m.round
             bs == AfterClaims(s.buttons, m.claims, current)
             k == CountAfter(s, m)
  <2>2. bs \in SUBSET B
    <3>1. s.buttons \in SUBSET B
      BY DEF Screens
    <3>2. current \in BOOLEAN
      OBVIOUS
    <3> HIDE DEF current
    <3> QED BY <2>1, <3>1, <3>2, AfterClaimsWithin
  <2>3. k \in Int
    BY <2>1 DEF CountAfter, Screens
  <2>4. Apply(s, m) = [s EXCEPT !.left = k, !.buttons = bs]
    BY <1>4 DEF Apply
  <2> HIDE DEF bs, k
  <2> QED BY <2>2, <2>3, <2>4 DEF Screens
<1>5. CASE m.t = "game_over"
  BY <1>5 DEF Apply, Screens
<1>6. m.t \in {"hello", "round_pending", "armed", "tick", "round_result", "game_over"}
  BY DEF Frames
<1> QED BY <1>1, <1>2, <1>3, <1>4, <1>5, <1>6

-----------------------------------------------------------------------------
(* The board under the clients.                                            *)

\* Players send what is on a screen, or was published: every step of the
\* composition is a step of the board, or leaves it alone.
LEMMA BoardStep ==
  ASSUME BoardInv, ClientShapes, [CNext]_cvars
  PROVE  [Next]_vars
<1>1. CASE UNCHANGED vars
  BY <1>1
<1>2. CASE ServerPending
  BY <1>2 DEF ServerPending, Next
<1>3. ASSUME NEW players \in Crowd, NEW out \in SUBSET Viewer, ServerArm(players, out)
      PROVE  Next
  BY <1>3 DEF ServerArm, Next
<1>4. CASE ServerTick \/ ServerClose \/ ServerClicks
  BY <1>4 DEF ServerTick, ServerClose, ServerClicks, Next
<1>5. CASE RivalClick
  <2>1. PICK p \in Player, k \in (minted - nextSlot + 1)..shown : Submit(p, k)
    BY <1>5 DEF RivalClick
  <2>2. minted - nextSlot >= 0 /\ minted - nextSlot \in Int /\ shown \in Nat
    BY Shapes DEF BoardInv, TypeOK, SlotsInStep, Base
  <2>3. k \in 0..shown
    BY <2>2
  <2> QED BY <2>1, <2>3 DEF Next
<1>6. ASSUME NEW p \in Viewer, ClientClick(p) PROVE Next
  <2>1. PICK b \in screen[p].buttons : Submit(p, b.nonce)
    BY <1>6 DEF ClientClick
  <2>2. b.nonce \in 0..shown /\ p \in Player
    <3>1. b \in Wire
      BY DEF ClientShapes, Screens
    <3> QED BY <3>1, Parameters DEF Wire, BoardInv, TypeOK
  <2> QED BY <2>1, <2>2 DEF Next
<1>7. ASSUME NEW p \in Viewer,
             Register(p) \/ ReadSnapshot(p) \/ SendHello(p) \/ Disconnect(p) \/ Deliver(p)
      PROVE  UNCHANGED vars
  BY <1>7 DEF Register, ReadSnapshot, SendHello, Disconnect, Deliver
<1> QED BY <1>1, <1>2, <1>3, <1>4, <1>5, <1>6, <1>7 DEF CNext, cvars

\* What the clients' invariants need to know of a step of the board.
LEMMA BoardMoves ==
  ASSUME BoardInv, WaitingIsHonest, [Next]_vars
  PROVE  /\ WaitingIsHonest'
         /\ shown <= shown'
         /\ Base' = Base \/ (Base' = minted /\ \E players \in Crowd : Arm(players))
<1>1. /\ minted \in Nat /\ nextSlot \in Nat /\ shown \in Nat /\ shown <= minted
      /\ pending \in Seq(Claim)
  BY Shapes DEF BoardInv, TypeOK, WaitingIsHonest
<1>2. \A i \in DOMAIN pending :
        \/ pending[i].spawn = NoSpawn
        \/ /\ pending[i].spawn.nonce \in 1..minted
           /\ pending[i].spawn.nonce = Base + pending[i].spawn.slot
  BY DEF WaitingIsHonest
<1>3. ASSUME NEW players \in Crowd, Arm(players)
      PROVE  WaitingIsHonest' /\ shown <= shown' /\ Base' = minted
  <2>1. pending' = <<>> /\ shown' = minted + X /\ minted' = minted + X /\ nextSlot' = X
    BY <1>3 DEF Arm
  <2> QED BY <1>1, <2>1, Parameters DEF WaitingIsHonest, Base
<1>4. CASE UNCHANGED <<minted, nextSlot, pending, shown>>
  <2>1. Base' = Base
    BY <1>4 DEF Base
  <2> QED BY <1>1, <1>2, <1>4, <2>1 DEF WaitingIsHonest
<1>5. CASE UNCHANGED <<minted, nextSlot>> /\ pending' = <<>> /\ shown' = minted
  BY <1>1, <1>5 DEF Base, WaitingIsHonest
<1>6. ASSUME phase = "armed", NEW ev \in Click, Scores(ev), TakeSlot(ev), shown' = shown
      PROVE  WaitingIsHonest' /\ Base' = Base
  <2>1. pending' = Append(pending, ClaimOf(ev))
    BY <1>6 DEF TakeSlot
  <2>2. CASE ClaimOf(ev).spawn = NoSpawn
    <3>1. minted' = minted /\ nextSlot' = nextSlot
      BY <1>6, <2>2 DEF TakeSlot
    <3>2. Base' = Base
      BY <3>1 DEF Base
    <3> QED BY <1>1, <1>2, <1>6, <2>1, <2>2, <3>1, <3>2 DEF WaitingIsHonest
  <2>3. CASE ClaimOf(ev).spawn # NoSpawn
    <3>1. (nextSlot + 1) % SlotMod = nextSlot + 1
      BY <1>6, ClaimFacts
    <3>2. ClaimOf(ev).spawn = [slot |-> nextSlot + 1, nonce |-> minted + 1]
      BY <2>3, <3>1 DEF ClaimOf
    <3>3. minted' = minted + 1 /\ nextSlot' = nextSlot + 1
      BY <1>6, <2>3, <3>2 DEF TakeSlot
    <3>4. Base' = Base /\ minted + 1 = Base + (nextSlot + 1)
      BY <1>1, <3>3 DEF Base
    <3>5. ClaimOf(ev).spawn.nonce \in 1..minted' /\
          ClaimOf(ev).spawn.nonce = Base + ClaimOf(ev).spawn.slot
      BY <1>1, <3>2, <3>3, <3>4
    <3>6. \A i \in DOMAIN pending' :
            \/ i \in DOMAIN pending /\ pending'[i] = pending[i]
            \/ pending'[i] = ClaimOf(ev)
      BY <1>1, <2>1
    <3>7. \A i \in DOMAIN pending' :
            \/ pending'[i].spawn = NoSpawn
            \/ /\ pending'[i].spawn.nonce \in 1..minted'
               /\ pending'[i].spawn.nonce = Base + pending'[i].spawn.slot
      BY <1>1, <1>2, <3>3, <3>5, <3>6
    <3> QED BY <1>1, <1>6, <3>3, <3>4, <3>7 DEF WaitingIsHonest
  <2> QED BY <2>2, <2>3
<1>7. CASE Offer
  <2>1. Head(queue) \in Click /\ shown' = shown
    BY <1>7 DEF Offer, BoardInv, TypeOK
  <2>2. CASE Scores(Head(queue)) /\ TakeSlot(Head(queue))
    BY <1>1, <1>6, <1>7, <2>1, <2>2 DEF Offer
  <2>3. CASE UNCHANGED boardVars
    BY <1>4, <2>1, <2>3 DEF boardVars
  <2> QED BY <1>7, <2>2, <2>3 DEF Offer
<1>8. CASE Tick \/ CloseFull \/ CloseTimeout
  BY <1>4, <1>5, <1>8 DEF Tick, CloseFull, CloseTimeout, Close, EmitTick
<1>9. ASSUME NEW p \in Player, NEW k \in 0..shown, Submit(p, k)
      PROVE  UNCHANGED <<minted, nextSlot, pending, shown>>
  BY <1>9 DEF Submit, boardVars
<1>10. CASE Discard \/ NextRound \/ NewGame \/ UNCHANGED vars
  BY <1>4, <1>10 DEF Discard, NextRound, NewGame, vars, boardVars
<1> QED BY <1>3, <1>4, <1>7, <1>8, <1>9, <1>10 DEF Next

\* What frames carried stays honest, across windows too.
LEMMA WireGrows ==
  ASSUME BoardInv, BoardInv', WaitingIsHonest, [Next]_vars
  PROVE  Wire \subseteq Wire'
<1>1. /\ minted \in Nat /\ nextSlot \in Nat /\ shown \in Nat /\ shown' \in Nat
      /\ shown <= minted
  BY Shapes DEF BoardInv, TypeOK, WaitingIsHonest
<1>2. shown <= shown' /\ (Base' = Base \/ Base' = minted)
  BY BoardMoves
<1>3. SUFFICES ASSUME NEW b \in Wire PROVE b \in Wire'
  OBVIOUS
<1>4. b \in [slot : 0..(SlotMod - 1), nonce : 1..shown] /\ (b.nonce > Base => b.slot = b.nonce - Base)
  BY DEF Wire, Honest
<1>5. b \in [slot : 0..(SlotMod - 1), nonce : 1..shown']
  BY <1>1, <1>2, <1>4
<1>6. b.nonce > Base' => b.slot = b.nonce - Base'
  BY <1>1, <1>2, <1>4
<1> QED BY <1>5, <1>6 DEF Wire, Honest

-----------------------------------------------------------------------------
(* The shapes of the clients' state.                                       *)

\* A fan-out to connected clients keeps the channels' shape and capacity.
LEMMA FanOutTyped ==
  ASSUME ClientShapes, NEW F, Seq(Frames(Wire)) \subseteq Seq(F),
         NEW to, to \subseteq Connected, NEW ms \in Seq(F), FanOut(to, ms)
  PROVE  /\ outq' \in [Viewer -> Seq(F)]
         /\ \A p \in Viewer : /\ Len(outq'[p]) <= SendBuf
                              /\ p \notin to => outq'[p] = outq[p]
                              /\ p \in to => outq'[p] = Pushed(p, ms)
                              /\ stage[p] = "off" => outq'[p] = outq[p]
<1>1. ASSUME NEW p \in Viewer
      PROVE  /\ outq[p] \in Seq(F) /\ Len(outq[p]) <= SendBuf
             /\ Pushed(p, ms) \in Seq(F) /\ Len(Pushed(p, ms)) <= SendBuf
  <2>1. outq[p] \in Seq(F) /\ Len(outq[p]) <= SendBuf
    BY DEF ClientShapes
  <2> QED BY <2>1, PushedFrames
<1>2. outq' = [p \in Viewer |-> IF p \in to THEN Pushed(p, ms) ELSE outq[p]]
  BY DEF FanOut
<1>3. \A p \in to : stage[p] # "off"
  BY DEF Connected
<1> QED BY <1>1, <1>2, <1>3

\* The frames a fan-out sends are frames, with buttons that are on the wire now.
LEMMA FramesSent ==
  ASSUME BoardInv, BoardInv', WaitingIsHonest, WaitingIsHonest'
  PROVE  /\ <<PendingFrame(round')>> \in Seq(Frames(Wire'))
         /\ \A players \in Crowd : Arm(players) =>
              <<ArmedFrame(round, FirstButtons(minted), n')>> \in Seq(Frames(Wire'))
         /\ EmitTick /\ UNCHANGED <<minted, nextSlot>> =>
              <<TickFrame(round, ticks'[Len(ticks')])>> \in Seq(Frames(Wire'))
         /\ <<GameOverFrame>> \in Seq(Frames(Wire'))
         /\ <<ResultFrame(round)>> \in Seq(Frames(Wire'))
<1>1. round \in Nat /\ round' \in Nat
  BY Parameters DEF BoardInv, TypeOK
<1>2. /\ PendingFrame(round') \in Frames(Wire')
      /\ GameOverFrame \in Frames(Wire') /\ ResultFrame(round) \in Frames(Wire')
  BY <1>1 DEF PendingFrame, GameOverFrame, ResultFrame, Frames
<1>3. ASSUME NEW players \in Crowd, Arm(players)
      PROVE  ArmedFrame(round, FirstButtons(minted), n') \in Frames(Wire')
  <2>1. /\ minted \in Nat /\ shown' = minted + X /\ Base' = minted
        /\ X \in Nat /\ X < SlotMod /\ n' \in Nat
    <3>1. /\ minted' = minted + X /\ nextSlot' = X /\ shown' = minted + X
          /\ n' = BudgetOf(players)
      BY <1>3 DEF Arm
    <3>2. BudgetOf(players) \in Nat \ {0} /\ BudgetOf(players) + X + 1 < SlotMod
      BY BudgetPositive, BoardAssumption DEF BoardAssumption
    <3> QED BY <3>1, <3>2, Shapes, Parameters DEF BoardInv, Base
  <2>2. FirstButtons(minted) \in SUBSET Wire'
    <3>1. SUFFICES ASSUME NEW i \in 1..X
                   PROVE  [slot |-> i, nonce |-> minted + i] \in Wire'
      BY DEF FirstButtons
    <3> DEFINE b == [slot |-> i, nonce |-> minted + i]
    <3>2. b \in [slot : 0..(SlotMod - 1), nonce : 1..shown'] /\ b.slot = b.nonce - Base'
      BY <2>1, Parameters
    <3> QED BY <3>2 DEF Wire, Honest
  <2> QED BY <1>1, <2>1, <2>2 DEF ArmedFrame, Frames
<1>4. ASSUME EmitTick, UNCHANGED <<minted, nextSlot>>
      PROVE  TickFrame(round, ticks'[Len(ticks')]) \in Frames(Wire')
  <2> DEFINE fr == [remaining |-> n - Len(scored), claims |-> pending]
  <2>1. ticks' = Append(ticks, fr) /\ shown' = minted
    BY <1>4 DEF EmitTick
  <2>2. ticks \in Seq(Frame) /\ n - Len(scored) \in Int /\ pending \in Seq(Claim)
    BY Shapes DEF BoardInv, TypeOK
  <2>3. fr \in Frame
    BY <2>2 DEF Frame
  <2>4. ticks'[Len(ticks')] = fr
    <3> HIDE DEF fr
    <3> QED BY <2>1, <2>2, <2>3
  <2>5. Base' = Base
    BY <1>4 DEF Base
  <2>6. \A i \in DOMAIN pending : pending[i] \in Claims(Wire')
    <3>1. SUFFICES ASSUME NEW i \in DOMAIN pending PROVE pending[i] \in Claims(Wire')
      OBVIOUS
    <3>2. pending[i] \in Claim
      BY <2>2
    <3>3. CASE pending[i].spawn = NoSpawn
      BY <3>2, <3>3 DEF Claims
    <3>4. ASSUME pending[i].spawn # NoSpawn PROVE pending[i].spawn \in Wire'
      <4>1. pending[i].spawn.nonce \in 1..minted
            /\ pending[i].spawn.nonce = Base + pending[i].spawn.slot
        BY <3>4 DEF WaitingIsHonest
      <4>2. pending[i].spawn \in Button
        BY <3>2, <3>4 DEF Claim, NoSpawn
      <4> QED BY <2>1, <2>5, <4>1, <4>2, Shapes, Parameters
              DEF Wire, Honest, Button, Base, BoardInv
    <3> QED BY <3>2, <3>3, <3>4 DEF Claims
  <2>7. pending \in Seq(Claims(Wire'))
    BY <2>2, <2>6
  <2> QED BY <1>1, <2>2, <2>4, <2>7 DEF TickFrame, Frames
<1> QED BY <1>2, <1>3, <1>4

\* A fan-out of frames with buttons on the wire keeps the shapes.
LEMMA ShapesAfterFanOut ==
  ASSUME ClientShapes, Wire \subseteq Wire',
         NEW to, to \subseteq Connected, NEW ms \in Seq(Frames(Wire')), FanOut(to, ms),
         BoardStill, benched' \subseteq Viewer,
         got' \in [Viewer -> [pending : BOOLEAN, armed : BOOLEAN, all : BOOLEAN,
                              last : BOOLEAN]]
  PROVE  ClientShapes'
<1>1. Seq(Frames(Wire)) \subseteq Seq(Frames(Wire')) /\ Screens(Wire) \subseteq Screens(Wire')
  BY Wider
<1>2. /\ outq' \in [Viewer -> Seq(Frames(Wire'))]
      /\ \A p \in Viewer : /\ Len(outq'[p]) <= SendBuf
                           /\ stage[p] = "off" => outq'[p] = outq[p]
  BY <1>1, FanOutTyped
<1>3. screen' \in [Viewer -> Screens(Wire')]
  BY <1>1 DEF ClientShapes, BoardStill
<1> QED BY <1>2, <1>3 DEF ClientShapes, BoardStill

\* A step that leaves the board alone leaves alone what frames have carried.
LEMMA WireStays == ASSUME UNCHANGED vars PROVE Wire' = Wire
  BY DEF vars, boardVars, Wire, Honest, Base

\* Every step keeps the shapes of the clients' state.
LEMMA ShapesInductive ==
  ASSUME BoardInv, BoardInv', WaitingIsHonest, WaitingIsHonest', ClientShapes, [CNext]_cvars
  PROVE  ClientShapes'
<1>1. Wire \subseteq Wire' /\ Connected \subseteq Viewer
  BY BoardStep, WireGrows DEF Connected
<1>2. CASE ServerPending
  <2>1. got' \in [Viewer -> [pending : BOOLEAN, armed : BOOLEAN, all : BOOLEAN,
                             last : BOOLEAN]]
    BY <1>2 DEF ServerPending, Nothing
  <2>2. <<PendingFrame(round')>> \in Seq(Frames(Wire'))
    BY FramesSent
  <2>3. benched' \subseteq Viewer /\ BoardStill /\ FanOut(Connected, <<PendingFrame(round')>>)
    BY <1>2 DEF ServerPending, ClientShapes
  <2> QED BY <1>1, <2>1, <2>2, <2>3, ShapesAfterFanOut
<1>3. ASSUME NEW players \in Crowd, NEW out \in SUBSET Viewer, ServerArm(players, out)
      PROVE  ClientShapes'
  <2>1. got' \in [Viewer -> [pending : BOOLEAN, armed : BOOLEAN, all : BOOLEAN,
                             last : BOOLEAN]]
    BY <1>3 DEF ServerArm, ClientShapes, Room
  <2>2. <<ArmedFrame(round, FirstButtons(minted), n')>> \in Seq(Frames(Wire'))
    BY <1>3, FramesSent DEF ServerArm
  <2>3. /\ benched' \subseteq Viewer /\ BoardStill
        /\ FanOut(Connected \ out, <<ArmedFrame(round, FirstButtons(minted), n')>>)
    BY <1>3 DEF ServerArm
  <2>4. Connected \ out \subseteq Connected
    OBVIOUS
  <2> QED BY <1>1, <2>1, <2>2, <2>3, <2>4, ShapesAfterFanOut
<1>4. CASE ServerTick
  <2>1. got' \in [Viewer -> [pending : BOOLEAN, armed : BOOLEAN, all : BOOLEAN,
                             last : BOOLEAN]]
    <3>1. \A p \in Viewer : got[p] \in [pending : BOOLEAN, armed : BOOLEAN,
                                        all : BOOLEAN, last : BOOLEAN]
      BY DEF ClientShapes
    <3>2. got' = [p \in Viewer |->
                    [got[p] EXCEPT !.all = @ /\ Room(p, 1),
                                   !.last = stage[p] = "greeted" /\ Room(p, 1)]]
      BY <1>4 DEF ServerTick
    <3>3. \A p \in Viewer : Room(p, 1) \in BOOLEAN
      BY DEF Room
    <3> HIDE DEF Room
    <3> QED BY <3>1, <3>2, <3>3
  <2>2. <<TickFrame(round, ticks'[Len(ticks')])>> \in Seq(Frames(Wire'))
    <3>1. EmitTick /\ UNCHANGED <<minted, nextSlot>>
      BY <1>4 DEF ServerTick, Tick
    <3> QED BY <3>1, FramesSent
  <2>3. /\ benched' \subseteq Viewer /\ BoardStill
        /\ FanOut(Connected, <<TickFrame(round, ticks'[Len(ticks')])>>)
    BY <1>4 DEF ServerTick, ClientShapes
  <2> QED BY <1>1, <2>1, <2>2, <2>3, ShapesAfterFanOut
<1>5. CASE ServerClose
  <2> DEFINE flush == IF Ticking THEN <<TickFrame(round, ticks'[Len(ticks')])>> ELSE <<>>
             last == <<IF round = Rounds THEN GameOverFrame ELSE ResultFrame(round)>>
  <2>1. got' \in [Viewer -> [pending : BOOLEAN, armed : BOOLEAN, all : BOOLEAN,
                             last : BOOLEAN]]
    BY <1>5 DEF ServerClose, Nothing
  <2>2. flush \in Seq(Frames(Wire'))
    <3>1. Close
      BY <1>5 DEF ServerClose, CloseFull, CloseTimeout
    <3>2. Ticking => EmitTick /\ UNCHANGED <<minted, nextSlot>>
      BY <3>1 DEF Close
    <3>3. Ticking => <<TickFrame(round, ticks'[Len(ticks')])>> \in Seq(Frames(Wire'))
      BY <3>2, FramesSent
    <3> QED BY <3>3
  <2>3. last \in Seq(Frames(Wire'))
    BY FramesSent
  <2>4. BoardStill /\ benched' \subseteq Viewer /\ FanOut(Connected, flush \o last)
    BY <1>5 DEF ServerClose, ClientShapes
  <2> HIDE DEF flush, last
  <2>5. flush \o last \in Seq(Frames(Wire'))
    BY <2>2, <2>3, ConcatProperties
  <2> QED BY <1>1, <2>1, <2>4, <2>5, ShapesAfterFanOut
<1>6. CASE ServerClicks \/ RivalClick \/ UNCHANGED cvars \/ \E p \in Viewer : ClientClick(p)
  <2>1. UNCHANGED clientVars
    BY <1>6 DEF ServerClicks, RivalClick, ClientClick, cvars
  <2>2. /\ Seq(Frames(Wire)) \subseteq Seq(Frames(Wire'))
        /\ Screens(Wire) \subseteq Screens(Wire')
    BY <1>1, Wider
  <2>3. outq' \in [Viewer -> Seq(Frames(Wire'))] /\ screen' \in [Viewer -> Screens(Wire')]
    BY <2>1, <2>2 DEF ClientShapes, clientVars
  <2> QED BY <2>1, <2>3 DEF ClientShapes, clientVars
<1>7. ASSUME NEW p \in Viewer, Register(p) PROVE ClientShapes'
  <2>1. Wire' = Wire
    BY <1>7, WireStays DEF Register
  <2>2. [screen[p] EXCEPT !.phase = "connecting"] \in Screens(Wire)
    <3>1. screen[p] \in Screens(Wire)
      BY DEF ClientShapes
    <3> QED BY <3>1 DEF Screens
  <2>3. screen' \in [Viewer -> Screens(Wire)]
    <3>1. screen' = [screen EXCEPT ![p] = [screen[p] EXCEPT !.phase = "connecting"]]
      BY <1>7 DEF Register
    <3> QED BY <2>2, <3>1 DEF ClientShapes
  <2>4. opened' \in [Viewer -> 0..MaxConn]
    <3>1. opened[p] + 1 \in 0..MaxConn
      BY <1>7, Parameters DEF Register, ClientShapes
    <3> QED BY <1>7, <3>1 DEF Register, ClientShapes
  <2> QED BY <1>7, <2>1, <2>3, <2>4 DEF Register, ClientShapes
<1>8. ASSUME NEW p \in Viewer, ReadSnapshot(p) PROVE ClientShapes'
  <2>1. Wire' = Wire
    BY <1>8, WireStays DEF ReadSnapshot
  <2>2. [phase |-> phase, round |-> round] \in Snaps
    BY Parameters DEF BoardInv, TypeOK, Snaps
  <2> QED BY <1>8, <2>1, <2>2 DEF ReadSnapshot, ClientShapes
<1>9. ASSUME NEW p \in Viewer, SendHello(p) PROVE ClientShapes'
  <2>1. Wire' = Wire
    BY <1>9, WireStays DEF SendHello
  <2>2. <<HelloFrame(snap[p])>> \in Seq(Frames(Wire))
    <3>1. snap[p] \in Snaps
      BY <1>9 DEF SendHello, ClientShapes
    <3>2. HelloFrame(snap[p]) \in Frames(Wire)
      BY <3>1 DEF Snaps, HelloFrame, Frames
    <3> QED BY <3>2
  <2>3. /\ Pushed(p, <<HelloFrame(snap[p])>>) \in Seq(Frames(Wire))
        /\ Len(Pushed(p, <<HelloFrame(snap[p])>>)) <= SendBuf
    <3>1. outq[p] \in Seq(Frames(Wire)) /\ Len(outq[p]) <= SendBuf
      BY DEF ClientShapes
    <3> QED BY <2>2, <3>1, PushedFrames
  <2> HIDE DEF Wire
  <2>4. outq' \in [Viewer -> Seq(Frames(Wire))] /\ \A v \in Viewer : Len(outq'[v]) <= SendBuf
    BY <1>9, <2>3 DEF SendHello, ClientShapes
  <2> QED BY <1>9, <2>1, <2>4 DEF SendHello, ClientShapes
<1>10. ASSUME NEW p \in Viewer, Disconnect(p) PROVE ClientShapes'
  <2>1. Wire' = Wire
    BY <1>10, WireStays DEF Disconnect
  <2>2. screen' \in [Viewer -> Screens(Wire)] /\ outq' \in [Viewer -> Seq(Frames(Wire))]
    <3> DEFINE blank == [screen[p] EXCEPT !.phase = "disconnected", !.buttons = {}]
    <3>1. screen[p] \in Screens(Wire)
      BY DEF ClientShapes
    <3>2. blank \in Screens(Wire)
      BY <3>1 DEF Screens
    <3>3. screen' = [screen EXCEPT ![p] = blank]
      BY <1>10, <3>1 DEF Disconnect, ClientShapes
    <3>4. <<>> \in Seq(Frames(Wire))
      OBVIOUS
    <3> HIDE DEF blank
    <3>5. outq' = [outq EXCEPT ![p] = <<>>]
      BY <1>10 DEF Disconnect
    <3>6. screen' \in [Viewer -> Screens(Wire)]
      BY <3>2, <3>3 DEF ClientShapes
    <3>7. outq' \in [Viewer -> Seq(Frames(Wire))]
      BY <3>4, <3>5 DEF ClientShapes
    <3> QED BY <3>6, <3>7
  <2>3. \A v \in Viewer : Len(outq'[v]) <= SendBuf
    BY <1>10, Parameters DEF Disconnect, ClientShapes
  <2>4. got' \in [Viewer -> [pending : BOOLEAN, armed : BOOLEAN, all : BOOLEAN,
                             last : BOOLEAN]]
    BY <1>10 DEF Disconnect, ClientShapes, Nothing
  <2>5. \A v \in Viewer : stage'[v] = "off" => outq'[v] = <<>> /\ screen'[v].buttons = {}
    BY <1>10 DEF Disconnect, ClientShapes, Screens
  <2> QED BY <1>10, <2>1, <2>2, <2>3, <2>4, <2>5 DEF Disconnect, ClientShapes
<1>11. ASSUME NEW p \in Viewer, Deliver(p) PROVE ClientShapes'
  <2>1. Wire' = Wire
    BY <1>11, WireStays DEF Deliver
  <2>2. outq[p] \in Seq(Frames(Wire)) /\ outq[p] # <<>> /\ Len(outq[p]) <= SendBuf
        /\ screen[p] \in Screens(Wire)
    BY <1>11 DEF Deliver, ClientShapes
  <2>3. /\ Head(outq[p]) \in Frames(Wire) /\ Tail(outq[p]) \in Seq(Frames(Wire))
        /\ Len(Tail(outq[p])) <= SendBuf
    BY <2>2, Parameters, HeadTailProperties
  <2>4. Apply(screen[p], Head(outq[p])) \in Screens(Wire)
    BY <2>2, <2>3, ApplyTyped
  <2>5. /\ outq' \in [Viewer -> Seq(Frames(Wire))]
        /\ screen' \in [Viewer -> Screens(Wire)]
        /\ \A v \in Viewer : Len(outq'[v]) <= SendBuf
    BY <1>11, <2>3, <2>4 DEF Deliver, ClientShapes
  <2> QED BY <1>11, <2>1, <2>5 DEF Deliver, ClientShapes
<1> QED BY <1>2, <1>3, <1>4, <1>5, <1>6, <1>7, <1>8, <1>9, <1>10, <1>11 DEF CNext

-----------------------------------------------------------------------------
(* What the clients' board implements, and what a press means.             *)

ClientsInv == BoardInv /\ WaitingIsHonest /\ ClientShapes

\* Before the first game nobody is connected.
LEMMA ClientsInit == CInit => ClientsInv
<1> SUFFICES ASSUME CInit PROVE ClientsInv
  OBVIOUS
<1>1. Init
  BY DEF CInit
<1>2. BoardInv
  BY <1>1, BoardInit
<1>3. WaitingIsHonest
  BY <1>1 DEF Init, WaitingIsHonest
<1>4. Blank("disconnected") \in Screens(Wire) /\ <<>> \in Seq(Frames(Wire)) /\ Len(<<>>) = 0
  BY DEF Blank, Screens
<1>5. outq \in [Viewer -> Seq(Frames(Wire))] /\ screen \in [Viewer -> Screens(Wire)]
  <2> HIDE DEF Wire
  <2> QED BY <1>4 DEF CInit
<1>6. ClientShapes
  BY <1>4, <1>5, Parameters DEF CInit, ClientShapes, Nothing, NoSnap, Blank
<1> QED BY <1>2, <1>3, <1>6 DEF ClientsInv

\* Every step keeps the invariant, and is one of the board.
LEMMA ClientsInductive ==
  ASSUME ClientsInv, [CNext]_cvars
  PROVE  ClientsInv' /\ [Next]_vars
<1>1. [Next]_vars
  BY BoardStep DEF ClientsInv
<1>2. BoardInv' /\ WaitingIsHonest'
  BY <1>1, BoardInductive, BoardMoves DEF ClientsInv
<1>3. ClientShapes'
  BY <1>2, ShapesInductive DEF ClientsInv
<1> QED BY <1>1, <1>2, <1>3 DEF ClientsInv

\* The invariant of the board and its clients: buttons on the wire are honest,
\* and channels and screens hold none but those.
THEOREM ClientInvariant == CSpec => []ClientsInv
<1>1. ClientsInv /\ [CNext]_cvars => ClientsInv'
  BY ClientsInductive
<1> QED BY <1>1, ClientsInit, PTL DEF CSpec

\* The board with its clients implements the board: connections, lost frames and
\* stale screens never make a player submit what Board does not allow.
THEOREM ClientsImplementBoard == CSpec => Spec
<1>1. ClientsInv /\ [CNext]_cvars => [Next]_vars
  BY ClientsInductive
<1>2. CInit => Init
  BY DEF CInit
<1> QED BY <1>1, <1>2, ClientInvariant, PTL DEF CSpec, Spec

\* A live nonce is past the windows before and stands for its slot.
LEMMA LiveIsHonest ==
  ASSUME BoardInv, NEW k \in DOMAIN byNonce
  PROVE  k > Base /\ byNonce[k] = k - Base
<1>1. byNonce[k] \in DOMAIN live /\ live[byNonce[k]] = k
  BY DEF BoardInv, MirrorsAgree
<1>2. byNonce[k] \in 1..nextSlot /\ k = Base + byNonce[k]
  BY <1>1 DEF BoardInv, SlotsInStep
<1>3. Base \in Int
  BY Shapes DEF BoardInv, Base
<1> QED BY <1>2, <1>3

\* Whatever was dropped, late or out of date, a press is taken for the button
\* under the pointer or for nothing (ClickController.OnData, board.offer).
THEOREM PressAlwaysMeansWhatIsShown == CSpec => []PressMeansWhatIsShown
<1>1. ASSUME ClientsInv PROVE PressMeansWhatIsShown
  <2>1. SUFFICES ASSUME NEW p \in Viewer, NEW b \in screen[p].buttons,
                        b.nonce \in DOMAIN byNonce
                 PROVE  byNonce[b.nonce] = b.slot
    BY DEF PressMeansWhatIsShown
  <2>2. b \in Wire
    BY <1>1 DEF ClientsInv, ClientShapes, Screens
  <2>3. b.nonce > Base /\ byNonce[b.nonce] = b.nonce - Base
    BY <1>1, <2>1, LiveIsHonest DEF ClientsInv
  <2> QED BY <2>2, <2>3 DEF Wire, Honest
<1> QED BY <1>1, ClientInvariant, PTL

\* The type invariant of the clients: no channel holds more than its capacity and
\* no screen a button that was never minted.
THEOREM ClientTypeCorrect == CSpec => []CTypeOK
<1>1. ASSUME ClientsInv PROVE CTypeOK
  <2>1. TypeOK /\ shown <= minted /\ shown \in Nat /\ minted \in Nat
    BY <1>1 DEF ClientsInv, BoardInv, TypeOK, WaitingIsHonest
  <2>2. Wire \subseteq [slot : 0..(SlotMod - 1), nonce : 1..minted]
    BY <2>1, Parameters DEF Wire
  <2>3. \A p \in Viewer : screen[p].buttons \subseteq Wire
    BY <1>1 DEF ClientsInv, ClientShapes, Screens
  <2> QED BY <1>1, <2>1, <2>2, <2>3 DEF ClientsInv, ClientShapes, CTypeOK
<1> QED BY <1>1, ClientInvariant, PTL

-----------------------------------------------------------------------------
(***************************************************************************)
(* The benched.  Hub.Armed withholds the armed frame, but the ticks that   *)
(* follow go to everybody and carry live buttons.  They stay off the       *)
(* screen because the round's round_pending is in front of them: until the *)
(* client gets there, all it can be shown are buttons of earlier windows,  *)
(* and from there on nothing puts it back into the armed phase, which is   *)
(* when it would take a tick's buttons.                                    *)
(***************************************************************************)

\* In the queue q frame k is the round's round_pending (0: the screen s has been
\* through it), and nothing behind it opens a window for the client.
Shut(s, q, k) ==
  /\ k \in 0..Len(q)
  /\ k = 0 => s.phase # "armed"
  /\ k > 0 => q[k].t = "round_pending"
  /\ \A i \in (k + 1)..Len(q) : q[i].t # "armed"

\* On the screen, and up to frame k, there are only buttons of B.
Within(s, q, k, B) == s.buttons \subseteq B /\ \A i \in 1..k : q[i] \in Frames(B)

\* The buttons of earlier windows.
Stale == {b \in Wire : b.nonce <= Base}

BenchedShut ==
  \A p \in Viewer :
    got[p].pending /\ (phase = "pending" \/ (phase = "armed" /\ p \in benched)) =>
      \E k \in 0..SendBuf : /\ Shut(screen[p], outq[p], k)
                            /\ phase = "armed" => Within(screen[p], outq[p], k, Stale)

\* Frames behind the queue that do not open a window change nothing of this.
LEMMA ShutBehind ==
  ASSUME NEW s, NEW F, NEW q \in Seq(F), NEW r \in Seq(F), NEW k, NEW B, Shut(s, q, k),
         Len(q) <= Len(r), \A i \in 1..Len(q) : r[i] = q[i],
         \A i \in (Len(q) + 1)..Len(r) : r[i].t # "armed"
  PROVE  Shut(s, r, k) /\ (Within(s, q, k, B) => Within(s, r, k, B))
<1>1. k \in 0..Len(q) /\ Len(q) \in Nat /\ Len(r) \in Nat
  BY DEF Shut
<1>2. \A i \in 1..k : i \in 1..Len(q)
  BY <1>1
<1>3. \A i \in (k + 1)..Len(r) : i \in (k + 1)..Len(q) \/ i \in (Len(q) + 1)..Len(r)
  BY <1>1
<1>4. \A i \in (k + 1)..Len(q) : i \in 1..Len(q)
  BY <1>1
<1>5. k > 0 => k \in 1..Len(q)
  BY <1>1
<1>6. k \in 0..Len(r)
  BY <1>1
<1> QED BY <1>2, <1>3, <1>4, <1>5, <1>6 DEF Shut, Within

\* Nor does taking the queue's first frame.
LEMMA ShutAhead ==
  ASSUME NEW D, NEW B, B \subseteq D, NEW s \in Screens(D), NEW q \in Seq(Frames(D)), q # <<>>,
         NEW k, Shut(s, q, k)
  PROVE  \E j \in 0..Len(q) :
           /\ Shut(Apply(s, Head(q)), Tail(q), j)
           /\ Within(s, q, k, B) => Within(Apply(s, Head(q)), Tail(q), j, B)
<1> DEFINE m == Head(q)
           t == Apply(s, m)
<1>1. /\ Len(q) \in Nat /\ Len(q) > 0 /\ k \in 0..Len(q)
      /\ Len(Tail(q)) = Len(q) - 1 /\ Tail(q) \in Seq(Frames(D))
      /\ \A i \in 1..Len(q) - 1 : Tail(q)[i] = q[i + 1]
      /\ m = q[1] /\ m \in Frames(D)
  BY HeadTailProperties DEF Shut
<1>3. CASE k > 1
  <2>1. /\ k - 1 \in 0..Len(Tail(q)) /\ k - 1 > 0 /\ k - 1 \in 1..Len(q) - 1
        /\ (k - 1) + 2 = k + 1 /\ (k - 1) + 1 = k
    BY <1>1, <1>3
  <2>2. Tail(q)[k - 1] = q[k]
    BY <1>1, <2>1
  <2>3. \A i \in (k - 1 + 1)..Len(Tail(q)) : Tail(q)[i].t # "armed"
    <3>1. ASSUME NEW i \in (k - 1 + 1)..Len(Tail(q)) PROVE Tail(q)[i].t # "armed"
      <4>1. i \in 1..Len(q) - 1 /\ i + 1 \in (k + 1)..Len(q)
        BY <1>1, <1>3
      <4> QED BY <1>1, <4>1 DEF Shut
    <3> QED BY <3>1
  <2>4. Shut(t, Tail(q), k - 1)
    <3> HIDE DEF t
    <3> QED BY <1>3, <2>1, <2>2, <2>3 DEF Shut
  <2>5. ASSUME Within(s, q, k, B) PROVE Within(t, Tail(q), k - 1, B)
    <3>1. s \in Screens(B)
      BY <2>5 DEF Within, Screens
    <3>2. 1 \in 1..k
      BY <1>1, <1>3
    <3>3. m \in Frames(B)
      BY <1>1, <2>5, <3>2 DEF Within
    <3>4. t \in Screens(B)
      BY <3>1, <3>3, ApplyTyped
    <3>5. \A i \in 1..k - 1 : i \in 1..Len(q) - 1 /\ i + 1 \in 1..k
      BY <1>1
    <3>6. \A i \in 1..k - 1 : Tail(q)[i] \in Frames(B)
      BY <1>1, <2>5, <3>5 DEF Within
    <3> QED BY <3>4, <3>6 DEF Within, Screens
  <2>6. k - 1 \in 0..Len(q)
    BY <1>1, <2>1
  <2> QED BY <2>4, <2>5, <2>6
<1>4. CASE k \in {0, 1}
  <2>1. t.phase # "armed" /\ (Within(s, q, k, B) => t.buttons \subseteq B)
    <3>1. CASE k = 1
      <4>1. m.t = "round_pending"
        BY <1>1, <3>1 DEF Shut
      <4>2. t.phase = "pending" /\ t.buttons = {}
        BY <4>1 DEF Apply, Screens
      <4> QED BY <4>2
    <3>2. CASE k = 0
      <4>1. 1 \in (k + 1)..Len(q)
        BY <1>1, <3>2
      <4>2. s.phase # "armed" /\ m.t # "armed"
        BY <1>1, <3>2, <4>1 DEF Shut
      <4>3. CASE m.t = "tick"
        <5> DEFINE bs == AfterClaims(s.buttons, m.claims, FALSE)
        <5>1. m.claims \in Seq(Claims(D)) /\ s.buttons \in SUBSET D
          BY <1>1, <4>3 DEF Frames, Screens
        <5>2. bs \in SUBSET s.buttons
          <6> HIDE DEF m
          <6> QED BY <5>1, AfterForeignClaims
        <5>3. (s.phase = "armed" /\ s.round = m.round) = FALSE
          BY <4>2
        <5>4. t = [s EXCEPT !.left = CountAfter(s, m), !.buttons = bs]
          BY <4>3, <5>3 DEF Apply
        <5> HIDE DEF bs, t
        <5>5. t.phase = s.phase /\ t.buttons = bs
          BY <5>4 DEF Screens
        <5> QED BY <4>2, <5>2, <5>5 DEF Within
      <4>4. CASE m.t = "hello"
        BY <4>2, <4>4 DEF Apply, Screens, PhaseFrom, Within
      <4>5. CASE m.t \in {"round_pending", "round_result", "game_over"}
        BY <4>2, <4>5 DEF Apply, Screens
      <4>6. m.t \in {"hello", "round_pending", "armed", "tick", "round_result", "game_over"}
        BY <1>1 DEF Frames
      <4> QED BY <4>2, <4>3, <4>4, <4>5, <4>6
    <3> QED BY <1>4, <3>1, <3>2
  <2>2. \A i \in (0 + 1)..Len(Tail(q)) : Tail(q)[i].t # "armed"
    <3>1. ASSUME NEW i \in (0 + 1)..Len(Tail(q)) PROVE Tail(q)[i].t # "armed"
      <4>1. i \in 1..Len(q) - 1 /\ i + 1 \in (k + 1)..Len(q)
        BY <1>1, <1>4
      <4> QED BY <1>1, <4>1 DEF Shut
    <3> QED BY <3>1
  <2>3. 0 \in 0..Len(Tail(q)) /\ 0 \in 0..Len(q)
    BY <1>1
  <2>4. Shut(t, Tail(q), 0)
    <3> HIDE DEF t
    <3> QED BY <2>1, <2>2, <2>3 DEF Shut
  <2>5. Within(s, q, k, B) => Within(t, Tail(q), 0, B)
    <3> HIDE DEF t
    <3> QED BY <2>1 DEF Within
  <2> QED BY <2>3, <2>4, <2>5
<1>5. k > 1 \/ k \in {0, 1}
  BY <1>1
<1> QED BY <1>3, <1>4, <1>5

\* Who is pending or armed without an armed frame before a step that leaves the
\* window where it is, was so after it.
LEMMA StaleGrows ==
  ASSUME ClientsInv, ClientsInv', [Next]_vars, Base' = Base
  PROVE  Stale \subseteq Stale'
<1>1. Wire \subseteq Wire'
  BY WireGrows DEF ClientsInv
<1> QED BY <1>1 DEF Stale

\* Every step keeps the benched shut out.
LEMMA ShutInductive ==
  ASSUME ClientsInv, ClientsInv', BenchedShut, [CNext]_cvars
  PROVE  BenchedShut'
<1> DEFINE Ok(p) == \E k \in 0..SendBuf :
                      /\ Shut(screen[p], outq[p], k)
                      /\ phase = "armed" => Within(screen[p], outq[p], k, Stale)
           Concerned(p) == got[p].pending /\ (phase = "pending" \/ (phase = "armed" /\ p \in benched))
<1>1. /\ \A p \in Viewer : /\ outq[p] \in Seq(Frames(Wire)) /\ Len(outq[p]) \in 0..SendBuf
                           /\ screen[p] \in Screens(Wire)
                           /\ outq'[p] \in Seq(Frames(Wire')) /\ Len(outq'[p]) \in 0..SendBuf
      /\ SendBuf \in Nat
      /\ [Next]_vars
  <2>1. SendBuf \in Nat /\ [Next]_vars
    BY Parameters, ClientsInductive
  <2>2. ASSUME NEW p \in Viewer
        PROVE  /\ outq[p] \in Seq(Frames(Wire)) /\ Len(outq[p]) \in 0..SendBuf
               /\ screen[p] \in Screens(Wire)
    <3>1. outq[p] \in Seq(Frames(Wire)) /\ Len(outq[p]) <= SendBuf /\ screen[p] \in Screens(Wire)
      BY DEF ClientsInv, ClientShapes
    <3> QED BY <2>1, <3>1
  <2>3. ASSUME NEW p \in Viewer
        PROVE  outq'[p] \in Seq(Frames(Wire')) /\ Len(outq'[p]) \in 0..SendBuf
    <3>1. outq'[p] \in Seq(Frames(Wire')) /\ Len(outq'[p]) <= SendBuf
      BY DEF ClientsInv, ClientShapes
    <3> QED BY <2>1, <3>1
  <2> QED BY <2>1, <2>2, <2>3
<1>2. CASE ServerPending
  <2>1. SUFFICES ASSUME NEW p \in Viewer, got'[p].pending
                 PROVE  \E k \in 0..SendBuf : Shut(screen'[p], outq'[p], k)
    BY <1>2 DEF ServerPending, NextRound, NewGame, BenchedShut
  <2>2. p \in Connected /\ Room(p, 1)
    BY <1>2, <2>1 DEF ServerPending, Nothing
  <2>3. outq'[p] = Pushed(p, <<PendingFrame(round')>>)
    BY <1>2, <2>2 DEF ServerPending, FanOut
  <2>4. <<PendingFrame(round')>> \in Seq({PendingFrame(round')} \cup Frames(Wire))
        /\ outq[p] \in Seq({PendingFrame(round')} \cup Frames(Wire))
    BY <1>1
  <2> DEFINE k == Len(outq[p]) + 1
  <2>5. Len(outq'[p]) = k /\ outq'[p][k] = PendingFrame(round')
    <3> DEFINE ms == <<PendingFrame(round')>>
               F == {PendingFrame(round')} \cup Frames(Wire)
    <3>1. Len(ms) = 1 /\ ms[1] = PendingFrame(round') /\ Len(outq[p]) <= SendBuf
      BY <1>1
    <3>2. outq[p] \in Seq(F) /\ ms \in Seq(F)
      BY <2>4
    <3> HIDE DEF ms, F
    <3>3. /\ Room(p, Len(ms)) => Len(Pushed(p, ms)) = Len(outq[p]) + Len(ms)
          /\ \A i \in (Len(outq[p]) + 1)..Len(Pushed(p, ms)) :
               i - Len(outq[p]) \in DOMAIN ms /\ Pushed(p, ms)[i] = ms[i - Len(outq[p])]
      <4>1. \A G : outq[p] \in Seq(G) /\ Len(outq[p]) <= SendBuf /\ ms \in Seq(G) =>
              /\ Room(p, Len(ms)) => Len(Pushed(p, ms)) = Len(outq[p]) + Len(ms)
              /\ \A i \in (Len(outq[p]) + 1)..Len(Pushed(p, ms)) :
                   i - Len(outq[p]) \in DOMAIN ms /\ Pushed(p, ms)[i] = ms[i - Len(outq[p])]
        BY PushedFrames
      <4> QED BY <3>1, <3>2, <4>1
    <3>4. outq'[p] = Pushed(p, ms)
      BY <2>3 DEF ms
    <3>5. Len(Pushed(p, ms)) = k
      BY <2>2, <3>1, <3>3
    <3>6. k \in (Len(outq[p]) + 1)..Len(Pushed(p, ms)) /\ k - Len(outq[p]) = 1
      BY <1>1, <3>5
    <3> QED BY <3>1, <3>3, <3>4, <3>5, <3>6
  <2>6. k \in 0..SendBuf /\ k > 0 /\ k \in 0..Len(outq'[p]) /\ (k + 1)..Len(outq'[p]) = {}
    BY <1>1, <2>5
  <2>7. Shut(screen'[p], outq'[p], k)
    BY <2>5, <2>6 DEF Shut, PendingFrame
  <2> QED BY <2>6, <2>7
<1>3. ASSUME NEW players \in Crowd, NEW out \in SUBSET Viewer, ServerArm(players, out)
      PROVE  BenchedShut'
  <2>1. SUFFICES ASSUME NEW p \in Viewer, got'[p].pending, p \in benched'
                 PROVE  \E k \in 0..SendBuf : /\ Shut(screen'[p], outq'[p], k)
                                              /\ Within(screen'[p], outq'[p], k, Stale')
    BY <1>3 DEF ServerArm, Arm, BenchedShut
  <2>2. /\ got[p].pending /\ phase = "pending" /\ p \in out
        /\ outq'[p] = outq[p] /\ screen'[p] = screen[p]
    BY <1>3, <2>1 DEF ServerArm, Arm, FanOut, BoardStill, ClientsInv, ClientShapes
  <2>3. PICK k \in 0..SendBuf : Shut(screen[p], outq[p], k)
    BY <2>2 DEF BenchedShut
  <2>4. Wire \subseteq Stale'
    <3>1. Wire \subseteq Wire'
      BY <1>1, WireGrows DEF ClientsInv
    <3>2. Base' = minted /\ shown <= minted /\ shown \in Nat /\ minted \in Nat
      <4>1. minted' = minted + X /\ nextSlot' = X /\ shown <= minted
        BY <1>3 DEF ServerArm, Arm, ClientsInv, WaitingIsHonest
      <4> QED BY <4>1, Parameters DEF Base, ClientsInv, BoardInv, TypeOK
    <3>3. \A b \in Wire : b.nonce <= Base'
      BY <3>2 DEF Wire
    <3> QED BY <3>1, <3>3 DEF Stale
  <2>5. screen[p].buttons \subseteq Stale'
    BY <1>1, <2>4 DEF Screens
  <2>6. \A i \in 1..k : outq[p][i] \in Frames(Stale')
    <3>1. outq[p] \in Seq(Frames(Stale'))
      BY <1>1, <2>4, Wider
    <3>2. \A i \in 1..k : i \in 1..Len(outq[p])
      BY <1>1, <2>3 DEF Shut
    <3> QED BY <3>1, <3>2
  <2> QED BY <2>2, <2>3, <2>5, <2>6 DEF Within
<1>4. CASE ServerTick
  <2> DEFINE ms == <<TickFrame(round, ticks'[Len(ticks')])>>
  <2>1. /\ phase' = phase /\ phase = "armed" /\ benched' = benched /\ screen' = screen
        /\ \A p \in Viewer : got'[p].pending = got[p].pending
        /\ \A p \in Viewer : outq'[p] = outq[p] \/ outq'[p] = Pushed(p, ms)
        /\ UNCHANGED <<minted, nextSlot>>
    <3>1. Tick /\ FanOut(Connected, ms) /\ BoardStill /\ UNCHANGED benched
      BY <1>4 DEF ServerTick
    <3>2. \A p \in Viewer : got'[p].pending = got[p].pending
      <4>1. \A p \in Viewer : got[p] \in [pending : BOOLEAN, armed : BOOLEAN,
                                          all : BOOLEAN, last : BOOLEAN]
        BY DEF ClientsInv, ClientShapes
      <4>2. got' = [p \in Viewer |->
                      [got[p] EXCEPT !.all = @ /\ Room(p, 1),
                                     !.last = stage[p] = "greeted" /\ Room(p, 1)]]
        BY <1>4 DEF ServerTick
      <4> HIDE DEF Room
      <4> QED BY <4>1, <4>2
    <3>3. \A p \in Viewer : outq'[p] = outq[p] \/ outq'[p] = Pushed(p, ms)
      <4> HIDE DEF ms
      <4> QED BY <3>1 DEF FanOut
    <3> QED BY <3>1, <3>2, <3>3 DEF Tick, BoardStill
  <2>2. Stale \subseteq Stale'
    <3>1. Base' = Base
      BY <2>1 DEF Base
    <3> QED BY <1>1, <3>1, StaleGrows
  <2>3. SUFFICES ASSUME NEW p \in Viewer, got[p].pending, p \in benched
                 PROVE  \E k \in 0..SendBuf : /\ Shut(screen'[p], outq'[p], k)
                                              /\ Within(screen'[p], outq'[p], k, Stale')
    BY <2>1 DEF BenchedShut
  <2>4. PICK k \in 0..SendBuf : Shut(screen[p], outq[p], k) /\ Within(screen[p], outq[p], k, Stale)
    BY <2>1, <2>3 DEF BenchedShut
  <2> DEFINE F == Frames(Wire) \cup {ms[1]}
  <2>5. /\ outq[p] \in Seq(F) /\ outq'[p] \in Seq(F) /\ Len(outq[p]) <= Len(outq'[p])
        /\ \A i \in 1..Len(outq[p]) : outq'[p][i] = outq[p][i]
        /\ \A i \in (Len(outq[p]) + 1)..Len(outq'[p]) : outq'[p][i].t # "armed"
    <3>1. ms \in Seq(F) /\ outq[p] \in Seq(F) /\ Len(outq[p]) <= SendBuf /\ ms[1].t = "tick"
          /\ DOMAIN ms = {1} /\ Len(ms) = 1
      BY <1>1 DEF TickFrame
    <3>2. CASE outq'[p] = Pushed(p, ms)
      <4> HIDE DEF ms, F
      <4>1. /\ Pushed(p, ms) \in Seq(F) /\ Len(outq[p]) <= Len(Pushed(p, ms))
            /\ \A i \in 1..Len(outq[p]) : Pushed(p, ms)[i] = outq[p][i]
            /\ \A i \in (Len(outq[p]) + 1)..Len(Pushed(p, ms)) :
                 i - Len(outq[p]) \in DOMAIN ms /\ Pushed(p, ms)[i] = ms[i - Len(outq[p])]
        <5>1. \A G : outq[p] \in Seq(G) /\ Len(outq[p]) <= SendBuf /\ ms \in Seq(G) =>
                /\ Pushed(p, ms) \in Seq(G) /\ Len(outq[p]) <= Len(Pushed(p, ms))
                /\ \A i \in 1..Len(outq[p]) : Pushed(p, ms)[i] = outq[p][i]
                /\ \A i \in (Len(outq[p]) + 1)..Len(Pushed(p, ms)) :
                     i - Len(outq[p]) \in DOMAIN ms /\ Pushed(p, ms)[i] = ms[i - Len(outq[p])]
          BY PushedFrames
        <5> QED BY <3>1, <5>1
      <4>2. \A i \in DOMAIN ms : ms[i].t # "armed"
        BY <3>1
      <4> QED BY <3>1, <3>2, <4>1, <4>2
    <3>3. CASE outq'[p] = outq[p]
      BY <1>1, <3>1, <3>3
    <3> QED BY <2>1, <3>2, <3>3
  <2>6. Shut(screen[p], outq'[p], k) /\ Within(screen[p], outq'[p], k, Stale)
    <3> HIDE DEF F
    <3> QED BY <2>4, <2>5, ShutBehind
  <2>7. Within(screen[p], outq'[p], k, Stale')
    <3>1. Frames(Stale) \subseteq Frames(Stale')
      BY <2>2, Wider
    <3> QED BY <2>2, <2>6, <3>1 DEF Within
  <2> QED BY <2>1, <2>6, <2>7
<1>5. CASE ServerClose
  BY <1>5 DEF ServerClose, Nothing, BenchedShut
<1>6. ASSUME UNCHANGED <<phase, screen, outq, benched, got>>, Base' = Base
      PROVE  BenchedShut'
  <2>1. Stale \subseteq Stale'
    BY <1>1, <1>6, StaleGrows
  <2>2. Frames(Stale) \subseteq Frames(Stale')
    BY <2>1, Wider
  <2>3. SUFFICES ASSUME NEW p \in Viewer, Concerned(p)
                 PROVE  \E k \in 0..SendBuf :
                          /\ Shut(screen[p], outq[p], k)
                          /\ phase = "armed" => Within(screen[p], outq[p], k, Stale')
    BY <1>6 DEF BenchedShut
  <2>4. Ok(p)
    BY <2>3 DEF BenchedShut
  <2> QED BY <2>1, <2>2, <2>4 DEF Within
<1>7. CASE ServerClicks \/ RivalClick \/ UNCHANGED cvars \/ \E p \in Viewer : ClientClick(p)
  <2>1. UNCHANGED clientVars /\ phase' = phase
    BY <1>7 DEF ServerClicks, RivalClick, ClientClick, cvars, vars, Offer, Discard, Submit
  <2>2. ~\E players \in Crowd : Arm(players)
    BY <2>1 DEF Arm
  <2>3. Base' = Base
    BY <1>1, <2>2, BoardMoves DEF ClientsInv
  <2> QED BY <1>6, <2>1, <2>3 DEF clientVars
<1>8. ASSUME NEW v \in Viewer,
             Register(v) \/ ReadSnapshot(v) \/ SendHello(v) \/ Disconnect(v) \/ Deliver(v)
      PROVE  BenchedShut'
  <2>1. UNCHANGED vars /\ benched' = benched
    BY <1>8 DEF Register, ReadSnapshot, SendHello, Disconnect, Deliver
  <2>2. Stale' = Stale /\ Wire' = Wire /\ phase' = phase
    <3>1. Wire' = Wire /\ Base' = Base /\ phase' = phase
      BY <2>1, WireStays DEF vars, boardVars, Base
    <3> QED BY <3>1 DEF Stale
  <2>3. SUFFICES ASSUME NEW p \in Viewer, got'[p].pending,
                        phase = "pending" \/ (phase = "armed" /\ p \in benched)
                 PROVE  \E k \in 0..SendBuf :
                          /\ Shut(screen'[p], outq'[p], k)
                          /\ phase = "armed" => Within(screen'[p], outq'[p], k, Stale)
    BY <2>1, <2>2 DEF BenchedShut
  <2>4. got[p].pending
    BY <1>8, <2>3 DEF Register, ReadSnapshot, SendHello, Disconnect, Deliver,
                     ClientsInv, ClientShapes, Nothing
  <2>5. PICK k \in 0..SendBuf :
          /\ Shut(screen[p], outq[p], k)
          /\ phase = "armed" => Within(screen[p], outq[p], k, Stale)
    BY <2>3, <2>4 DEF BenchedShut
  <2>6. ASSUME outq'[p] = outq[p],
               screen'[p].phase = screen[p].phase \/ screen'[p].phase # "armed",
               screen'[p].buttons \subseteq screen[p].buttons
        PROVE  /\ Shut(screen'[p], outq'[p], k)
               /\ phase = "armed" => Within(screen'[p], outq'[p], k, Stale)
    BY <2>5, <2>6 DEF Shut, Within
  <2>7. CASE Register(v)
    <3>1. /\ outq'[p] = outq[p] /\ screen'[p].buttons = screen[p].buttons
          /\ screen'[p].phase = screen[p].phase \/ screen'[p].phase = "connecting"
      BY <2>7 DEF Register, ClientsInv, ClientShapes, Screens
    <3> QED BY <2>6, <3>1
  <2>8. CASE ReadSnapshot(v)
    BY <2>6, <2>8 DEF ReadSnapshot
  <2>9. CASE SendHello(v)
    <3> DEFINE ms == <<HelloFrame(snap[v])>>
               F == Frames(Wire) \cup {ms[1]}
    <3>1. CASE p # v
      BY <2>6, <2>9, <3>1 DEF SendHello, ClientsInv, ClientShapes
    <3>2. CASE p = v
      <4>1. ms \in Seq(F) /\ outq[p] \in Seq(F) /\ Len(outq[p]) <= SendBuf
            /\ \A i \in DOMAIN ms : ms[i].t # "armed"
        BY <1>1 DEF HelloFrame
      <4>2. outq'[p] = Pushed(p, ms) /\ screen'[p] = screen[p]
        BY <2>9, <3>2 DEF SendHello, ClientsInv, ClientShapes
      <4> HIDE DEF ms, F
      <4>3. /\ Pushed(p, ms) \in Seq(F) /\ Len(outq[p]) <= Len(Pushed(p, ms))
            /\ \A i \in 1..Len(outq[p]) : Pushed(p, ms)[i] = outq[p][i]
            /\ \A i \in (Len(outq[p]) + 1)..Len(Pushed(p, ms)) :
                 i - Len(outq[p]) \in DOMAIN ms /\ Pushed(p, ms)[i] = ms[i - Len(outq[p])]
        <5>1. \A G : outq[p] \in Seq(G) /\ Len(outq[p]) <= SendBuf /\ ms \in Seq(G) =>
                /\ Pushed(p, ms) \in Seq(G) /\ Len(outq[p]) <= Len(Pushed(p, ms))
                /\ \A i \in 1..Len(outq[p]) : Pushed(p, ms)[i] = outq[p][i]
                /\ \A i \in (Len(outq[p]) + 1)..Len(Pushed(p, ms)) :
                     i - Len(outq[p]) \in DOMAIN ms /\ Pushed(p, ms)[i] = ms[i - Len(outq[p])]
          BY PushedFrames
        <5> QED BY <4>1, <5>1
      <4>4. \A i \in (Len(outq[p]) + 1)..Len(Pushed(p, ms)) : Pushed(p, ms)[i].t # "armed"
        BY <4>1, <4>3
      <4>5. /\ Shut(screen[p], Pushed(p, ms), k)
            /\ Within(screen[p], outq[p], k, Stale) => Within(screen[p], Pushed(p, ms), k, Stale)
        BY <2>5, <4>1, <4>3, <4>4, ShutBehind
      <4> QED BY <2>5, <4>2, <4>5
    <3> QED BY <3>1, <3>2
  <2>10. CASE Disconnect(v)
    <3>1. p # v
      BY <2>3, <2>10 DEF Disconnect, Nothing, ClientsInv, ClientShapes
    <3> QED BY <2>6, <2>10, <3>1 DEF Disconnect, ClientsInv, ClientShapes
  <2>11. CASE Deliver(v)
    <3>1. CASE p # v
      BY <2>6, <2>11, <3>1 DEF Deliver, ClientsInv, ClientShapes
    <3>2. CASE p = v
      <4>1. outq[p] # <<>> /\ outq'[p] = Tail(outq[p])
            /\ screen'[p] = Apply(screen[p], Head(outq[p]))
        BY <2>11, <3>2 DEF Deliver, ClientsInv, ClientShapes
      <4>2. Stale \subseteq Wire
        BY DEF Stale
      <4>3. PICK j \in 0..Len(outq[p]) :
              /\ Shut(Apply(screen[p], Head(outq[p])), Tail(outq[p]), j)
              /\ Within(screen[p], outq[p], k, Stale) =>
                   Within(Apply(screen[p], Head(outq[p])), Tail(outq[p]), j, Stale)
        BY <1>1, <2>5, <4>1, <4>2, ShutAhead
      <4>4. j \in 0..SendBuf
        BY <1>1
      <4> QED BY <2>5, <4>1, <4>3, <4>4
    <3> QED BY <3>1, <3>2
  <2> QED BY <1>8, <2>6, <2>7, <2>8, <2>9, <2>10, <2>11
<1> QED BY <1>2, <1>3, <1>4, <1>5, <1>7, <1>8 DEF CNext

\* The benched see no button the server would accept (Hub.Armed, Hub.Tick,
\* ClickController.OnData): ticks do not hand out what the armed frame withheld.
THEOREM BenchedNeverSeeALiveButton == CSpec => []BenchedSeesNoLiveButton
<1>1. CInit => BenchedShut
  BY DEF CInit, BenchedShut, Nothing
<1>2. ClientsInv /\ BenchedShut /\ [CNext]_cvars => BenchedShut'
  BY ClientsInductive, ShutInductive
<1>3. ASSUME ClientsInv, BenchedShut PROVE BenchedSeesNoLiveButton
  <2>1. SUFFICES ASSUME NEW p \in benched, phase = "armed", got[p].pending,
                        NEW b \in screen[p].buttons, b.nonce \in DOMAIN byNonce
                 PROVE  FALSE
    BY DEF BenchedSeesNoLiveButton
  <2>2. p \in Viewer
    BY <1>3 DEF ClientsInv, ClientShapes
  <2>3. screen[p].buttons \subseteq Stale
    BY <1>3, <2>1, <2>2 DEF BenchedShut, Within
  <2>4. b.nonce > Base /\ b.nonce <= Base /\ b.nonce \in Int /\ Base \in Int
    BY <1>3, <2>1, <2>3, LiveIsHonest, Shapes DEF ClientsInv, BoardInv, Base, Stale, Wire
  <2> QED BY <2>4
<1> QED BY <1>1, <1>2, <1>3, ClientInvariant, PTL DEF CSpec

-----------------------------------------------------------------------------
(***************************************************************************)
(* The whole client.  A client that lost no frame of the window is on      *)
(* course for the board as published: once it has worked through its queue *)
(* it shows what the ticks so far, read from the armed frame on, give      *)
(* (Replayed).  A client that has the newest tick in its queue, or has     *)
(* applied it, is on course for that tick's count.                         *)
(***************************************************************************)

\* f lists the screens on the way through the frames ms.
Passes(f, s, ms, B) ==
  /\ f[0] = s /\ \A i \in 1..Len(ms) : f[i] = Apply(f[i - 1], ms[i])
  /\ \A i \in 0..Len(ms) : f[i] \in Screens(B)
  /\ Caught(s, ms) = f[Len(ms)]

\* The recursion in Caught has a solution, which goes frame by frame.
LEMMA CaughtSteps ==
  ASSUME NEW B, NEW s \in Screens(B), NEW ms \in Seq(Frames(B))
  PROVE  \E f : Passes(f, s, ms, B)
<1> DEFINE K == Len(ms)
           Z == Screens(B)
           G == [x \in (1..K) \X Z |-> Apply(x[2], ms[x[1]])]
           F(f) == [i \in 0..K |-> IF i = 0 THEN s ELSE Apply(f[i - 1], ms[i])]
           h == CHOOSE f : f = F(f)
<1>1. K \in Nat /\ s \in Z /\ \A i \in 1..K : ms[i] \in Frames(B)
  OBVIOUS
<1> HIDE DEF K
<1>2. ASSUME NEW i \in 1..K, NEW z \in Z PROVE Apply(z, ms[i]) \in Z
  BY <1>1, ApplyTyped
<1> HIDE DEF Z
<1>3. G \in [(1..K) \X Z -> Z] /\ \A i \in 1..K, z \in Z : G[<<i, z>>] = Apply(z, ms[i])
  BY <1>2
<1> HIDE DEF G
<1>4. PICK f : Follows(f, Z, s, K, G)
  BY <1>1, <1>3, StepwiseExists
<1>5. f = F(f)
  <2>1. ASSUME NEW i \in 1..K PROVE f[i] = Apply(f[i - 1], ms[i])
    <3>1. i - 1 \in 0..K
      BY <1>1
    <3>2. f[i - 1] \in Z
      BY <1>4, <3>1 DEF Follows
    <3> QED BY <1>3, <1>4, <3>2 DEF Follows
  <2>2. \A i \in 0..K : i # 0 => i \in 1..K
    BY <1>1
  <2> QED BY <1>4, <2>1, <2>2 DEF Follows
<1>6. h = F(h)
  <2> HIDE DEF F
  <2> QED BY <1>5
<1> HIDE DEF h
<1>7. h[0] = s /\ \A i \in 1..K : h[i] = Apply(h[i - 1], ms[i])
  BY <1>1, <1>6
<1>8. Caught(s, ms) = h[K]
  BY DEF Caught, h, K
<1> DEFINE Good == {i \in 0..K : h[i] \in Z}
<1>9. 0..K \subseteq Good
  <2>1. 0 \in Good
    BY <1>1, <1>7
  <2>2. ASSUME NEW i \in 1..K, i - 1 \in Good PROVE i \in Good
    <3>1. i \in 0..K /\ h[i - 1] \in Z
      BY <1>1, <2>2
    <3> QED BY <1>2, <1>7, <3>1
  <2> HIDE DEF Good
  <2> QED BY <1>1, <2>1, <2>2, UpTo
<1> QED BY <1>7, <1>8, <1>9 DEF Passes, K, Z

\* With nothing queued the client is where it is.
LEMMA CaughtNothing ==
  ASSUME NEW B, NEW s \in Screens(B)
  PROVE  Caught(s, <<>>) = s
<1>1. <<>> \in Seq(Frames(B)) /\ Len(<<>>) = 0
  OBVIOUS
<1>2. PICK f : Passes(f, s, <<>>, B)
  BY <1>1, CaughtSteps
<1> QED BY <1>1, <1>2 DEF Passes

\* The last frame of the queue is applied last.
LEMMA CaughtLast ==
  ASSUME NEW B, NEW s \in Screens(B), NEW ms \in Seq(Frames(B)), ms # <<>>
  PROVE  \E z \in Screens(B) : Caught(s, ms) = Apply(z, ms[Len(ms)])
<1>1. Len(ms) \in Nat \ {0}
  BY EmptySeq
<1>2. PICK f : Passes(f, s, ms, B)
  BY CaughtSteps
<1>3. Len(ms) \in 1..Len(ms) /\ Len(ms) - 1 \in 0..Len(ms)
  BY <1>1
<1>4. f[Len(ms) - 1] \in Screens(B) /\ Caught(s, ms) = Apply(f[Len(ms) - 1], ms[Len(ms)])
  BY <1>2, <1>3 DEF Passes
<1> QED BY <1>4

\* A frame more in the queue is applied after the others.
LEMMA CaughtAppend ==
  ASSUME NEW B, NEW s \in Screens(B), NEW ms \in Seq(Frames(B)), NEW m \in Frames(B)
  PROVE  /\ Caught(s, ms) \in Screens(B)
         /\ Caught(s, Append(ms, m)) = Apply(Caught(s, ms), m)
<1> DEFINE K == Len(ms)
           qs == Append(ms, m)
<1>1. /\ K \in Nat /\ Len(qs) = K + 1 /\ qs[K + 1] = m /\ qs \in Seq(Frames(B))
      /\ \A i \in 1..K : qs[i] = ms[i]
  BY AppendProperties
<1>2. PICK f : Passes(f, s, ms, B)
  BY CaughtSteps
<1> HIDE DEF qs
<1>3. PICK g : Passes(g, s, qs, B)
  BY <1>1, CaughtSteps
<1> DEFINE Same == {i \in 0..K : f[i] = g[i]}
<1>4. 0..K \subseteq Same
  <2>1. 0 \in Same
    BY <1>1, <1>2, <1>3 DEF Passes
  <2>2. ASSUME NEW i \in 1..K, i - 1 \in Same PROVE i \in Same
    <3>1. i \in 1..Len(qs) /\ i \in 0..K /\ f[i - 1] = g[i - 1] /\ qs[i] = ms[i]
      BY <1>1, <2>2
    <3> QED BY <1>2, <1>3, <3>1 DEF Passes
  <2> HIDE DEF Same, K
  <2> QED BY <1>1, <2>1, <2>2, UpTo
<1>5. f[K] = g[K] /\ K \in 0..K /\ K + 1 \in 1..Len(qs) /\ (K + 1) - 1 = K
  BY <1>1, <1>4
<1>6. g[K + 1] = Apply(g[K], m)
  BY <1>1, <1>3, <1>5 DEF Passes
<1> QED BY <1>1, <1>2, <1>3, <1>5, <1>6 DEF Passes, qs

\* Taking the queue's first frame does not change where the client will be.
LEMMA CaughtAhead ==
  ASSUME NEW B, NEW s \in Screens(B), NEW ms \in Seq(Frames(B)), ms # <<>>
  PROVE  Caught(Apply(s, Head(ms)), Tail(ms)) = Caught(s, ms)
<1> DEFINE K == Len(Tail(ms))
           z == Apply(s, Head(ms))
           ts == Tail(ms)
<1>1. /\ K \in Nat /\ Len(ms) = K + 1 /\ ts \in Seq(Frames(B)) /\ Len(ts) = K
      /\ Head(ms) = ms[1] /\ ms[1] \in Frames(B)
      /\ \A i \in 1..K : ts[i] = ms[i + 1]
  BY EmptySeq, HeadTailProperties
<1>2. z \in Screens(B)
  BY <1>1, ApplyTyped
<1>3. PICK f : Passes(f, s, ms, B)
  BY CaughtSteps
<1> HIDE DEF z, ts, K
<1>4. PICK g : Passes(g, z, ts, B)
  BY <1>1, <1>2, CaughtSteps
<1> DEFINE Same == {i \in 0..K : g[i] = f[i + 1]}
<1>5. 0..K \subseteq Same
  <2>1. 0 \in Same
    <3>1. 1 \in 1..Len(ms) /\ 0 \in 0..K
      BY <1>1
    <3>2. f[1] = Apply(s, ms[1]) /\ z = Apply(s, ms[1])
      BY <1>1, <1>3, <3>1 DEF Passes, z
    <3> QED BY <1>4, <3>1, <3>2 DEF Passes
  <2>2. ASSUME NEW i \in 1..K, i - 1 \in Same PROVE i \in Same
    <3>1. /\ i + 1 \in 1..Len(ms) /\ i \in 0..K /\ (i - 1) + 1 = i /\ (i + 1) - 1 = i
          /\ i \in 1..Len(ts)
      BY <1>1
    <3>2. g[i - 1] = f[i] /\ ts[i] = ms[i + 1]
      BY <1>1, <2>2, <3>1
    <3>3. f[i + 1] = Apply(f[i], ms[i + 1]) /\ g[i] = Apply(g[i - 1], ts[i])
      BY <1>3, <1>4, <3>1 DEF Passes
    <3> QED BY <3>1, <3>2, <3>3
  <2> HIDE DEF Same
  <2> QED BY <1>1, <2>1, <2>2, UpTo
<1>6. g[K] = f[K + 1]
  BY <1>1, <1>5
<1> QED BY <1>1, <1>3, <1>4, <1>6 DEF Passes, z, ts

\* One frame is appended, or dropped.
LEMMA PushedOne ==
  ASSUME NEW F, NEW p \in Viewer, outq[p] \in Seq(F), Len(outq[p]) <= SendBuf, NEW m \in F
  PROVE  Pushed(p, <<m>>) = IF Room(p, 1) THEN Append(outq[p], m) ELSE outq[p]
<1>1. Len(<<m>>) = 1 /\ <<m>> \in Seq(F) /\ Len(outq[p]) \in Nat /\ SendBuf \in Nat
  BY Parameters
<1>2. CASE Room(p, 1)
  <2>1. Pushed(p, <<m>>) = outq[p] \o SubSeq(<<m>>, 1, 1)
    BY <1>1, <1>2 DEF Pushed
  <2>2. SubSeq(<<m>>, 1, 1) = <<m>>
    <3> DEFINE one == <<m>>
    <3>1. one \in Seq(F) /\ Len(one) = 1 /\ \A i \in 1..1 : one[i] \in F
      OBVIOUS
    <3> HIDE DEF one
    <3>2. /\ SubSeq(one, 1, 1) \in Seq(F) /\ Len(SubSeq(one, 1, 1)) = 1
          /\ \A i \in 1..1 : SubSeq(one, 1, 1)[i] = one[i]
      BY <3>1, SubSeqProperties
    <3>3. SubSeq(one, 1, 1) = one
      BY <3>1, <3>2, SeqEqual
    <3> QED BY <3>3 DEF one
  <2>3. Append(outq[p], m) = outq[p] \o <<m>>
    BY AppendIsConcat
  <2> QED BY <1>2, <2>1, <2>2, <2>3
<1>3. CASE ~Room(p, 1)
  <2>1. SendBuf - Len(outq[p]) = 0
    BY <1>1, <1>3 DEF Room
  <2>2. Pushed(p, <<m>>) = outq[p] \o SubSeq(<<m>>, 1, 0)
    BY <1>1, <1>3, <2>1 DEF Pushed
  <2>3. SubSeq(<<m>>, 1, 0) = <<>>
    BY SubSeqEmpty
  <2>4. outq[p] \o <<>> = outq[p]
    BY ConcatEmptySeq
  <2> QED BY <1>3, <2>2, <2>3, <2>4
<1> QED BY <1>2, <1>3

\* The published board: Published, with its state as arguments.
PublishedNow == Replayed(FirstButtons(Base), Flushed(ticks)[Len(ticks)])

\* p shows what is published once it has caught up, if it then believes the
\* window to be open.
OnCourse(p) ==
  LET s == Caught(screen[p], outq[p])
  IN  s.phase = "armed" /\ s.round = round => s.buttons = PublishedNow

\* The newest tick is the last frame p has been sent.
NewestTick == TickFrame(round, ticks[Len(ticks)])
HasNewest(p) ==
  \/ /\ outq[p] = <<>>
     /\ screen[p].phase = "armed" /\ screen[p].round = round =>
          screen[p].left = NewestTick.remaining
  \/ outq[p] # <<>> /\ outq[p][Len(outq[p])] = NewestTick

CourseInv ==
  \A p \in Viewer :
    /\ got[p].all => stage[p] # "off" /\ phase = "armed" /\ OnCourse(p)
    /\ got[p].last => stage[p] = "greeted" /\ phase = "armed" /\ HasNewest(p)

\* What the step of a tick does to a client: the frame appended to its queue
\* brings the board up to date, and with it the count.
LEMMA TickKeepsCourse ==
  ASSUME ClientsInv, ClientsInv', ReplayInv, CourseInv, ServerTick, NEW p \in Viewer
  PROVE  /\ got'[p].all => stage'[p] # "off" /\ phase' = "armed" /\ OnCourse(p)'
         /\ got'[p].last => stage'[p] = "greeted" /\ phase' = "armed" /\ HasNewest(p)'
<1> DEFINE fr == [remaining |-> n - Len(scored), claims |-> pending]
           m == TickFrame(round, fr)
<1>1. /\ phase = "armed" /\ phase' = "armed" /\ round' = round /\ stage' = stage
      /\ screen' = screen /\ ticks' = Append(ticks, fr) /\ UNCHANGED <<minted, nextSlot>>
  BY DEF ServerTick, Tick, EmitTick, BoardStill
<1>2. ticks \in Seq(Frame) /\ pending \in Seq(Claim) /\ fr \in Frame /\ fr.claims = pending
  <2>1. TypeOK
    BY DEF ReplayInv, BoardInv
  <2> QED BY <2>1, Shapes DEF TypeOK, Frame
<1> HIDE DEF fr
<1>3. Len(ticks') = Len(ticks) + 1 /\ ticks'[Len(ticks')] = fr /\ Len(ticks) \in Nat
  BY <1>1, <1>2, AppendProperties
<1>4. SUFFICES ASSUME Room(p, 1), stage[p] # "off", got'[p].all => got[p].all,
                      got'[p].last => stage[p] = "greeted"
               PROVE  (got'[p].all => OnCourse(p)') /\ HasNewest(p)'
  <2>1. /\ got'[p].all => got[p].all /\ Room(p, 1)
        /\ got'[p].last => stage[p] = "greeted" /\ Room(p, 1)
    BY DEF ServerTick, ClientsInv, ClientShapes
  <2>2. got[p].all => stage[p] # "off"
    BY DEF CourseInv
  <2> QED BY <1>1, <2>1, <2>2
<1>5. /\ outq[p] \in Seq(Frames(Wire')) /\ Len(outq[p]) <= SendBuf
      /\ screen[p] \in Screens(Wire') /\ screen[p] \in Screens(Wire)
      /\ outq[p] \in Seq(Frames(Wire))
  <2>1. [Next]_vars
    BY DEF ServerTick, Next
  <2>2. Wire \subseteq Wire'
    BY <2>1, WireGrows DEF ClientsInv
  <2>3. outq[p] \in Seq(Frames(Wire)) /\ Len(outq[p]) <= SendBuf /\ screen[p] \in Screens(Wire)
    BY DEF ClientsInv, ClientShapes
  <2> QED BY <2>2, <2>3, Wider
<1>6. m \in Frames(Wire')
  <2>1. EmitTick /\ UNCHANGED <<minted, nextSlot>>
    BY <1>1 DEF ServerTick, Tick
  <2>2. <<TickFrame(round, ticks'[Len(ticks')])>> \in Seq(Frames(Wire'))
    BY <2>1, FramesSent DEF ClientsInv
  <2>3. \A F : <<m>> \in Seq(F) => m \in F
    <3> HIDE DEF m
    <3>1. ASSUME NEW F, <<m>> \in Seq(F) PROVE m \in F
      <4>1. 1 \in 1..Len(<<m>>) /\ <<m>>[1] = m
        OBVIOUS
      <4>2. <<m>>[1] \in F
        BY <3>1, <4>1, ElementOfSeq
      <4> QED BY <4>1, <4>2
    <3> QED BY <3>1
  <2> QED BY <1>3, <2>2, <2>3
<1>7. outq'[p] = Append(outq[p], m)
  <2>1. p \in Connected /\ <<TickFrame(round, ticks'[Len(ticks')])>> = <<m>>
    BY <1>3, <1>4 DEF Connected
  <2>2. outq'[p] = Pushed(p, <<m>>)
    BY <2>1 DEF ServerTick, FanOut
  <2> HIDE DEF m
  <2> QED BY <1>4, <1>5, <1>6, <2>2, PushedOne
<1>8. NewestTick' = m
  BY <1>1, <1>3 DEF NewestTick
<1>9. HasNewest(p)'
  <2> HIDE DEF m
  <2>1. outq'[p] # <<>> /\ outq'[p][Len(outq'[p])] = m
    BY <1>5, <1>6, <1>7, AppendProperties
  <2> QED BY <1>8, <2>1 DEF HasNewest
<1>10. ASSUME got'[p].all PROVE OnCourse(p)'
  <2> DEFINE c == Caught(screen[p], outq[p])
             d == Apply(c, m)
  <2>1. c \in Screens(Wire') /\ Caught(screen'[p], outq'[p]) = d
    <3> HIDE DEF m
    <3> QED BY <1>1, <1>5, <1>6, <1>7, CaughtAppend
  <2> HIDE DEF c
  <2>2. d.phase = c.phase /\ d.round = c.round
    BY <2>1 DEF Apply, TickFrame, Screens
  <2>3. ASSUME c.phase = "armed", c.round = round PROVE d.buttons = PublishedNow'
    <3>1. c.buttons = PublishedNow
      BY <1>4, <1>10, <2>3 DEF c, CourseInv, OnCourse
    <3>2. d.buttons = AfterClaims(c.buttons, pending, TRUE)
      <4>1. m.t = "tick" /\ m.round = round /\ m.claims = pending
        BY <1>2 DEF TickFrame
      <4>2. (c.phase = "armed" /\ c.round = m.round) = TRUE
        BY <2>3, <4>1
      <4>3. d = [c EXCEPT !.left = CountAfter(c, m),
                          !.buttons = AfterClaims(c.buttons, pending, TRUE)]
        <5> HIDE DEF m
        <5> QED BY <4>1, <4>2 DEF Apply
      <4> HIDE DEF d
      <4> QED BY <2>1, <4>3 DEF Screens
    <3>3. Flushed(ticks)[Len(ticks)] \in Seq(Claim)
      <4>1. Len(ticks) \in 0..Len(ticks)
        BY <1>3
      <4> QED BY <4>1 DEF ReplayInv, LogIsFlushed
    <3>4. Flushed(ticks')[Len(ticks')] = Flushed(ticks)[Len(ticks)] \o pending
      BY <1>1, <1>2, <1>3, FlushedAppend
    <3>5. AfterClaims(PublishedNow, pending, TRUE)
            = Replayed(FirstButtons(Base), Flushed(ticks)[Len(ticks)] \o pending)
      BY <1>2, <3>3, ClientReplays DEF PublishedNow
    <3>6. Base' = Base
      BY <1>1 DEF Base
    <3> HIDE DEF d
    <3> QED BY <3>1, <3>2, <3>4, <3>5, <3>6 DEF PublishedNow
  <2> HIDE DEF d
  <2> QED BY <1>1, <2>1, <2>2, <2>3 DEF OnCourse
<1> QED BY <1>9, <1>10

\* Who gets the armed frame is on course for the buttons it carries.
LEMMA ArmStartsCourse ==
  ASSUME ClientsInv, ClientsInv', CourseInv, NEW players \in Crowd,
         NEW out \in SUBSET Viewer, ServerArm(players, out), NEW p \in Viewer
  PROVE  /\ got'[p].all => stage'[p] # "off" /\ phase' = "armed" /\ OnCourse(p)'
         /\ ~got'[p].last
<1> DEFINE m == ArmedFrame(round, FirstButtons(minted), n')
<1>1. /\ phase = "pending" /\ phase' = "armed" /\ round' = round /\ stage' = stage
      /\ screen' = screen /\ ticks' = <<>> /\ minted' = minted + X /\ nextSlot' = X
  BY DEF ServerArm, Arm, BoardStill
<1>2. /\ got'[p].all => p \in Connected \ out /\ Room(p, 1)
      /\ got'[p].last = got[p].last
  BY DEF ServerArm, ClientsInv, ClientShapes
<1>3. ~got'[p].last
  BY <1>1, <1>2 DEF CourseInv
<1>4. SUFFICES ASSUME p \in Connected \ out, Room(p, 1)
               PROVE  stage'[p] # "off" /\ phase' = "armed" /\ OnCourse(p)'
  BY <1>2, <1>3
<1>5. /\ outq[p] \in Seq(Frames(Wire')) /\ Len(outq[p]) <= SendBuf
      /\ screen[p] \in Screens(Wire')
  <2>1. [Next]_vars
    BY DEF ServerArm, Next
  <2>2. Wire \subseteq Wire'
    BY <2>1, WireGrows DEF ClientsInv
  <2>3. outq[p] \in Seq(Frames(Wire)) /\ Len(outq[p]) <= SendBuf /\ screen[p] \in Screens(Wire)
    BY DEF ClientsInv, ClientShapes
  <2> QED BY <2>2, <2>3, Wider
<1>6. m \in Frames(Wire')
  <2>1. <<m>> \in Seq(Frames(Wire'))
    BY FramesSent DEF ServerArm, ClientsInv
  <2> HIDE DEF m
  <2>2. 1 \in 1..Len(<<m>>) /\ <<m>>[1] = m
    OBVIOUS
  <2>3. <<m>>[1] \in Frames(Wire')
    BY <2>1, <2>2, ElementOfSeq
  <2> QED BY <2>2, <2>3
<1>7. outq'[p] = Append(outq[p], m)
  <2>1. outq'[p] = Pushed(p, <<m>>)
    BY <1>4 DEF ServerArm, FanOut
  <2> HIDE DEF m
  <2> QED BY <1>4, <1>5, <1>6, <2>1, PushedOne
<1>8. PublishedNow' = FirstButtons(minted)
  <2>1. Flushed(<<>>)[Len(<<>>)] = <<>>
    BY FlushedSteps
  <2>2. Base' = minted
    BY <1>1, Shapes, Parameters DEF Base, ClientsInv, BoardInv
  <2> QED BY <1>1, <2>1, <2>2, ReplayEmpty DEF PublishedNow
<1>9. Caught(screen'[p], outq'[p]).buttons = FirstButtons(minted)
  <2>1. Caught(screen'[p], outq'[p]) = Apply(Caught(screen[p], outq[p]), m)
    <3> HIDE DEF m
    <3> QED BY <1>1, <1>5, <1>6, <1>7, CaughtAppend
  <2> QED BY <2>1 DEF Apply, ArmedFrame
<1>10. OnCourse(p)'
  BY <1>8, <1>9 DEF OnCourse
<1> QED BY <1>1, <1>4, <1>10 DEF Connected

\* The steps of one connection.
LEMMA ConnectionKeepsCourse ==
  ASSUME ClientsInv, CourseInv, NEW v \in Viewer,
         Register(v) \/ ReadSnapshot(v) \/ SendHello(v) \/ Disconnect(v) \/ Deliver(v)
  PROVE  CourseInv'
<1>1. /\ UNCHANGED vars /\ phase' = phase /\ round' = round
      /\ PublishedNow' = PublishedNow /\ NewestTick' = NewestTick
  BY DEF Register, ReadSnapshot, SendHello, Disconnect, Deliver, vars, boardVars,
         PublishedNow, NewestTick, Base
<1>2. SUFFICES ASSUME NEW p \in Viewer
               PROVE  /\ got'[p].all => stage'[p] # "off" /\ phase' = "armed" /\ OnCourse(p)'
                      /\ got'[p].last => stage'[p] = "greeted" /\ phase' = "armed" /\ HasNewest(p)'
  BY DEF CourseInv
<1>3. /\ got[p].all => stage[p] # "off" /\ phase = "armed" /\ OnCourse(p)
      /\ got[p].last => stage[p] = "greeted" /\ phase = "armed" /\ HasNewest(p)
  BY DEF CourseInv
<1>4. /\ outq[p] \in Seq(Frames(Wire)) /\ Len(outq[p]) <= SendBuf
      /\ screen[p] \in Screens(Wire)
  BY DEF ClientsInv, ClientShapes
<1>5. CASE outq'[p] = outq[p] /\ screen'[p] = screen[p] /\ got'[p] = got[p] /\ stage'[p] = stage[p]
  BY <1>1, <1>3, <1>5 DEF OnCourse, HasNewest
<1>6. CASE p # v
  BY <1>5, <1>6 DEF Register, ReadSnapshot, SendHello, Disconnect, Deliver,
                    ClientsInv, ClientShapes
<1>7. CASE p = v /\ (Register(v) \/ Disconnect(v))
  <2>1. ~got'[p].all /\ ~got'[p].last
    BY <1>3, <1>7 DEF Register, Disconnect, Nothing, ClientsInv, ClientShapes
  <2> QED BY <2>1
<1>8. CASE p = v /\ ReadSnapshot(v)
  <2>1. /\ stage[p] = "registered" /\ stage'[p] = "snapped"
        /\ outq'[p] = outq[p] /\ screen'[p] = screen[p] /\ got'[p] = got[p]
    BY <1>8 DEF ReadSnapshot, ClientsInv, ClientShapes
  <2> QED BY <1>1, <1>3, <2>1 DEF OnCourse
<1>9. CASE p = v /\ SendHello(v)
  <2> DEFINE m == HelloFrame(snap[p])
  <2>1. /\ stage[p] = "snapped" /\ stage'[p] = "greeted" /\ outq'[p] = Pushed(p, <<m>>)
        /\ screen'[p] = screen[p] /\ got'[p] = got[p]
    BY <1>9 DEF SendHello, ClientsInv, ClientShapes
  <2>2. m \in Frames(Wire)
    <3>1. snap[p] \in Snaps
      BY <2>1 DEF ClientsInv, ClientShapes
    <3> QED BY <3>1 DEF Snaps, HelloFrame, Frames
  <2>3. Pushed(p, <<m>>) = IF Room(p, 1) THEN Append(outq[p], m) ELSE outq[p]
    <3> HIDE DEF m
    <3> QED BY <1>4, <2>2, PushedOne
  <2>4. ~got'[p].last
    BY <1>3, <2>1
  <2>5. CASE Room(p, 1)
    <3>1. Caught(screen'[p], outq'[p]) = Apply(Caught(screen[p], outq[p]), m)
          /\ Caught(screen[p], outq[p]) \in Screens(Wire)
      <4> HIDE DEF m
      <4>1. outq'[p] = Append(outq[p], m) /\ screen'[p] = screen[p]
        BY <2>1, <2>3, <2>5
      <4>2. /\ Caught(screen[p], outq[p]) \in Screens(Wire)
            /\ Caught(screen[p], Append(outq[p], m)) = Apply(Caught(screen[p], outq[p]), m)
        BY <1>4, <2>2, CaughtAppend
      <4> QED BY <4>1, <4>2
    <3>2. Caught(screen'[p], outq'[p]).phase # "armed"
      BY <3>1 DEF Apply, HelloFrame, PhaseFrom, Screens
    <3>3. OnCourse(p)'
      BY <3>2 DEF OnCourse
    <3> QED BY <1>1, <1>3, <2>1, <2>4, <3>3
  <2>6. CASE ~Room(p, 1)
    <3>1. outq'[p] = outq[p]
      BY <2>1, <2>3, <2>6
    <3> QED BY <1>1, <1>3, <2>1, <2>4, <3>1 DEF OnCourse
  <2> QED BY <2>5, <2>6
<1>10. CASE p = v /\ Deliver(v)
  <2> DEFINE q == outq[p]
             z == Apply(screen[p], Head(q))
  <2>1. /\ stage'[p] = stage[p] /\ got'[p] = got[p] /\ q # <<>>
        /\ outq'[p] = Tail(q) /\ screen'[p] = z
    BY <1>10 DEF Deliver, ClientsInv, ClientShapes
  <2>2. Caught(screen'[p], outq'[p]) = Caught(screen[p], q)
    BY <1>4, <2>1, CaughtAhead
  <2>3. got[p].all => OnCourse(p)'
    BY <1>1, <1>3, <2>2 DEF OnCourse
  <2>4. ASSUME got[p].last PROVE HasNewest(p)'
    <3>1. q[Len(q)] = NewestTick
      BY <1>3, <2>1, <2>4 DEF HasNewest
    <3>2. /\ Len(q) \in Nat \ {0} /\ Tail(q) \in Seq(Frames(Wire)) /\ Len(Tail(q)) = Len(q) - 1
          /\ \A i \in 1..Len(q) - 1 : Tail(q)[i] = q[i + 1]
          /\ Head(q) = q[1]
      BY <1>4, <2>1, EmptySeq, HeadTailProperties
    <3>3. CASE Len(q) = 1
      <4>1. Tail(q) = <<>> /\ Head(q) = NewestTick
        <5>1. Tail(q) \in Seq(Frames(Wire)) /\ Len(Tail(q)) = 0 /\ Head(q) = NewestTick
          BY <3>1, <3>2, <3>3
        <5> QED BY <5>1, EmptySeq
      <4>2. z = Apply(screen[p], NewestTick)
        BY <4>1
      <4> HIDE DEF z
      <4>3. /\ z.phase = screen[p].phase /\ z.round = screen[p].round
            /\ z.phase = "armed" /\ z.round = round => z.left = NewestTick.remaining
        BY <1>4, <4>2 DEF Apply, NewestTick, TickFrame, Screens, CountAfter
      <4> QED BY <1>1, <2>1, <4>1, <4>3 DEF HasNewest
    <3>4. CASE Len(q) > 1
      <4>1. Len(q) - 1 \in 1..Len(q) - 1 /\ (Len(q) - 1) + 1 = Len(q)
        BY <3>2, <3>4
      <4>2. Tail(q)[Len(Tail(q))] = NewestTick /\ Len(Tail(q)) # 0
        BY <3>1, <3>2, <4>1
      <4>3. Tail(q) # <<>>
        BY <4>2, EmptySeq
      <4>4. (outq[p] # <<>> /\ outq[p][Len(outq[p])] = NewestTick)'
        BY <1>1, <2>1, <4>2, <4>3
      <4> QED BY <4>4 DEF HasNewest
    <3>5. Len(q) = 1 \/ Len(q) > 1
      <4>1. Len(q) \in Nat \ {0}
        BY <3>2
      <4>2. \A k \in Nat \ {0} : k = 1 \/ k > 1
        OBVIOUS
      <4> QED BY <4>1, <4>2, Zenon
    <3> QED BY <3>3, <3>4, <3>5
  <2> QED BY <1>1, <1>3, <2>1, <2>3, <2>4
<1> QED BY <1>6, <1>7, <1>8, <1>9, <1>10

\* Every step keeps the clients on course.
LEMMA CourseInductive ==
  ASSUME ClientsInv, ClientsInv', ReplayInv, CourseInv, [CNext]_cvars
  PROVE  CourseInv'
<1>1. CASE ServerPending \/ ServerClose
  BY <1>1 DEF ServerPending, ServerClose, Nothing, CourseInv
<1>2. ASSUME NEW players \in Crowd, NEW out \in SUBSET Viewer, ServerArm(players, out)
      PROVE  CourseInv'
  BY <1>2, ArmStartsCourse DEF CourseInv
<1>3. CASE ServerTick
  BY <1>3, TickKeepsCourse DEF CourseInv
<1>4. CASE ServerClicks \/ RivalClick \/ UNCHANGED cvars \/ \E p \in Viewer : ClientClick(p)
  <2>1. UNCHANGED clientVars /\ UNCHANGED <<phase, round, ticks>>
    BY <1>4 DEF ServerClicks, RivalClick, ClientClick, cvars, vars, Offer, Discard, Submit
  <2>2. [Next]_vars /\ ~\E players \in Crowd : Arm(players)
    BY <2>1, ClientsInductive DEF Arm
  <2>3. Base' = Base
    BY <2>2, BoardMoves DEF ClientsInv
  <2>4. PublishedNow' = PublishedNow /\ NewestTick' = NewestTick
    BY <2>1, <2>3 DEF PublishedNow, NewestTick
  <2> QED BY <2>1, <2>4 DEF clientVars, CourseInv, OnCourse, HasNewest
<1> QED BY <1>1, <1>2, <1>3, <1>4, ConnectionKeepsCourse DEF CNext

\* A client that lost nothing is on course for the board (Hub.Armed, Hub.Tick,
\* Client.enqueue and OnData), and one with the newest tick for its count.
THEOREM CourseAlwaysKept == CSpec => [](ClientsInv /\ ReplayInv /\ CourseInv)
<1>1. CInit => ReplayInv /\ CourseInv
  BY ReplayInit DEF CInit, CourseInv, Nothing
<1>2. ClientsInv /\ ReplayInv /\ CourseInv /\ [CNext]_cvars =>
        (ClientsInv /\ ReplayInv /\ CourseInv)'
  <2>1. ClientsInv /\ [CNext]_cvars => ClientsInv' /\ [Next]_vars
    BY ClientsInductive
  <2> QED BY <2>1, ReplayInductive, CourseInductive
<1> QED BY <1>1, <1>2, ClientsInit, PTL DEF CSpec

\* A client that has had the armed frame and every frame since is on course for
\* the published board: no claimed button shown, no live one missed.
THEOREM WholeClientsConverge == CSpec => []WholeClientConverges
<1>1. Published = PublishedNow
  <2>1. \A cs : Rebuilt(cs) = Replayed(FirstButtons(Base), cs)
    BY DEF Rebuilt, Replayed, Claimed, Base
  <2> QED BY <2>1, CarriedIsFlushed DEF Published, PublishedNow
<1>2. CourseInv => WholeClientConverges
  BY <1>1 DEF CourseInv, OnCourse, WholeClientConverges
<1> QED BY <1>2, CourseAlwaysKept, PTL

\* The running count recovers from dropped ticks: with the newest one delivered,
\* or on its way, the client is on course for the server's count.
THEOREM CountAlwaysRecovers == CSpec => []CountRecovers
<1>1. ASSUME ClientsInv, CourseInv PROVE CountRecovers
  <2> DEFINE c(p) == Caught(screen[p], outq[p])
  <2>1. SUFFICES ASSUME NEW p \in Viewer, got[p].last, c(p).phase = "armed", c(p).round = round
                 PROVE  c(p).left = ticks[Len(ticks)].remaining
    BY DEF CountRecovers
  <2>2. screen[p] \in Screens(Wire) /\ outq[p] \in Seq(Frames(Wire)) /\ HasNewest(p)
    BY <1>1, <2>1 DEF ClientsInv, ClientShapes, CourseInv
  <2>3. CASE outq[p] = <<>>
    <3>1. c(p) = screen[p]
      BY <2>2, <2>3, CaughtNothing
    <3> QED BY <2>1, <2>2, <2>3, <3>1 DEF HasNewest, NewestTick, TickFrame
  <2>4. CASE outq[p] # <<>>
    <3>1. PICK z \in Screens(Wire) : c(p) = Apply(z, outq[p][Len(outq[p])])
      BY <2>2, <2>4, CaughtLast
    <3>2. outq[p][Len(outq[p])] = NewestTick
      BY <2>2, <2>4 DEF HasNewest
    <3> DEFINE m == NewestTick
    <3> HIDE DEF c, m
    <3>3. m.t = "tick" /\ m.round = round /\ m.remaining = ticks[Len(ticks)].remaining
      BY DEF m, NewestTick, TickFrame
    <3>4. c(p) = Apply(z, m)
      BY <3>1, <3>2 DEF m
    <3>5. c(p).phase = z.phase /\ c(p).round = z.round /\ c(p).left = CountAfter(z, m)
      BY <3>3, <3>4 DEF Apply, Screens
    <3> QED BY <2>1, <3>3, <3>5 DEF CountAfter
  <2> QED BY <2>3, <2>4
<1> QED BY <1>1, CourseAlwaysKept, PTL
==============================================================================
