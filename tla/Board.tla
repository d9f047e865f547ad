-------------------------------- MODULE Board --------------------------------
(***************************************************************************)
(* One scoring window of the game: the board of live buttons               *)
(* (internal/game/board.go) and the engine's Run goroutine driving it      *)
(* (Engine.pending, Engine.race, Engine.drain in internal/game/engine.go). *)
(*                                                                         *)
(* The read pumps put clicks into a bounded channel; the engine takes them *)
(* out one at a time.  While the window is armed a click scores exactly    *)
(* when it echoes the nonce of a live button; the claim is logged, queued  *)
(* for the next tick frame, and the button is replaced unless the round's  *)
(* budget n is spent.  The window closes on the n-th claim or on RaceMax.  *)
(*                                                                         *)
(* Nonces are fresh 64-bit random numbers in the code; here they are       *)
(* numbered in the order they are minted, 0 being "no nonce" as on the     *)
(* wire.  Slot ids are the code's uint16 counter, with its width SlotMod.  *)
(* Button positions, click timestamps and the logged tally of idle clicks  *)
(* (badClicks) are left out: nothing here reads them.                      *)
(***************************************************************************)
EXTENDS Integers, Sequences, FiniteSets

CONSTANTS Player,     \* the accounts that can be connected
          ClicksPerPlayer, MinClicks,  \* Config: how a round's budget is sized
          Crowd,      \* how many players a round may find racing
          X,          \* Config.ButtonsOnScreen
          SlotMod,    \* 2^16: slot ids are a uint16
          ClickBuf,   \* capacity of Engine.clicks
          Ticking,    \* tickInterval > 0
          Rounds,     \* Config.RoundsPerGame
          MaxGame,    \* bound: games played
          MaxSubmit,  \* bound: clicks sent per round
          MaxTick     \* bound: ticks of one window before its flush

\* Engine.clicksFor: the slots of a round scale with the players racing, and a
\* round has one at least (newBoard floors once more).
BudgetOf(players) ==
  LET scaled  == ClicksPerPlayer * players
      floored == IF scaled < MinClicks THEN MinClicks ELSE scaled
  IN  IF floored < 1 THEN 1 ELSE floored

ASSUME BoardAssumption ==
         /\ ClicksPerPlayer \in Nat /\ MinClicks \in Nat
         /\ Crowd \subseteq Nat
         /\ X \in Nat \ {0}
         /\ SlotMod \in Nat \ {0}
         /\ \A players \in Crowd : BudgetOf(players) + X + 1 < SlotMod
         /\ ClickBuf \in Nat \ {0}
         /\ Ticking \in BOOLEAN
         /\ Rounds \in Nat \ {0} /\ MaxGame \in Nat
         /\ MaxSubmit \in Nat
         /\ MaxTick \in Nat

VARIABLES phase,     \* where the engine is: the pending and armed phases, the
                     \* result display, or past the last round ("over")
          round,
          game,      \* how many games have begun
          queue,     \* Engine.clicks
          n,         \* board.n
          live,      \* board.live: slot id -> nonce of the button
          byNonce,   \* board.byNonce: nonce -> slot id
          nextSlot,  \* board.nextSlot
          minted,    \* how many nonces newNonce has handed out
          scored,    \* board.scored
          pending,   \* board.pending
          log,       \* board.log
          scores,    \* the game's running scores
          ticks,     \* history: the tick frames of this window
          shown,     \* history: nonces 1..shown have been put on the wire
          sent       \* bound: clicks submitted this round

boardVars == <<n, live, byNonce, nextSlot, minted, scored, pending, log>>
vars == <<phase, round, game, queue, boardVars, scores, ticks, shown, sent>>

Click  == [player : Player, nonce : Nat]
Button == [slot : 0..(SlotMod - 1), nonce : Nat]
Claim  == [slot : 0..(SlotMod - 1), claimer : Player, spawn : Button \cup {<<>>}]
Frame  == [remaining : Int, claims : Seq(Claim)]

NoSpawn == <<>>

Put(f, k, v) == [x \in DOMAIN f \cup {k} |-> IF x = k THEN v ELSE f[x]]
Del(f, k)    == [x \in DOMAIN f \ {k} |-> f[x]]

-----------------------------------------------------------------------------
\* Mutant: the budget is overrun by one claim.
FullOverrun == Len(scored) > n

Full == Len(scored) >= n

\* The buttons race mints, one register after the other, for the armed frame.
FirstButtons(base) == {[slot |-> i, nonce |-> base + i] : i \in 1..X}

\* Mutants of the mutation: the replacement's id counted from the map's size, or
\* reused from the claimed slot; and the budget tested before the click counts.
ClaimSpawning(ev, slot, more) ==
  [slot    |-> byNonce[ev.nonce],
   claimer |-> ev.player,
   spawn   |-> IF more THEN [slot |-> slot, nonce |-> minted + 1] ELSE NoSpawn]
ClaimByCount(ev)   == ClaimSpawning(ev, Cardinality(DOMAIN live), Len(scored) + 1 < n)
ClaimSameSlot(ev)  == ClaimSpawning(ev, byNonce[ev.nonce], Len(scored) + 1 < n)
ClaimOverfill(ev)  == ClaimSpawning(ev, nextSlot + 1, Len(scored) < n)

\* The board mutation a scoring click causes; the click that spends the
\* budget gets no replacement button.
ClaimOf(ev) ==
  [slot    |-> byNonce[ev.nonce],
   claimer |-> ev.player,
   spawn   |-> IF Len(scored) + 1 < n
               THEN [slot |-> (nextSlot + 1) % SlotMod, nonce |-> minted + 1]
               ELSE NoSpawn]

Scores(ev) == ~Full /\ ev.nonce # 0 /\ ev.nonce \in DOMAIN byNonce

\* board.offer when the click scores.
TakeSlot(ev) ==
  LET c    == ClaimOf(ev)
      rest == Del(live, c.slot)
      keys == Del(byNonce, ev.nonce)
  IN  /\ scored'  = Append(scored, ev)
      /\ pending' = Append(pending, c)
      /\ log'     = Append(log, c)
      /\ IF c.spawn = NoSpawn
         THEN /\ live' = rest
              /\ byNonce' = keys
              /\ UNCHANGED <<nextSlot, minted>>
         ELSE /\ live' = Put(rest, c.spawn.slot, c.spawn.nonce)
              /\ byNonce' = Put(keys, c.spawn.nonce, c.spawn.slot)
              /\ nextSlot' = c.spawn.slot
              /\ minted' = c.spawn.nonce
      /\ UNCHANGED n

\* Mutant: takePending hands the claims out without forgetting them.
EmitTickKeeping ==
  /\ ticks' = Append(ticks, [remaining |-> n - Len(scored), claims |-> pending])
  /\ shown' = minted
  /\ UNCHANGED pending

\* emitTick: the running count and the claims since the previous tick.
EmitTick ==
  /\ ticks' = Append(ticks, [remaining |-> n - Len(scored), claims |-> pending])
  /\ pending' = <<>>
  /\ shown' = minted

\* Mutant: nothing for a round that timed out.
DeltaIfFull(p) ==
  IF Full THEN Cardinality({i \in DOMAIN scored : scored[i].player = p}) ELSE 0

\* deltas: how many slots a player took in this window.
Delta(p) == Cardinality({i \in DOMAIN scored : scored[i].player = p})

-----------------------------------------------------------------------------
Init ==
  /\ phase = "over" /\ round = Rounds /\ game = 0
  /\ queue = <<>>
  /\ n = 1 /\ live = <<>> /\ byNonce = <<>> /\ nextSlot = 0 /\ minted = 0
  /\ scored = <<>> /\ pending = <<>> /\ log = <<>>
  /\ scores = [p \in Player |-> 0]
  /\ ticks = <<>> /\ shown = 0 /\ sent = 0

\* Mutant: a channel that never says it is full.
EnqueuedAlways(q, ev) == Append(q, ev)

\* Engine.Submit: a full channel drops the click.
Enqueued(q, ev) == IF Len(q) < ClickBuf THEN Append(q, ev) ELSE q

\* A read pump hands a click to the engine.  A player can only echo a nonce
\* some frame has carried, in this window or before.
Submit(p, k) ==
  /\ sent < MaxSubmit
  /\ sent' = sent + 1
  /\ queue' = Enqueued(queue, [player |-> p, nonce |-> k])
  /\ UNCHANGED <<phase, round, game, boardVars, scores, ticks, shown>>

\* pending, drain and waitForPlayers: outside the window a click is thrown away.
Discard ==
  /\ phase # "armed"
  /\ queue # <<>>
  /\ queue' = Tail(queue)
  /\ UNCHANGED <<phase, round, game, boardVars, scores, ticks, shown, sent>>

\* race: a fresh board for a crowd of so many players, and the armed frame.
Arm(players) ==
  /\ phase = "pending"
  /\ phase' = "armed"
  /\ n' = BudgetOf(players)
  /\ live' = [s \in 1..X |-> minted + s]
  /\ byNonce' = [k \in (minted + 1)..(minted + X) |-> k - minted]
  /\ nextSlot' = X
  /\ minted' = minted + X
  /\ shown' = minted + X
  /\ scored' = <<>> /\ pending' = <<>> /\ log' = <<>> /\ ticks' = <<>>
  /\ UNCHANGED <<round, game, queue, scores, sent>>

\* The raceLoop's click case.
Offer ==
  /\ phase = "armed" /\ ~Full
  /\ queue # <<>>
  /\ queue' = Tail(queue)
  /\ LET ev == Head(queue)
     IN \/ Scores(ev) /\ TakeSlot(ev)
        \/ ~Scores(ev) /\ UNCHANGED boardVars
  /\ UNCHANGED <<phase, round, game, scores, ticks, shown, sent>>

\* The raceLoop's tick case.
Tick ==
  /\ Ticking
  /\ phase = "armed" /\ ~Full
  /\ Len(ticks) < MaxTick
  /\ EmitTick
  /\ UNCHANGED <<phase, round, game, queue, n, live, byNonce, nextSlot, minted,
                 scored, log, scores, sent>>

\* After the loop: the flush tick, the deltas and the scores.  The last round
\* has no result display: playGame goes on to the game's end.
Close ==
  /\ IF Ticking THEN EmitTick ELSE UNCHANGED <<ticks, pending, shown>>
  /\ scores' = [p \in Player |-> scores[p] + Delta(p)]
  /\ phase' = IF round = Rounds THEN "over" ELSE "result"
  /\ UNCHANGED <<round, game, queue, n, live, byNonce, nextSlot, minted, scored,
                 log, sent>>

CloseFull    == phase = "armed" /\ Full /\ Close
CloseTimeout == phase = "armed" /\ ~Full /\ Close

NextRound ==
  /\ phase = "result"
  /\ phase' = "pending" /\ round' = round + 1
  /\ sent' = 0
  /\ UNCHANGED <<game, queue, boardVars, scores, ticks, shown>>

\* playGame starts: everybody has no points.
NewGame ==
  /\ phase = "over" /\ game < MaxGame
  /\ phase' = "pending" /\ round' = 1 /\ game' = game + 1
  /\ scores' = [p \in Player |-> 0]
  /\ sent' = 0
  /\ UNCHANGED <<queue, boardVars, ticks, shown>>

Next ==
  \/ \E p \in Player, k \in 0..shown : Submit(p, k)
  \/ Discard
  \/ \E players \in Crowd : Arm(players)
  \/ Offer
  \/ Tick
  \/ CloseFull
  \/ CloseTimeout
  \/ NextRound
  \/ NewGame

Spec == Init /\ [][Next]_vars

-----------------------------------------------------------------------------
(***************************************************************************)
(* Properties                                                              *)
(***************************************************************************)
\* The shapes of the state, the channel's capacity, and the budget's floor.
TypeOK ==
  /\ phase \in {"pending", "armed", "result", "over"}
  /\ round \in 1..Rounds /\ game \in Nat /\ (phase = "result" => round < Rounds)
  /\ queue \in Seq(Click) /\ Len(queue) <= ClickBuf
  /\ n \in Nat \ {0}
  /\ DOMAIN live \subseteq 0..(SlotMod - 1)
  /\ \A s \in DOMAIN live : live[s] \in 1..minted
  /\ DOMAIN byNonce \subseteq 1..minted
  /\ \A k \in DOMAIN byNonce : byNonce[k] \in 0..(SlotMod - 1)
  /\ nextSlot \in 0..(SlotMod - 1) /\ minted \in Nat /\ shown \in Nat
  /\ scored \in Seq(Click) /\ pending \in Seq(Claim) /\ log \in Seq(Claim)
  /\ scores \in [Player -> Nat]
  /\ ticks \in Seq(Frame)
  /\ sent \in Nat

\* The two maps of the board describe the same buttons: looking a nonce up and
\* going on to its slot comes back to that nonce.  offer deletes from one map
\* with a key read from the other, so any disagreement leaves a dead button.
MirrorsAgree ==
  /\ \A k \in DOMAIN byNonce :
       byNonce[k] \in DOMAIN live /\ live[byNonce[k]] = k
  /\ \A s \in DOMAIN live :
       live[s] \in DOMAIN byNonce /\ byNonce[live[s]] = s

\* A button pays once: the scoring clicks of a window echo distinct nonces,
\* none of them still live, at most n of them, and none left over from an
\* earlier window's board.
OneClaimPerButton ==
  /\ Len(scored) <= n
  /\ \A i \in DOMAIN scored :
       /\ scored[i].nonce \notin DOMAIN byNonce
       /\ scored[i].nonce \in (minted - nextSlot + 1)..minted
       /\ \A j \in DOMAIN scored : scored[i].nonce = scored[j].nonce => i = j

\* Through the window the board shows X buttons; only the claim that spends
\* the budget is not refilled.
BoardKeptFull ==
  phase = "armed" => Cardinality(DOMAIN live) = IF Full THEN X - 1 ELSE X

\* log[i] is the claim of scored[i] (race reads the button of a scoring click
\* out of the log by the click's index).
LogMatchesScored ==
  /\ Len(log) = Len(scored)
  /\ \A i \in DOMAIN log :
       /\ log[i].claimer = scored[i].player
       /\ log[i].slot = scored[i].nonce - (minted - nextSlot)
       /\ log[i].spawn = NoSpawn <=> i = n

\* The claims of the first i tick frames, in order.
Carried[i \in Nat] ==
  IF i = 0 THEN <<>> ELSE Carried[i - 1] \o ticks[i].claims

\* The board a reader gets from the armed frame by applying claims cs.
Rebuilt(cs) ==
  LET f[i \in 0..Len(cs)] ==
        IF i = 0 THEN FirstButtons(minted - nextSlot)
        ELSE {b \in f[i - 1] : b.slot # cs[i].slot}
               \cup (IF cs[i].spawn = NoSpawn THEN {} ELSE {cs[i].spawn})
  IN  f[Len(cs)]

\* The tick stream determines the board: the armed frame and the claims of the
\* ticks so far, with those waiting for the next tick, rebuild exactly the buttons
\* the server will accept.  Draining the pending claims loses and repeats none, and
\* every frame's count agrees with the claims carried up to it.
ReplayRebuildsBoard ==
  /\ phase = "armed" =>
       Rebuilt(Carried[Len(ticks)] \o pending) =
         {[slot |-> s, nonce |-> live[s]] : s \in DOMAIN live}
  /\ \A i \in DOMAIN ticks : ticks[i].remaining = n - Len(Carried[i])

\* The refinement mapping to the abstract window.
Race == INSTANCE ButtonRace WITH
          Width   <- X,
          running <- phase = "armed",
          left    <- n - Len(scored),
          open    <- DOMAIN byNonce,
          owner   <- [k \in {scored[i].nonce : i \in DOMAIN scored} |->
                        scored[CHOOSE i \in DOMAIN scored : scored[i].nonce = k].player],
          points  <- scores

\* The board and the loop around it implement the abstract window: a point is
\* a button owned, and a button has one owner.
ImplementsRace == Race!RaceSpec
=============================================================================
