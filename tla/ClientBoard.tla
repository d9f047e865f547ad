----------------------------- MODULE ClientBoard -----------------------------
(***************************************************************************)
(* The board as the players see it.  Composes Board with the path of every *)
(* frame: Hub.Pending, Armed, Tick, Result and GameOver fan a frame out    *)
(* to each connection's bounded send channel (Armed leaves out the players *)
(* the anticheat benched), dropping it when the channel is full            *)
(* (Client.enqueue), and the game client applies the frames in order       *)
(* (ClickController.OnMessage and OnData).                                 *)
(*                                                                         *)
(* A connection is registered first and greeted afterwards: Hub.register   *)
(* releases its lock before Hub.hello reads the engine's phase, and hello  *)
(* enqueues what it read in a further step, so the engine's frames may be  *)
(* interleaved with both.                                                  *)
(*                                                                         *)
(* A viewer clicks what its client can send: the nonce of a button on its  *)
(* own screen while it believes the window is open.  The other players     *)
(* click, while it is open, any button it has published so far.  (Clicks   *)
(* from outside the window, and with no nonce, score nothing: Board has    *)
(* them.)                                                                  *)
(***************************************************************************)
EXTENDS Board

CONSTANTS Viewer,    \* players whose connection and screen are modelled
          SendBuf,   \* capacity of Client.send
          MaxConn    \* bound: connections opened per player

ASSUME ClientAssumption ==
         Viewer \subseteq Player /\ SendBuf \in Nat \ {0} /\ MaxConn \in Nat

VARIABLES stage,    \* "off", "registered", "snapped" or "greeted"
          opened,   \* bound: connections opened so far
          snap,     \* what hello read of the engine: phase and round
          benched,  \* who was left out of this window's armed frame
          outq,     \* Client.send and the wire behind it
          screen,   \* the client: its Phase, Round, RemainingThisRound, LiveButtons
          got       \* history: which frames of this window got into outq:
                    \* round_pending, armed, all since armed, the newest tick

clientVars == <<stage, opened, snap, benched, outq, screen, got>>
cvars == <<vars, clientVars>>

NoSnap == [phase |-> "off", round |-> 0]
Blank(ph) == [phase |-> ph, round |-> 0, left |-> 0, buttons |-> {}]

Nothing == [pending |-> FALSE, armed |-> FALSE, all |-> FALSE, last |-> FALSE]

Connected == {p \in Viewer : stage[p] # "off"}

-----------------------------------------------------------------------------
(* Frames, and what the client does with each.                             *)

HelloFrame(s)  == [t |-> "hello", phase |-> s.phase, round |-> s.round]
PendingFrame(r) == [t |-> "round_pending", round |-> r]
ArmedFrame(r, bs, clicks) ==
  [t |-> "armed", round |-> r, buttons |-> bs, clicks |-> clicks]
TickFrame(r, frame) ==
  [t |-> "tick", round |-> r, remaining |-> frame.remaining, claims |-> frame.claims]
ResultFrame(r) == [t |-> "round_result", round |-> r]
GameOverFrame == [t |-> "game_over"]

\* Mutants: the claimed button is not taken away; the new button is put where
\* the claimed one was; it is added whatever the client believes.
AfterClaimsAdding(bs, cs, current) ==
  bs \cup (IF current THEN {cs[i].spawn : i \in DOMAIN cs} \ {NoSpawn} ELSE {})
AfterClaimsInPlace(bs, cs, current) ==
  LET f[i \in 0..Len(cs)] ==
        IF i = 0 THEN bs
        ELSE {b \in f[i - 1] : b.slot # cs[i].slot}
               \cup (IF current /\ cs[i].spawn # NoSpawn
                     THEN {[cs[i].spawn EXCEPT !.slot = cs[i].slot]} ELSE {})
  IN  f[Len(cs)]
AfterClaimsAlways(bs, cs, current) ==
  LET f[i \in 0..Len(cs)] ==
        IF i = 0 THEN bs
        ELSE {b \in f[i - 1] : b.slot # cs[i].slot}
               \cup (IF cs[i].spawn # NoSpawn THEN {cs[i].spawn} ELSE {})
  IN  f[Len(cs)]

\* OnData's loop over claims: TakeButton always, AddButton only when the
\* frame is of the round the client believes to be open.
AfterClaims(bs, cs, current) ==
  LET f[i \in 0..Len(cs)] ==
        IF i = 0 THEN bs
        ELSE {b \in f[i - 1] : b.slot # cs[i].slot}
               \cup (IF current /\ cs[i].spawn # NoSpawn THEN {cs[i].spawn} ELSE {})
  IN  f[Len(cs)]

\* Mutant: the client counts down by the claims it sees.
CountDown(s, m) ==
  IF s.phase = "armed" /\ s.round = m.round THEN s.left - Len(m.claims) ELSE s.left

\* The frame's count is taken over, unless the frame is of another window.
CountAfter(s, m) ==
  IF s.phase = "armed" /\ s.round = m.round THEN m.remaining ELSE s.left

\* PhaseFrom: only a round still arming is joined at once.
PhaseFrom(ph) == IF ph = "pending" THEN "pending" ELSE "waiting"

Apply(s, m) ==
  CASE m.t = "hello" -> [s EXCEPT !.phase = PhaseFrom(m.phase), !.round = m.round]
    [] m.t = "round_pending" ->
         [s EXCEPT !.phase = "pending", !.round = m.round, !.buttons = {}]
    [] m.t = "armed" ->
         [phase |-> "armed", round |-> m.round, left |-> m.clicks, buttons |-> m.buttons]
    [] m.t = "tick" ->
         LET current == s.phase = "armed" /\ s.round = m.round
         IN [s EXCEPT !.left = CountAfter(s, m),
                      !.buttons = AfterClaims(@, m.claims, current)]
    [] m.t = "round_result" ->
         [s EXCEPT !.phase = "result", !.round = m.round, !.buttons = {}]
    [] m.t = "game_over" -> [s EXCEPT !.phase = "gameover", !.buttons = {}]

\* The client once it has worked through the frames ms.
Caught(s, ms) ==
  LET f[i \in 0..Len(ms)] == IF i = 0 THEN s ELSE Apply(f[i - 1], ms[i])
  IN  f[Len(ms)]

-----------------------------------------------------------------------------
(* Client.enqueue for a fan-out: every registered connection gets the      *)
(* frames ms one after the other, each dropped where its channel is full.  *)

Room(p, k) == Len(outq[p]) + k <= SendBuf

Pushed(p, ms) ==
  outq[p] \o SubSeq(ms, 1, IF Room(p, Len(ms)) THEN Len(ms) ELSE SendBuf - Len(outq[p]))

FanOut(to, ms) == outq' = [p \in Viewer |-> IF p \in to THEN Pushed(p, ms) ELSE outq[p]]

BoardStill == UNCHANGED <<stage, opened, snap, screen>>

\* Engine.pending broadcasts round_pending as it enters the phase.
ServerPending ==
  /\ NextRound \/ NewGame
  /\ FanOut(Connected, <<PendingFrame(round')>>)
  /\ got' = [p \in Viewer |-> [Nothing EXCEPT !.pending = p \in Connected /\ Room(p, 1)]]
  /\ BoardStill /\ UNCHANGED benched

\* Hub.Armed skips the players in Blocked, here any set of the viewers.
ServerArm(players, out) ==
  /\ Arm(players)
  /\ benched' = out
  /\ FanOut(Connected \ out, <<ArmedFrame(round, FirstButtons(minted), n')>>)
  /\ got' = [p \in Viewer |->
               LET in == p \in Connected \ out /\ Room(p, 1)
               IN  [got[p] EXCEPT !.armed = in, !.all = in]]
  /\ BoardStill

ServerTick ==
  /\ Tick
  /\ FanOut(Connected, <<TickFrame(round, ticks'[Len(ticks')])>>)
  /\ got' = [p \in Viewer |->
               [got[p] EXCEPT !.all = @ /\ Room(p, 1),
                              !.last = stage[p] = "greeted" /\ Room(p, 1)]]
  /\ BoardStill /\ UNCHANGED benched

\* The flush tick and round_result, in the last round game_over, go out back
\* to back.
ServerClose ==
  /\ CloseFull \/ CloseTimeout
  /\ FanOut(Connected,
            (IF Ticking THEN <<TickFrame(round, ticks'[Len(ticks')])>> ELSE <<>>)
              \o <<IF round = Rounds THEN GameOverFrame ELSE ResultFrame(round)>>)
  /\ got' = [p \in Viewer |-> Nothing]
  /\ BoardStill /\ UNCHANGED benched

ServerClicks ==
  /\ Offer \/ Discard
  /\ UNCHANGED clientVars

-----------------------------------------------------------------------------
(* Connections.                                                            *)

\* The locked half of Hub.register: from here on fan-outs reach p.
Register(p) ==
  /\ stage[p] = "off" /\ opened[p] < MaxConn
  /\ stage' = [stage EXCEPT ![p] = "registered"]
  /\ opened' = [opened EXCEPT ![p] = @ + 1]
  /\ screen' = [screen EXCEPT ![p].phase = "connecting"]
  /\ UNCHANGED <<vars, snap, benched, outq, got>>

\* Hub.hello: Engine.Snapshot ...
ReadSnapshot(p) ==
  /\ stage[p] = "registered"
  /\ stage' = [stage EXCEPT ![p] = "snapped"]
  /\ snap' = [snap EXCEPT ![p] = [phase |-> phase, round |-> round]]
  /\ UNCHANGED <<vars, opened, benched, outq, screen, got>>

\* ... and then enqueue.
SendHello(p) ==
  /\ stage[p] = "snapped"
  /\ stage' = [stage EXCEPT ![p] = "greeted"]
  /\ outq' = [outq EXCEPT ![p] = Pushed(p, <<HelloFrame(snap[p])>>)]
  /\ snap' = [snap EXCEPT ![p] = NoSnap]
  /\ UNCHANGED <<vars, opened, benched, screen, got>>

\* The socket dies; what was queued dies with it (OnDisconnected).
Disconnect(p) ==
  /\ stage[p] = "greeted"
  /\ stage' = [stage EXCEPT ![p] = "off"]
  /\ outq' = [outq EXCEPT ![p] = <<>>]
  /\ screen' = [screen EXCEPT ![p].phase = "disconnected", ![p].buttons = {}]
  /\ got' = [got EXCEPT ![p] = Nothing]
  /\ UNCHANGED <<vars, opened, snap, benched>>

Deliver(p) ==
  /\ stage[p] # "off" /\ outq[p] # <<>>
  /\ outq' = [outq EXCEPT ![p] = Tail(@)]
  /\ screen' = [screen EXCEPT ![p] = Apply(@, Head(outq[p]))]
  /\ UNCHANGED <<vars, stage, opened, snap, benched, got>>

\* SendButtonClick on a button of the screen.
ClientClick(p) ==
  /\ stage[p] # "off" /\ screen[p].phase = "armed"
  /\ \E b \in screen[p].buttons : Submit(p, b.nonce)
  /\ UNCHANGED clientVars

\* The other players' clicks.
RivalClick ==
  /\ phase = "armed"
  /\ \E p \in Player \ Viewer, k \in (minted - nextSlot + 1)..shown : Submit(p, k)
  /\ UNCHANGED clientVars

-----------------------------------------------------------------------------
CInit ==
  /\ Init
  /\ stage = [p \in Viewer |-> "off"]
  /\ opened = [p \in Viewer |-> 0]
  /\ snap = [p \in Viewer |-> NoSnap]
  /\ benched = {}
  /\ outq = [p \in Viewer |-> <<>>]
  /\ screen = [p \in Viewer |-> Blank("disconnected")]
  /\ got = [p \in Viewer |-> Nothing]

CNext ==
  \/ ServerPending
  \/ \E players \in Crowd, out \in SUBSET Viewer : ServerArm(players, out)
  \/ ServerTick
  \/ ServerClose
  \/ ServerClicks
  \/ RivalClick
  \/ \E p \in Viewer :
       \/ Register(p)
       \/ ReadSnapshot(p)
       \/ SendHello(p)
       \/ Disconnect(p)
       \/ Deliver(p)
       \/ ClientClick(p)

CSpec == CInit /\ [][CNext]_cvars

-----------------------------------------------------------------------------
(***************************************************************************)
(* Properties                                                              *)
(***************************************************************************)
CTypeOK ==
  /\ TypeOK
  /\ stage \in [Viewer -> {"off", "registered", "snapped", "greeted"}]
  /\ opened \in [Viewer -> 0..MaxConn]
  /\ \A p \in Viewer :
       /\ Len(outq[p]) <= SendBuf
       /\ screen[p].buttons \subseteq [slot : 0..(SlotMod - 1), nonce : 1..minted]
       /\ stage[p] = "off" => outq[p] = <<>> /\ screen[p].buttons = {}

\* What the frames of the window so far say the board is.
Published == Rebuilt(Carried[Len(ticks)])

\* A client that has had the armed frame and every frame since is on course
\* for exactly the board the server has published: once it has worked through
\* what is queued for it, and takes this window to be open, it shows no claimed
\* button and misses no live one.
WholeClientConverges ==
  \A p \in Viewer :
    LET s == Caught(screen[p], outq[p])
    IN  phase = "armed" /\ got[p].all /\ s.phase = "armed" /\ s.round = round =>
          s.buttons = Published

\* Whatever was dropped or arrived late, a press is taken for the button under
\* the pointer or for nothing at all: a nonce on a screen that is still live
\* belongs to the slot that screen shows it at.
PressMeansWhatIsShown ==
  \A p \in Viewer : \A b \in screen[p].buttons :
    b.nonce \in DOMAIN byNonce => byNonce[b.nonce] = b.slot

\* The running count recovers from dropped ticks: with the newest tick
\* delivered, the counter is the server's as of that tick.
CountRecovers ==
  \A p \in Viewer :
    LET s == Caught(screen[p], outq[p])
    IN  got[p].last /\ s.phase = "armed" /\ s.round = round =>
          s.left = ticks[Len(ticks)].remaining

\* A player benched for this window, who got its round_pending, shows no button
\* the server would accept: the ticks every client gets do not hand out the
\* buttons that Hub.Armed withheld.
BenchedSeesNoLiveButton ==
  \A p \in benched :
    phase = "armed" /\ got[p].pending =>
      \A b \in screen[p].buttons : b.nonce \notin DOMAIN byNonce
=============================================================================
