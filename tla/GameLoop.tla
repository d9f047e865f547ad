------------------------------ MODULE GameLoop ------------------------------
(***************************************************************************)
(* The game loop (Engine.Run, waitForPlayers, playGame, pending, race and  *)
(* drain in internal/game/engine.go) among the connections it plays with:  *)
(* players connect, reconnect and leave, press PAUSE and RESUME (the park  *)
(* handler of Client.readPump in internal/ws/hub.go), are parked by the    *)
(* arming-phase AFK pass, and are benched and let back in.                 *)
(*                                                                         *)
(* The engine is one goroutine, its place in the loop is pc; what other    *)
(* goroutines read of it is phase, which it publishes a step later.  A     *)
(* read pump reads the phase and acts on it in two steps.                  *)
(*                                                                         *)
(* All players run a current build and none is shadowbanned.  Which        *)
(* scoring clicks look suspicious is not modelled: the score-aware checks  *)
(* may bench any scorer, except `busted`, whose rule is here in full.      *)
(* `benched` is the test rung; the ladder above it is not in this module.  *)
(***************************************************************************)
EXTENDS Integers, FiniteSets

CONSTANTS Player,
          Rounds,    \* Config.RoundsPerGame
          Pauser,    \* bound: the players who use the pause control
          Pointer    \* bound: the players who send cursors

ASSUME LoopAssumption == Rounds \in Nat \ {0} /\ Pauser \subseteq Player
                         /\ Pointer \subseteq Player

VARIABLES pc,          \* where the Run goroutine is
          phase,       \* Engine.phase, as published
          round,
          wake,        \* the wake channel holds a token
          benched,     \* Engine.underTest
          tested,      \* Engine.pendingTests
          fired,       \* playGame's afkFired
          verdicts,    \* AFK verdicts the engine has yet to act on
          racers,      \* connections that got this window's armed frame
          scored,      \* players who took a slot of this window
          conn,        \* players with a registered connection
          parked,      \* Client.parked
          parkWant,    \* Client.parkWant
          resumeWant,  \* Client.resumeWant
          eligible,    \* Client.pendSeen = Hub.pendGen, from the stamp to its
                       \* use (before the stamp: Pending's list of clients)
          cursor,      \* Client.movN and moved: "none", "seen" or "moved"
          pump,        \* what the player's ServeClient or readPump is about to
                       \* do: "waking", or how it decided to act on a park
                       \* frame
          asked,       \* the last thing said of the player's place, by its own
                       \* frames or by the AFK pass: its pause control asks
                       \* for the opposite
          pointed,     \* history: who sent a cursor the hub took in this round,
                       \* by the connection it has
          frozenIn,    \* history: who was in the crowd, and who was parked, when
          frozenOut,   \* the window armed, with no park frame in hand
          flags,       \* history: AFK verdicts per player in this game
          wronged      \* history: busted in spite of having sent a cursor

engineVars == <<pc, phase, round, benched, tested, fired, verdicts, racers, scored>>
clientVars == <<conn, parked, parkWant, resumeWant, eligible, cursor, pump>>
roster == <<frozenIn, frozenOut>>
history == <<asked, pointed, roster, flags, wronged>>
vars == <<engineVars, wake, clientVars, history>>

\* Hub.PlayerCount counts these.
Crowd == conn \ parked

-----------------------------------------------------------------------------
(* The Run goroutine.                                                      *)

Init ==
  /\ pc = "check" /\ phase = "intermission" /\ round = 0 /\ wake = FALSE
  /\ benched = {} /\ tested = {} /\ fired = {} /\ verdicts = {}
  /\ racers = {} /\ scored = {}
  /\ conn = {} /\ parked = {} /\ parkWant = {} /\ resumeWant = {} /\ eligible = {}
  /\ cursor = [p \in Player |-> "none"]
  /\ pump = [p \in Player |-> "idle"]
  /\ asked = [p \in Player |-> "here"]
  /\ frozenIn = {} /\ frozenOut = {}
  /\ pointed = {} /\ flags = [p \in Player |-> 0] /\ wronged = {}

\* waitForPlayers: the loop's condition.
CheckCrowd ==
  /\ pc = "check"
  /\ IF Crowd = {}
     THEN pc' = "idle" /\ phase' = "intermission" /\ round' = 0
     ELSE pc' = "start" /\ UNCHANGED <<phase, round>>
  /\ UNCHANGED <<wake, benched, tested, fired, verdicts, racers, scored,
                 clientVars, history>>

\* waitForPlayers: the select; a token in the channel, or any stray click.
Woken ==
  /\ pc = "idle" /\ wake
  /\ wake' = FALSE
  /\ pc' = "check"
  /\ UNCHANGED <<phase, round, benched, tested, fired, verdicts, racers, scored,
                 clientVars, history>>

StrayClick ==
  /\ pc = "idle" /\ conn # {}
  /\ pc' = "check"
  /\ UNCHANGED <<phase, round, wake, benched, tested, fired, verdicts, racers,
                 scored, clientVars, history>>

\* playGame begins; syncBounty lets everybody back in if the bounty changed.
StartGame ==
  /\ pc = "start"
  /\ pc' = "announce" /\ round' = 1
  /\ \/ UNCHANGED <<benched, tested>>
     \/ benched' = {} /\ tested' = {}
  /\ UNCHANGED <<phase, wake, fired, verdicts, racers, scored, clientVars, history>>

\* pending: the phase is published, and Hub.Pending lists the clients ...
Announce ==
  /\ pc = "announce"
  /\ pc' = "deferred" /\ phase' = "pending"
  /\ eligible' = conn
  /\ wronged' = {}
  /\ UNCHANGED <<round, wake, benched, tested, fired, verdicts, racers, scored,
                 conn, parked, parkWant, resumeWant, cursor, pump, asked, pointed,
                 roster, flags>>

\* applyDeferredPark of every client; a resume goes before a park.
Deferred ==
  /\ parked' = (parked \ resumeWant) \cup (parkWant \ resumeWant)
  /\ parkWant' = {} /\ resumeWant' = {}

\* ... applies what they asked for while the window was open ...
ApplyDeferred ==
  /\ pc = "deferred"
  /\ pc' = "stamp"
  /\ Deferred
  /\ wake' = (wake \/ parked \cap resumeWant # {})
  /\ UNCHANGED <<phase, round, benched, tested, fired, verdicts, racers, scored,
                 conn, eligible, cursor, pump, history>>

\* ... clears their cursors and stamps those who are present.  Then
\* notifySanctions sends the benched their test.
Stamp ==
  /\ pc = "stamp"
  /\ pc' = "pending"
  /\ eligible' = eligible \ parked
  /\ cursor' = [p \in Player |-> "none"]
  /\ pointed' = {}
  /\ tested' = benched
  /\ UNCHANGED <<phase, round, wake, benched, fired, verdicts, racers, scored,
                 conn, parked, parkWant, resumeWant, pump, asked, roster, flags,
                 wronged>>

ArmingDone ==
  /\ pc = "pending"
  /\ pc' = "judge"
  /\ UNCHANGED <<phase, round, wake, benched, tested, fired, verdicts, racers,
                 scored, clientVars, history>>

\* Mutant: the once-per-game cap is not consulted.
StillUncapped == {p \in Crowd \cap eligible : cursor[p] # "moved"} \ benched

\* checkAfk: who kept still through an arming wait they were present for.
Still == {p \in Crowd \cap eligible : cursor[p] # "moved"} \ (benched \cup fired)

Judge ==
  /\ pc = "judge"
  /\ pc' = "bench"
  /\ verdicts' = Still
  /\ fired' = fired \cup Still
  /\ flags' = [p \in Player |-> IF p \in Still THEN flags[p] + 1 ELSE flags[p]]
  /\ eligible' = {}
  /\ UNCHANGED <<phase, round, wake, benched, tested, racers, scored, conn, parked,
                 parkWant, resumeWant, cursor, pump, asked, pointed, roster,
                 wronged>>

\* applySanction and Hub.Park, on the account's connection of this moment.
Bench(p) ==
  /\ pc = "bench" /\ p \in verdicts
  /\ verdicts' = verdicts \ {p}
  /\ IF p \in conn
     THEN /\ benched' = benched \cup {p}
          /\ parked' = parked \cup {p}
          /\ asked' = [asked EXCEPT ![p] = "away"]
     ELSE UNCHANGED <<benched, parked, asked>>
  /\ UNCHANGED <<pc, phase, round, wake, tested, fired, racers, scored, conn,
                 parkWant, resumeWant, eligible, cursor, pump, pointed, roster,
                 flags, wronged>>

\* Hub.Armed, and the withholding of a parked connection's frames.
Armable == Crowd \ benched

\* The park handler has a frame in hand that it will act on at once.
Acting(p) == pump[p] \in {"parkNow", "resumeNow"}

Freeze ==
  /\ frozenIn' = {p \in Crowd : ~Acting(p)}
  /\ frozenOut' = {p \in parked : ~Acting(p)}

\* Mutant: the cursors of the arming wait are forgotten.
ArmForgetting ==
  /\ pc = "bench" /\ verdicts = {}
  /\ pc' = "armed" /\ phase' = "armed"
  /\ racers' = Armable
  /\ scored' = {}
  /\ Freeze
  /\ cursor' = [p \in Player |-> "none"]
  /\ UNCHANGED <<round, wake, benched, tested, fired, verdicts, conn, parked,
                 parkWant, resumeWant, eligible, pump, asked, pointed, flags,
                 wronged>>

Arm ==
  /\ pc = "bench" /\ verdicts = {}
  /\ pc' = "armed" /\ phase' = "armed"
  /\ racers' = Armable
  /\ scored' = {}
  /\ Freeze
  /\ UNCHANGED <<round, wake, benched, tested, fired, verdicts, clientVars, asked,
                 pointed, flags, wronged>>

Score(p) ==
  /\ pc = "armed" /\ p \in racers
  /\ scored' = scored \cup {p}
  /\ UNCHANGED <<pc, phase, round, wake, benched, tested, fired, verdicts, racers,
                 clientVars, history>>

\* handleAnswer, wherever the engine selects on answers.
Answer(p) ==
  /\ pc \in {"pending", "armed", "result", "intermission"}
  /\ p \in conn \cap tested
  /\ benched' = benched \ {p} /\ tested' = tested \ {p}
  /\ UNCHANGED <<pc, phase, round, wake, fired, verdicts, racers, scored,
                 clientVars, history>>

\* The window closes.  The last round has no result display, and the phase
\* stays published as armed until the game is over.
CloseWindow ==
  /\ pc = "armed"
  /\ IF round = Rounds
     THEN pc' = "checks" /\ UNCHANGED <<phase, roster>>
     ELSE pc' = "result" /\ phase' = "result" /\ frozenIn' = {} /\ frozenOut' = {}
  /\ UNCHANGED <<round, wake, benched, tested, fired, verdicts, racers, scored,
                 clientVars, asked, pointed, flags, wronged>>

ResultShown ==
  /\ pc = "result"
  /\ pc' = "checks"
  /\ UNCHANGED <<phase, round, wake, benched, tested, fired, verdicts, racers,
                 scored, clientVars, history>>

\* checkBusted: scorers of whose connection no cursor is known.
Busted == {p \in (scored \cap Crowd) \ benched : cursor[p] = "none"}

\* The round-end checks; after the last round, game_over.
Checks ==
  /\ pc = "checks"
  /\ \E flagged \in SUBSET ((scored \cap conn) \ benched) :
       benched' = benched \cup Busted \cup flagged
  /\ wronged' = Busted \cap pointed
  /\ IF round = Rounds
     THEN pc' = "over" /\ UNCHANGED round
     ELSE pc' = "announce" /\ round' = round + 1
  /\ racers' = {} /\ scored' = {} /\ pointed' = {}
  /\ UNCHANGED <<phase, wake, tested, fired, verdicts, clientVars, asked, roster, flags>>

\* game_over goes out, playGame returns and its locals are gone.
GameOver ==
  /\ pc = "over"
  /\ pc' = "intermission" /\ phase' = "intermission" /\ round' = 0
  /\ fired' = {}
  /\ flags' = [p \in Player |-> 0]
  /\ wronged' = {} /\ frozenIn' = {} /\ frozenOut' = {}
  /\ UNCHANGED <<wake, benched, tested, verdicts, racers, scored, clientVars, asked,
                 pointed>>

\* Mutant: back to sleep without a look at the crowd.
IntermissionSleeps ==
  /\ pc = "intermission"
  /\ pc' = "idle"
  /\ UNCHANGED <<phase, round, wake, benched, tested, fired, verdicts, racers,
                 scored, clientVars, history>>

IntermissionDone ==
  /\ pc = "intermission"
  /\ pc' = "check"
  /\ UNCHANGED <<phase, round, wake, benched, tested, fired, verdicts, racers,
                 scored, clientVars, history>>

-----------------------------------------------------------------------------
(* The connections.                                                        *)

\* Hub.register of a fresh Client, evicting an older one; the Wake comes after.
Connect(p) ==
  /\ conn' = conn \cup {p}
  /\ parked' = parked \ {p}
  /\ parkWant' = parkWant \ {p} /\ resumeWant' = resumeWant \ {p}
  /\ eligible' = eligible \ {p}
  /\ racers' = racers \ {p}
  /\ cursor' = [cursor EXCEPT ![p] = "none"]
  /\ pump' = [pump EXCEPT ![p] = "waking"]
  /\ asked' = [asked EXCEPT ![p] = "here"]
  /\ pointed' = pointed \ {p}
  /\ frozenIn' = frozenIn \ {p} /\ frozenOut' = frozenOut \ {p}
  /\ UNCHANGED <<pc, phase, round, wake, benched, tested, fired, verdicts, scored,
                 flags, wronged>>

Disconnect(p) ==
  /\ p \in conn /\ pump[p] = "idle"
  /\ conn' = conn \ {p}
  /\ parked' = parked \ {p}
  /\ parkWant' = parkWant \ {p} /\ resumeWant' = resumeWant \ {p}
  /\ eligible' = eligible \ {p}
  /\ racers' = racers \ {p}
  /\ cursor' = [cursor EXCEPT ![p] = "none"]
  /\ asked' = [asked EXCEPT ![p] = "here"]
  /\ pointed' = pointed \ {p}
  /\ frozenIn' = frozenIn \ {p} /\ frozenOut' = frozenOut \ {p}
  /\ UNCHANGED <<pc, phase, round, wake, benched, tested, fired, verdicts, scored,
                 pump, flags, wronged>>

\* Mutant: the token is thrown away.
WakeLost(p) ==
  /\ pump[p] = "waking"
  /\ pump' = [pump EXCEPT ![p] = "idle"]
  /\ UNCHANGED <<engineVars, wake, conn, parked, parkWant, resumeWant, eligible,
                 cursor, history>>

\* Engine.Wake, by the goroutine that registered or unparked the player.
Wake(p) ==
  /\ pump[p] = "waking"
  /\ wake' = TRUE
  /\ pump' = [pump EXCEPT ![p] = "idle"]
  /\ UNCHANGED <<engineVars, conn, parked, parkWant, resumeWant, eligible, cursor,
                 history>>

\* A cursor frame, which clients send while a round arms or is open; the third
\* of a window at the earliest shows a movement.  One that comes sooner than
\* cursorMinGap after the last is ignored: no step.
Cursor(p) ==
  /\ p \in conn \cap Pointer /\ pump[p] = "idle"
  /\ phase \in {"pending", "armed"} /\ cursor[p] # "moved"
  /\ \E c \in {"seen", "moved"} : cursor' = [cursor EXCEPT ![p] = c]
  /\ pointed' = pointed \cup {p}
  /\ UNCHANGED <<engineVars, wake, conn, parked, parkWant, resumeWant, eligible,
                 pump, asked, roster, flags, wronged>>

\* Mutant: only a PAUSE is deferred while the button is armed.
ReadParkHalf(p) ==
  /\ p \in conn \cap Pauser /\ pump[p] = "idle"
  /\ pump' = [pump EXCEPT ![p] =
                 CASE asked[p] = "here" /\ phase # "armed" -> "parkNow"
                   [] asked[p] = "here" /\ phase = "armed" -> "parkLater"
                   [] asked[p] = "away" -> "resumeNow"]
  /\ UNCHANGED <<engineVars, wake, conn, parked, parkWant, resumeWant, eligible,
                 cursor, history>>

\* The park handler reads the phase ...
ReadPark(p) ==
  /\ p \in conn \cap Pauser /\ pump[p] = "idle"
  /\ pump' = [pump EXCEPT ![p] =
                 CASE asked[p] = "here" /\ phase # "armed" -> "parkNow"
                   [] asked[p] = "here" /\ phase = "armed" -> "parkLater"
                   [] asked[p] = "away" /\ phase # "armed" -> "resumeNow"
                   [] asked[p] = "away" /\ phase = "armed" -> "resumeLater"]
  /\ UNCHANGED <<engineVars, wake, conn, parked, parkWant, resumeWant, eligible,
                 cursor, history>>

\* ... and acts: at once, or at the next arming boundary.
ParkNow(p) ==
  /\ pump[p] = "parkNow"
  /\ pump' = [pump EXCEPT ![p] = "idle"]
  /\ parked' = parked \cup {p}
  /\ UNCHANGED <<parkWant, resumeWant>>

\* Mutant: a RESUME outside the window wakes nobody.
ResumeQuietly(p) ==
  /\ pump[p] = "resumeNow"
  /\ parked' = parked \ {p}
  /\ pump' = [pump EXCEPT ![p] = "idle"]
  /\ UNCHANGED <<parkWant, resumeWant>>

ResumeNow(p) ==
  /\ pump[p] = "resumeNow"
  /\ parked' = parked \ {p}
  /\ pump' = [pump EXCEPT ![p] = IF p \in parked THEN "waking" ELSE "idle"]
  /\ UNCHANGED <<parkWant, resumeWant>>

ParkLater(p) ==
  /\ pump[p] = "parkLater"
  /\ pump' = [pump EXCEPT ![p] = "idle"]
  /\ resumeWant' = resumeWant \ {p}
  /\ parkWant' = parkWant \cup {p}
  /\ UNCHANGED parked

ResumeLater(p) ==
  /\ pump[p] = "resumeLater"
  /\ pump' = [pump EXCEPT ![p] = "idle"]
  /\ parkWant' = parkWant \ {p}
  /\ resumeWant' = resumeWant \cup {p}
  /\ UNCHANGED parked

Park(p) ==
  /\ ParkNow(p) \/ ResumeNow(p) \/ ParkLater(p) \/ ResumeLater(p)
  /\ asked' = [asked EXCEPT ![p] = IF pump[p] \in {"parkNow", "parkLater"}
                                   THEN "away" ELSE "here"]
  /\ UNCHANGED <<engineVars, wake, conn, eligible, cursor, pointed, roster, flags,
                 wronged>>

-----------------------------------------------------------------------------
Engine ==
  \/ CheckCrowd \/ Woken \/ StartGame \/ Announce \/ ApplyDeferred \/ Stamp
  \/ ArmingDone \/ Judge \/ (\E p \in Player : Bench(p)) \/ Arm \/ CloseWindow
  \/ ResultShown \/ Checks \/ GameOver \/ IntermissionDone

Next ==
  \/ Engine
  \/ StrayClick
  \/ \E p \in Player :
       \/ Score(p)
       \/ Answer(p)
       \/ Connect(p)
       \/ Disconnect(p)
       \/ Wake(p)
       \/ Cursor(p)
       \/ ReadPark(p)
       \/ Park(p)

Spec == Init /\ [][Next]_vars

\* The engine's timers fire and its goroutine runs, and so does a read pump that
\* has a frame in hand.  Nobody is obliged to connect, click, answer or resume.
FairSpec == Spec /\ WF_vars(Engine) /\ \A p \in Player : WF_vars(Wake(p)) /\ WF_vars(Park(p))

-----------------------------------------------------------------------------
(***************************************************************************)
(* Properties                                                              *)
(***************************************************************************)
TypeOK ==
  /\ pc \in {"check", "idle", "start", "announce", "deferred", "stamp", "pending",
             "judge", "bench", "armed", "result", "checks", "over", "intermission"}
  /\ phase \in {"intermission", "pending", "armed", "result"}
  /\ round \in 0..Rounds
  /\ wake \in BOOLEAN
  /\ benched \subseteq Player /\ tested \subseteq benched
  /\ fired \subseteq Player /\ verdicts \subseteq Player
  /\ scored \subseteq Player /\ racers \subseteq conn
  /\ conn \subseteq Player
  /\ parked \subseteq conn /\ parkWant \subseteq conn
  /\ resumeWant \subseteq conn /\ eligible \subseteq conn
  /\ cursor \in [Player -> {"none", "seen", "moved"}]
  /\ pump \in [Player -> {"idle", "waking", "parkNow", "resumeNow", "parkLater",
                          "resumeLater"}]
  /\ \A p \in Player \ conn : pump[p] = "idle"
  /\ asked \in [Player -> {"here", "away"}]
  /\ pointed \subseteq Player /\ wronged \subseteq Player
  /\ frozenIn \subseteq Player /\ frozenOut \subseteq Player
  /\ flags \in [Player -> Nat]

\* The engine does not sleep through anybody's arrival: while it waits with
\* someone to play for, a token is in the wake channel or on its way there.
\* Counting the crowd and waiting are two steps, and a player counts as soon as
\* it is registered or unparked, before its goroutine calls Wake.
ArrivalIsNotMissed ==
  pc = "idle" => \A p \in Crowd : wake \/ pump[p] = "waking"

\* While the phase says armed, which is to the end of the window and in the last
\* round until its checks are done, nobody who was in the crowd at the arm is
\* parked and nobody who was parked is let in, however PAUSEs, RESUMEs, deferred
\* requests of earlier windows and AFK verdicts interleave.  Two kinds of player
\* are left out: those whose connection changed, and those whose park frame was
\* read before the arm and carried out after it.
RosterIsFrozen == frozenIn \cap parked = {} /\ frozenOut \subseteq parked

\* The AFK pass flags a player once per game, whatever it answers or resumes in
\* between.
FlaggedOncePerGame == \A p \in Player : flags[p] <= 1

\* A paused engine with somebody to play for goes on.
PausedEngineWakes == (pc = "idle" /\ Crowd # {}) ~> pc # "idle"

\* A player who is in the crowd for good, and no longer benched, gets windows to
\* race in for ever.
CrowdGetsToRace ==
  \A p \in Player :
    <>[](p \in Crowd \ benched) => []<>(pc = "armed" /\ p \in racers)

\* Nobody is flagged `busted`, "never sent a cursor the whole round", whose
\* connection did send one that the hub took, in the arming wait or in the window,
\* however the round's steps, parks and other players' reconnects interleave.  (A
\* player that reconnects in the round is flagged for what its old connection
\* sent: the capture lives and dies with the connection.)
BustedSentNoCursor == wronged = {}
=============================================================================
