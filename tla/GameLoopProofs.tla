--------------------------- MODULE GameLoopProofs ---------------------------
(***************************************************************************)
(* Theorems about the game loop among the connections it plays with        *)
(* (GameLoop), for any players and any number of rounds.                   *)
(***************************************************************************)
EXTENDS GameLoop, TLAPS

\* A player counts one AFK verdict exactly while it is on playGame's list.
FlagsCountFired ==
  \A p \in Player : flags[p] = IF p \in fired THEN 1 ELSE 0

\* The hub still knows the cursor of whoever sent one in this round.
PointedIsKnown ==
  /\ \A p \in pointed : cursor[p] # "none"
  /\ wronged = {}

\* The roster is frozen only while the phase says armed, for connections with
\* nothing in hand.
FrozenWhileArmed ==
  /\ phase = "armed" => \/ pc \in {"armed", "over"}
                        \/ pc = "checks" /\ round = Rounds
  /\ phase # "armed" => frozenIn = {} /\ frozenOut = {}
  /\ \A p \in frozenIn \cup frozenOut : ~Acting(p)

\* The inductive invariant.
LoopInv ==
  /\ TypeOK
  /\ ArrivalIsNotMissed
  /\ RosterIsFrozen
  /\ FrozenWhileArmed
  /\ FlagsCountFired
  /\ PointedIsKnown

LEMMA InitHolds == Init => LoopInv
<1> SUFFICES ASSUME Init PROVE LoopInv
  OBVIOUS
<1>1. TypeOK
  <2>1. 0 \in 0..Rounds
    BY LoopAssumption DEF LoopAssumption
  <2>2. /\ cursor \in [Player -> {"none", "seen", "moved"}]
        /\ pump \in [Player -> {"idle", "waking", "parkNow", "resumeNow",
                                "parkLater", "resumeLater"}]
        /\ asked \in [Player -> {"here", "away"}]
        /\ flags \in [Player -> Nat]
    BY DEF Init
  <2>3. \A p \in Player \ conn : pump[p] = "idle"
    BY DEF Init
  <2> QED BY <2>1, <2>2, <2>3 DEF Init, TypeOK
<1>2. ArrivalIsNotMissed /\ RosterIsFrozen /\ FrozenWhileArmed
  BY DEF Init, ArrivalIsNotMissed, RosterIsFrozen, FrozenWhileArmed
<1>3. FlagsCountFired /\ PointedIsKnown
  BY DEF Init, FlagsCountFired, PointedIsKnown
<1> QED BY <1>1, <1>2, <1>3 DEF LoopInv

-----------------------------------------------------------------------------
LEMMA NextType ==
  ASSUME TypeOK, [Next]_vars
  PROVE  TypeOK'
<1> USE LoopAssumption
        DEF LoopAssumption, TypeOK, Crowd, roster, engineVars, clientVars, history, vars
<1>1. CASE CheckCrowd
  BY <1>1 DEF CheckCrowd
<1>2. CASE Woken \/ StrayClick
  BY <1>2 DEF Woken, StrayClick
<1>3. CASE StartGame
  BY <1>3 DEF StartGame
<1>4. CASE Announce
  BY <1>4 DEF Announce
<1>5. CASE ApplyDeferred
  BY <1>5 DEF ApplyDeferred, Deferred
<1>6. CASE Stamp
  BY <1>6 DEF Stamp
<1>7. CASE ArmingDone
  BY <1>7 DEF ArmingDone
<1>8. CASE Judge
  BY <1>8 DEF Judge, Still
<1>9. ASSUME NEW p \in Player, Bench(p) PROVE TypeOK'
  BY <1>9 DEF Bench
<1>10. CASE Arm
  BY <1>10 DEF Arm, Armable, Freeze
<1>11. CASE CloseWindow \/ ResultShown
  BY <1>11 DEF CloseWindow, ResultShown
<1>12. CASE Checks
  BY <1>12 DEF Checks, Busted
<1>13. CASE GameOver
  BY <1>13 DEF GameOver
<1>14. CASE IntermissionDone
  BY <1>14 DEF IntermissionDone
<1>15. ASSUME NEW p \in Player, Score(p) PROVE TypeOK'
  BY <1>15 DEF Score
<1>16. ASSUME NEW p \in Player, Answer(p) PROVE TypeOK'
  BY <1>16 DEF Answer
<1>17. ASSUME NEW p \in Player, Connect(p) PROVE TypeOK'
  BY <1>17 DEF Connect
<1>18. ASSUME NEW p \in Player, Disconnect(p) PROVE TypeOK'
  BY <1>18 DEF Disconnect
<1>19. ASSUME NEW p \in Player, Wake(p) PROVE TypeOK'
  BY <1>19 DEF Wake
<1>20. ASSUME NEW p \in Player, Cursor(p) PROVE TypeOK'
  BY <1>20 DEF Cursor
<1>21. ASSUME NEW p \in Player, ReadPark(p) PROVE TypeOK'
  BY <1>21 DEF ReadPark
<1>22. ASSUME NEW p \in Player, Park(p) PROVE TypeOK'
  <2>1. p \in conn
    BY <1>22 DEF Park, ParkNow, ResumeNow, ParkLater, ResumeLater
  <2>2. CASE ParkNow(p) \/ ResumeNow(p)
    BY <1>22, <2>1, <2>2 DEF Park, ParkNow, ResumeNow
  <2>3. CASE ParkLater(p) \/ ResumeLater(p)
    BY <1>22, <2>1, <2>3 DEF Park, ParkLater, ResumeLater
  <2> QED BY <1>22, <2>2, <2>3 DEF Park
<1>23. CASE UNCHANGED vars
  BY <1>23
<1> QED
  BY <1>1, <1>2, <1>3, <1>4, <1>5, <1>6, <1>7, <1>8, <1>9, <1>10, <1>11, <1>12,
     <1>13, <1>14, <1>15, <1>16, <1>17, <1>18, <1>19, <1>20, <1>21, <1>22, <1>23
  DEF Next, Engine

-----------------------------------------------------------------------------
\* The engine goes to sleep only over an empty crowd, and whoever joins one
\* does so with a wake-up in hand.
LEMMA NextArrival ==
  ASSUME LoopInv, [Next]_vars
  PROVE  ArrivalIsNotMissed'
<1> USE DEF LoopInv, ArrivalIsNotMissed, Crowd, engineVars, clientVars, history, vars
<1>1. CASE Engine
  BY <1>1 DEF Engine, CheckCrowd, Woken, StartGame, Announce, ApplyDeferred, Stamp,
     ArmingDone, Judge, Bench, Arm, CloseWindow, ResultShown, Checks, GameOver,
     IntermissionDone
<1>2. CASE StrayClick
  BY <1>2 DEF StrayClick
<1>3. ASSUME NEW p \in Player, Score(p) \/ Answer(p)
      PROVE  ArrivalIsNotMissed'
  BY <1>3 DEF Score, Answer
<1>4. ASSUME NEW p \in Player, Connect(p) PROVE ArrivalIsNotMissed'
  BY <1>4 DEF Connect, TypeOK
<1>5. ASSUME NEW p \in Player, Disconnect(p) PROVE ArrivalIsNotMissed'
  BY <1>5 DEF Disconnect
<1>6. ASSUME NEW p \in Player, Wake(p) PROVE ArrivalIsNotMissed'
  BY <1>6 DEF Wake
<1>7. ASSUME NEW p \in Player, Cursor(p) PROVE ArrivalIsNotMissed'
  BY <1>7 DEF Cursor
<1>8. ASSUME NEW p \in Player, ReadPark(p) PROVE ArrivalIsNotMissed'
  <2>1. \A q \in Player : pump[q] = "waking" => pump'[q] = "waking"
    BY <1>8 DEF ReadPark, TypeOK
  <2> QED BY <1>8, <2>1 DEF ReadPark, TypeOK
<1>9. ASSUME NEW p \in Player, Park(p) PROVE ArrivalIsNotMissed'
  <2>1. \A q \in Player : pump[q] = "waking" => pump'[q] = "waking"
    BY <1>9 DEF Park, ParkNow, ResumeNow, ParkLater, ResumeLater, TypeOK
  <2>2. \A q \in Crowd' : q \in Crowd \/ pump'[q] = "waking"
    BY <1>9 DEF Park, ParkNow, ResumeNow, ParkLater, ResumeLater, TypeOK
  <2> QED BY <1>9, <2>1, <2>2 DEF Park, TypeOK
<1>10. CASE UNCHANGED vars
  BY <1>10
<1> QED
  BY <1>1, <1>2, <1>3, <1>4, <1>5, <1>6, <1>7, <1>8, <1>9, <1>10 DEF Next

\* The phase says armed from the arm to the end of the window, or of the game.
LEMMA NextArmed ==
  ASSUME LoopInv, [Next]_vars
  PROVE  phase' = "armed" => \/ pc' \in {"armed", "over"}
                             \/ pc' = "checks" /\ round' = Rounds
<1> USE DEF LoopInv, FrozenWhileArmed, engineVars, vars
<1>1. CASE Engine
  BY <1>1 DEF Engine, CheckCrowd, Woken, StartGame, Announce, ApplyDeferred, Stamp,
     ArmingDone, Judge, Bench, Arm, CloseWindow, ResultShown, Checks, GameOver,
     IntermissionDone
<1>2. CASE StrayClick \/ UNCHANGED vars
  BY <1>2 DEF StrayClick
<1>3. ASSUME NEW p \in Player,
             \/ Score(p) \/ Answer(p) \/ Connect(p) \/ Disconnect(p)
             \/ Wake(p) \/ Cursor(p) \/ ReadPark(p) \/ Park(p)
      PROVE  UNCHANGED <<pc, phase, round>>
  BY <1>3 DEF Score, Answer, Connect, Disconnect, Wake, Cursor, ReadPark, Park
<1> QED BY <1>1, <1>2, <1>3 DEF Next

\* The roster that was frozen and who is parked: both change together only at the
\* arm.  The engine parks nobody while anything is frozen, and a read pump that
\* reads a park frame then defers it.
LEMMA NextFrozen ==
  ASSUME LoopInv, [Next]_vars
  PROVE  /\ RosterIsFrozen'
         /\ phase' # "armed" => frozenIn' = {} /\ frozenOut' = {}
         /\ \A p \in frozenIn' \cup frozenOut' : ~Acting(p)'
<1> USE DEF LoopInv, RosterIsFrozen, FrozenWhileArmed, Acting, roster, engineVars,
            clientVars, history, vars
<1>1. CASE Arm
  BY <1>1 DEF Arm, Freeze, Crowd
<1>2. CASE CheckCrowd \/ Announce \/ CloseWindow \/ GameOver
  BY <1>2 DEF CheckCrowd, Announce, CloseWindow, GameOver
<1>3. CASE ApplyDeferred \/ Stamp \/ Judge \/ \E p \in Player : Bench(p)
  BY <1>3 DEF ApplyDeferred, Deferred, Stamp, Judge, Bench
<1>4. CASE \/ Woken \/ StartGame \/ ArmingDone \/ ResultShown \/ Checks
           \/ IntermissionDone \/ StrayClick \/ UNCHANGED vars
  BY <1>4 DEF Woken, StartGame, ArmingDone, ResultShown, Checks, IntermissionDone,
     StrayClick
<1>5. ASSUME NEW p \in Player, Connect(p) \/ Disconnect(p) \/ Wake(p)
      PROVE  /\ RosterIsFrozen'
             /\ phase' # "armed" => frozenIn' = {} /\ frozenOut' = {}
             /\ \A q \in frozenIn' \cup frozenOut' : ~Acting(q)'
  BY <1>5 DEF Connect, Disconnect, Wake, TypeOK
<1>6. ASSUME NEW p \in Player, Score(p) \/ Answer(p) \/ Cursor(p)
      PROVE  /\ RosterIsFrozen'
             /\ phase' # "armed" => frozenIn' = {} /\ frozenOut' = {}
             /\ \A q \in frozenIn' \cup frozenOut' : ~Acting(q)'
  BY <1>6 DEF Score, Answer, Cursor
<1>7. ASSUME NEW p \in Player, ReadPark(p)
      PROVE  /\ RosterIsFrozen'
             /\ phase' # "armed" => frozenIn' = {} /\ frozenOut' = {}
             /\ \A q \in frozenIn' \cup frozenOut' : ~Acting(q)'
  BY <1>7 DEF ReadPark, TypeOK
<1>8. ASSUME NEW p \in Player, Park(p)
      PROVE  /\ RosterIsFrozen'
             /\ phase' # "armed" => frozenIn' = {} /\ frozenOut' = {}
             /\ \A q \in frozenIn' \cup frozenOut' : ~Acting(q)'
  <2>1. CASE ParkNow(p) \/ ResumeNow(p)
    BY <1>8, <2>1 DEF Park, ParkNow, ResumeNow, TypeOK
  <2>2. CASE ParkLater(p) \/ ResumeLater(p)
    BY <1>8, <2>2 DEF Park, ParkLater, ResumeLater, TypeOK
  <2> QED BY <1>8, <2>1, <2>2 DEF Park
<1> QED
  BY <1>1, <1>2, <1>3, <1>4, <1>5, <1>6, <1>7, <1>8 DEF Next, Engine

\* Only the AFK pass counts a verdict, of players not yet on the list, and only
\* the end of the game clears either.
LEMMA NextFlags ==
  ASSUME LoopInv, [Next]_vars
  PROVE  FlagsCountFired'
<1> USE DEF LoopInv, FlagsCountFired, engineVars, clientVars, history, vars
<1>1. CASE Judge
  BY <1>1 DEF Judge, Still, TypeOK
<1>2. CASE GameOver
  BY <1>2 DEF GameOver
<1>3. CASE Engine /\ ~Judge /\ ~GameOver
  BY <1>3 DEF Engine, CheckCrowd, Woken, StartGame, Announce, ApplyDeferred, Stamp,
     ArmingDone, Arm, Bench, CloseWindow, ResultShown, Checks, IntermissionDone
<1>4. ASSUME NEW p \in Player,
             \/ Score(p) \/ Answer(p) \/ Connect(p) \/ Disconnect(p)
             \/ Wake(p) \/ Cursor(p) \/ ReadPark(p) \/ Park(p)
      PROVE  FlagsCountFired'
  BY <1>4 DEF Score, Answer, Connect, Disconnect, Wake, Cursor, ReadPark, Park
<1>5. CASE StrayClick \/ UNCHANGED vars
  BY <1>5 DEF StrayClick
<1> QED BY <1>1, <1>2, <1>3, <1>4, <1>5 DEF Next

\* The hub forgets a cursor only with the round it was sent in, or with the
\* connection that sent it.
LEMMA NextPointed ==
  ASSUME LoopInv, [Next]_vars
  PROVE  PointedIsKnown'
<1> USE DEF LoopInv, PointedIsKnown, engineVars, clientVars, history, vars
<1>1. CASE Stamp
  BY <1>1 DEF Stamp
<1>2. CASE Checks
  BY <1>2 DEF Checks, Busted
<1>3. CASE Engine /\ ~Stamp /\ ~Checks
  BY <1>3 DEF Engine, CheckCrowd, Woken, StartGame, Announce, ApplyDeferred, Judge,
     ArmingDone, Arm, Bench, CloseWindow, ResultShown, GameOver, IntermissionDone
<1>4. ASSUME NEW p \in Player, Connect(p) \/ Disconnect(p) \/ Cursor(p)
      PROVE  PointedIsKnown'
  BY <1>4 DEF Connect, Disconnect, Cursor, TypeOK
<1>5. ASSUME NEW p \in Player,
             Score(p) \/ Answer(p) \/ Wake(p) \/ ReadPark(p) \/ Park(p)
      PROVE  PointedIsKnown'
  BY <1>5 DEF Score, Answer, Wake, ReadPark, Park
<1>6. CASE StrayClick \/ UNCHANGED vars
  BY <1>6 DEF StrayClick
<1> QED BY <1>1, <1>2, <1>3, <1>4, <1>5, <1>6 DEF Next

-----------------------------------------------------------------------------
LEMMA LoopInvHolds == Spec => []LoopInv
<1>1. LoopInv /\ [Next]_vars => LoopInv'
  BY NextType, NextArrival, NextArmed, NextFrozen, NextFlags, NextPointed
  DEF LoopInv, FrozenWhileArmed
<1> QED BY InitHolds, <1>1, PTL DEF Spec

\* The state of the loop and of the connections is of its type, and what the
\* hub keeps about a player (parked, park wishes, AFK stamp, place in the
\* window) is kept for connected players only.
THEOREM AlwaysTyped == Spec => []TypeOK
<1>1. LoopInv => TypeOK
  BY DEF LoopInv
<1> QED BY <1>1, LoopInvHolds, PTL

\* waitForPlayers against Wake: while the engine waits with someone in the crowd
\* there is a token in the channel, or every one of them is about to send one.
THEOREM ArrivalNeverMissed == Spec => []ArrivalIsNotMissed
<1>1. LoopInv => ArrivalIsNotMissed
  BY DEF LoopInv
<1> QED BY <1>1, LoopInvHolds, PTL

\* The roster frozen at the arm: while the phase says armed, the park handler and
\* the engine neither park nor let in anybody but those whose park frame was read
\* before the arm, and those who connected since.
THEOREM RosterStaysFrozen == Spec => []RosterIsFrozen
<1>1. LoopInv => RosterIsFrozen
  BY DEF LoopInv
<1> QED BY <1>1, LoopInvHolds, PTL

\* checkAfk's once-per-game cap: whatever a player answers, resumes or rejoins.
THEOREM FlaggedOnce == Spec => []FlaggedOncePerGame
<1>1. LoopInv => FlaggedOncePerGame
  BY DEF LoopInv, TypeOK, FlagsCountFired, FlaggedOncePerGame
<1> QED BY <1>1, LoopInvHolds, PTL

\* checkBusted never accuses a player whose connection sent a cursor this round.
THEOREM BustedIsFair == Spec => []BustedSentNoCursor
<1>1. LoopInv => BustedSentNoCursor
  BY DEF LoopInv, PointedIsKnown, BustedSentNoCursor
<1> QED BY <1>1, LoopInvHolds, PTL
=============================================================================
