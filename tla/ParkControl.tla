----------------------------- MODULE ParkControl -----------------------------
(***************************************************************************)
(* The pause control end to end: what one player's client shows            *)
(* (ClickController.TogglePark and the frames that set Parked, ParkPending *)
(* and Resuming), its read pump's park handler, and the engine goroutine,  *)
(* which applies deferred requests and parks for AFK, all store by store.  *)
(*                                                                         *)
(* GameLoop has the same flags among several players, with                 *)
(* applyDeferredPark as one step and no client.  Here there is always      *)
(* somebody else to play with, so the loop goes on.  A frame that meets a  *)
(* full channel is dropped, the park notification included.                *)
(***************************************************************************)
EXTENDS Naturals, Sequences

CONSTANTS MaxUp,        \* bound: park frames on their way to the server
          MaxDown,      \* capacity of Client.send
          MaxReconnect  \* bound: reconnects

ASSUME ParkAssumption == {MaxUp, MaxDown} \subseteq Nat \ {0} /\ MaxReconnect \in Nat

VARIABLES pc,          \* where the engine is in its round
          phase,       \* Engine.phase, as published
          listed,      \* the clients that Hub.Pending or Hub.Park has
                       \* taken out of the registry are this connection
          parked, parkWant, resumeWant,  \* Client's flags
          eligible,    \* Client.pendSeen = Hub.pendGen
          pump,        \* what the read pump is about to do
          up, down,    \* the socket: park frames, and frames to the client
          cArmed,      \* the client: Phase = Armed
          cParked, cPending, cResuming,  \* its Parked, ParkPending, Resuming
          byEngine,    \* history: the engine parked the connection
          unheard,     \* history: ... and the frame that says so was dropped
          overtaken,   \* history: the client was parked again after its RESUME
          reconnects

flags == <<parked, parkWant, resumeWant, eligible>>
server == <<pc, phase, listed, flags, byEngine>>
client == <<cArmed, cParked, cPending, cResuming>>
vars == <<server, pump, up, down, client, unheard, overtaken, reconnects>>

Init ==
  /\ pc = "window" /\ phase = "armed" /\ listed = FALSE
  /\ parked = FALSE /\ parkWant = FALSE /\ resumeWant = FALSE /\ eligible = FALSE
  /\ pump = "idle" /\ up = <<>> /\ down = <<>>
  /\ cArmed = TRUE /\ cParked = FALSE /\ cPending = FALSE /\ cResuming = FALSE
  /\ byEngine = FALSE /\ unheard = FALSE /\ overtaken = FALSE /\ reconnects = 0

-----------------------------------------------------------------------------
\* Mutant: the park notification is withheld like everything else.
SentWithheld(frame) == ~parked

\* enqueue: frames are withheld from a parked connection, except this one ...
Sent(frame) == frame = "park" \/ ~parked

\* ... and dropped, this one too, when the channel is full.
Full == Len(down) = MaxDown

Send(frame) == down' = IF Sent(frame) /\ ~Full THEN Append(down, frame) ELSE down

Goto(from, to) == pc = from /\ pc' = to

\* pending: the phase is published, and Hub.Pending lists the clients.
Publish ==
  /\ Goto("publish", "swapResume")
  /\ phase' = "pending" /\ listed' = TRUE
  /\ UNCHANGED <<flags, byEngine, down>>

\* applyDeferredPark, store by store: resumeWant.Swap(false) ...
SwapResume ==
  /\ pc = "swapResume"
  /\ pc' = IF listed /\ resumeWant THEN "dropPark" ELSE "swapPark"
  /\ resumeWant' = (resumeWant /\ ~listed)
  /\ UNCHANGED <<phase, listed, parked, parkWant, eligible, byEngine, down>>

DropPark ==
  /\ Goto("dropPark", "unpark")
  /\ parkWant' = (parkWant /\ ~listed)
  /\ UNCHANGED <<phase, listed, parked, resumeWant, eligible, byEngine, down>>

\* Mutant: a deferred resume takes the requests back and leaves the client parked.
UnparkForgotten ==
  /\ Goto("unpark", "stamp")
  /\ UNCHANGED <<phase, listed, parked, byEngine, parkWant, resumeWant, eligible, down>>

Unpark ==
  /\ Goto("unpark", "stamp")
  /\ parked' = (parked /\ ~listed) /\ byEngine' = (byEngine /\ ~listed)
  /\ UNCHANGED <<phase, listed, parkWant, resumeWant, eligible, down>>

\* ... or parkWant.Swap(false), and parked.Swap(true) with its notification.
SwapPark ==
  /\ pc = "swapPark"
  /\ pc' = IF listed /\ parkWant THEN "park" ELSE "stamp"
  /\ parkWant' = (parkWant /\ ~listed)
  /\ UNCHANGED <<phase, listed, parked, resumeWant, eligible, byEngine, down>>

\* parked.Swap(true), of a connection the engine holds, and who is told of it.
ParkThen(tell, next) ==
  /\ pc' = IF listed /\ ~parked THEN tell ELSE next
  /\ parked' = (parked \/ listed) /\ byEngine' = (byEngine \/ (listed /\ ~parked))
  /\ UNCHANGED <<phase, listed, parkWant, resumeWant, eligible, down>>

ParkDeferred == pc = "park" /\ ParkThen("tell", "stamp")

Tell ==
  /\ Goto("tell", "stamp") \/ Goto("tellAfk", "arm")
  /\ IF listed THEN Send("park") ELSE UNCHANGED down
  /\ listed' = (listed /\ pc = "tell")
  /\ UNCHANGED <<phase, flags, byEngine>>

\* Who is not parked is stamped present, and round_pending goes out.
Stamp ==
  /\ Goto("stamp", "announce")
  /\ eligible' = IF listed THEN ~parked ELSE eligible
  /\ UNCHANGED <<phase, listed, parked, parkWant, resumeWant, byEngine, down>>

Announce ==
  /\ Goto("announce", "arming")
  /\ IF listed THEN Send("round_pending") ELSE UNCHANGED down
  /\ listed' = FALSE
  /\ UNCHANGED <<phase, flags, byEngine>>

\* The AFK pass, for who was present for the whole arming wait ...
Judge ==
  /\ pc = "arming"
  /\ pc' = "arm" \/ (eligible /\ ~parked /\ pc' = "bench")
  /\ eligible' = FALSE
  /\ UNCHANGED <<phase, listed, parked, parkWant, resumeWant, byEngine, down>>

\* ... and Hub.Park, which looks the account's connection up again.
Bench ==
  /\ pc = "bench"
  /\ pc' = IF parked THEN "arm" ELSE "tellAfk"
  /\ parked' = TRUE /\ byEngine' = (byEngine \/ ~parked) /\ listed' = ~parked
  /\ UNCHANGED <<phase, parkWant, resumeWant, eligible, down>>

Arm ==
  /\ Goto("arm", "open") /\ phase' = "armed"
  /\ UNCHANGED <<listed, flags, byEngine, down>>

\* Hub.Armed; a benched player does not get the frame.
Open ==
  /\ Goto("open", "window")
  /\ Send("armed") \/ UNCHANGED down
  /\ UNCHANGED <<phase, listed, flags, byEngine>>

\* The window closes; the last round's phase stays armed until game_over is out.
Close ==
  /\ \/ Goto("window", "result") /\ phase' = "result"
     \/ Goto("window", "over") /\ UNCHANGED phase
  /\ UNCHANGED <<listed, flags, byEngine, down>>

\* round_result and game_over, which do the same to the pause control.
Result ==
  /\ Goto("result", "publish") \/ Goto("over", "intermission")
  /\ Send("result")
  /\ UNCHANGED <<phase, listed, flags, byEngine>>

Intermission ==
  /\ Goto("intermission", "publish") /\ phase' = "intermission"
  /\ UNCHANGED <<listed, flags, byEngine, down>>

Engine ==
  /\ \/ Publish \/ SwapResume \/ DropPark \/ Unpark \/ SwapPark \/ ParkDeferred
     \/ Tell \/ Stamp \/ Announce \/ Judge \/ Bench \/ Arm \/ Open \/ Close
     \/ Result \/ Intermission
  /\ unheard' = (byEngine' /\ IF pc \in {"tell", "tellAfk"} THEN listed /\ Full ELSE unheard)
  /\ overtaken' = (overtaken \/ (cResuming /\ pc = "bench" /\ ~parked))
  /\ UNCHANGED <<pump, up, client, reconnects>>

-----------------------------------------------------------------------------
\* The park handler reads the phase ...
ReadPark ==
  /\ pump = "idle" /\ up # <<>>
  /\ up' = Tail(up)
  /\ pump' = IF phase = "armed" THEN (IF Head(up) = "on" THEN "parkLater" ELSE "resumeLater")
             ELSE (IF Head(up) = "on" THEN "parkNow" ELSE "resumeNow")
  /\ UNCHANGED <<flags, byEngine, overtaken>>

\* ... and acts.  A deferred request withdraws the opposite one before it.
Withdraw ==
  /\ \/ pump = "parkLater" /\ pump' = "wantPark"
        /\ resumeWant' = FALSE /\ UNCHANGED parkWant
     \/ pump = "resumeLater" /\ pump' = "wantResume"
        /\ parkWant' = FALSE /\ UNCHANGED resumeWant
  /\ UNCHANGED <<up, parked, eligible, byEngine, overtaken>>

Want ==
  /\ pump' = "idle"
  /\ \/ pump = "wantPark" /\ parkWant' = TRUE /\ UNCHANGED resumeWant
     \/ pump = "wantResume" /\ resumeWant' = TRUE /\ UNCHANGED parkWant
  /\ UNCHANGED <<up, parked, eligible, byEngine, overtaken>>

\* Outside the window it takes effect at once and leaves the deferred one alone.
ActNow ==
  /\ pump' = "idle"
  /\ \/ pump = "parkNow" /\ parked' = TRUE /\ UNCHANGED <<byEngine, overtaken>>
     \/ pump = "resumeNow" /\ parked' = FALSE /\ byEngine' = FALSE
        /\ overtaken' = (overtaken \/ (cResuming /\ (parkWant \/ pc = "park")))
  /\ UNCHANGED <<up, parkWant, resumeWant, eligible>>

Pump ==
  /\ ReadPark \/ Withdraw \/ Want \/ ActNow
  /\ unheard' = (unheard /\ byEngine')
  /\ UNCHANGED <<pc, phase, listed, down, client, reconnects>>

-----------------------------------------------------------------------------
\* TogglePark.
Resume ==
  /\ cParked \/ cPending
  /\ cPending' = FALSE /\ cResuming' = TRUE
  /\ up' = Append(up, "off")
  /\ UNCHANGED <<cParked, overtaken>>

Pause ==
  /\ ~cParked /\ ~cPending
  /\ cPending' = cArmed /\ cParked' = ~cArmed /\ cResuming' = FALSE
  /\ up' = Append(up, "on")
  /\ overtaken' = FALSE

Press ==
  /\ Len(up) < MaxUp
  /\ Resume \/ Pause
  /\ UNCHANGED <<server, pump, down, cArmed, unheard, reconnects>>

\* OnMessage, as far as it concerns the pause control.
Receive ==
  /\ down # <<>>
  /\ down' = Tail(down)
  /\ cArmed' = (Head(down) = "armed" \/ (Head(down) = "park" /\ cArmed))
  /\ cParked' = (Head(down) = "park" \/ (Head(down) = "result" /\ cParked))
  /\ cPending' = (Head(down) = "result" /\ cPending)
  /\ cResuming' = (Head(down) \in {"result", "park"} /\ cResuming)
  /\ overtaken' = (overtaken /\ cResuming')
  /\ UNCHANGED <<server, pump, up, unheard, reconnects>>

\* The client reconnects: a fresh Client on the server, and its hello, which
\* leaves the client waiting even if a window is open.
Reconnect ==
  /\ reconnects < MaxReconnect
  /\ reconnects' = reconnects + 1
  /\ listed' = FALSE /\ pump' = "idle" /\ up' = <<>>
  /\ down' = <<"hello">>
  /\ parked' = FALSE /\ parkWant' = FALSE /\ resumeWant' = FALSE /\ eligible' = FALSE
  /\ byEngine' = FALSE /\ unheard' = FALSE /\ overtaken' = FALSE /\ cArmed' = FALSE
  /\ UNCHANGED <<pc, phase, cParked, cPending, cResuming>>

Next == Engine \/ Pump \/ Press \/ Receive \/ Reconnect

\* The engine's timers fire, and the read pump and the client handle what they
\* have received.  Nobody is obliged to press anything.
Spec == Init /\ [][Next]_vars /\ WF_vars(Engine) /\ WF_vars(Pump) /\ WF_vars(Receive)

-----------------------------------------------------------------------------
(***************************************************************************)
(* Properties                                                              *)
(***************************************************************************)

\* Whom the engine parks, for AFK or by a deferred PAUSE, is shown the paused
\* overlay or is unparked again, unless the frame that says so was dropped: it is
\* sent once, and nothing is after it.  Whatever RESUMEs, reconnects and withheld
\* frames come in between, nothing else leaves a player out of the game in front
\* of a screen that looks alive.
EngineParkIsSeen == byEngine ~> (cParked \/ ~parked \/ unheard)

\* Not every round_pending meets a full channel: the client keeps up now and then.
RoomForPending == []<>(pc = "announce" /\ ~Full)

\* A RESUME brings the player back on a next round_pending that gets through,
\* however its stores and the engine's interleave, unless the AFK pass parks the
\* player again or a deferred PAUSE was left standing.
ResumeBringsBack == RoomForPending => (cResuming ~> (~cResuming \/ overtaken))

\* "Cleared when that round_pending lands (which clears Parked)", says the client
\* of Resuming; while it waits the overlay reads "you'll be back on the next
\* button" and has no RESUME.  Two things park the player again in between, and
\* the park frame leaves Resuming set: the AFK pass, if PAUSE and RESUME fall in
\* one arming wait, in which a paused client sends no cursors; and a PAUSE of the
\* window that was taken back outside it, which the next boundary still applies.
\* It does not take a dropped frame.
RejoinLands == RoomForPending => (cResuming ~> ~cResuming)
==============================================================================
