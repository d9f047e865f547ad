------------------------------ MODULE Sanctions ------------------------------
(***************************************************************************)
(* The anticheat ladder of one bounty (internal/game/engine.go): a flagged *)
(* player is benched behind a math test; from CheckCooldownThreshold flags *)
(* it gets a timed cooldown; CheckIgnoreAfter flags later it is ignored    *)
(* until the bounty resolves.  The Run goroutine owns the ladder.  Every   *)
(* row is written to the store by a goroutine of its own, an admin edits   *)
(* rows from the HTTP side through a bounded channel, players answer their *)
(* tests through another, and a client shows what the last `test` frame    *)
(* that reached it said (ClickController.OnMessage).                       *)
(*                                                                         *)
(* `stage` is where the Run goroutine is in a game, and so what it listens *)
(* to.  Which checks fire is not modelled: any connected player that is    *)
(* not blocked may be flagged.  A row's deadline is 0 if it has none, 1 if *)
(* it has passed, and above that counts the deadlines up to it.  A bounty  *)
(* is always active.  The copy of the ladder published for the admin's     *)
(* readers (sanctionSnap) is left out.                                     *)
(***************************************************************************)
EXTENDS Integers, Sequences, FiniteSetsExt

CONSTANTS Player,
          Threshold,   \* Config.CheckCooldownThreshold
          Grace,       \* Config.CheckIgnoreAfter
          MaxBump,     \* distinct checks one round can trip
          ExtBuf,      \* capacity of Engine.extSanction
          AnswerBuf,   \* capacity of Engine.answers
          MaxBounty, MaxCheck, MaxWrite,  \* bounds
          MaxUpset     \* bound: edits, changes of bounty and crashes together

ASSUME SanctionAssumption ==
         /\ IsFiniteSet(Player)
         /\ Threshold \in Nat \ {0} /\ Grace \in Nat \ {0}
         /\ MaxBump \in Nat \ {0}
         /\ ExtBuf \in Nat \ {0} /\ AnswerBuf \in Nat \ {0}
         /\ MaxBounty \in Nat \ {0} /\ MaxCheck \in Nat
         /\ MaxWrite \in Nat /\ MaxUpset \in Nat

VARIABLES stage,
          sanctions,     \* Engine.sanctions: player -> row; Clean if absent
          underTest,     \* Engine.underTest
          pendingTests,  \* Engine.pendingTests: player -> test id, 0 if none
          notified,      \* Engine.notified: player -> rung, "none" if absent
          cur,           \* Engine.curBountyID; 0 until bountyLoaded
          answers, ext,  \* the engine's channels
          link,          \* a player's connection: "off", "on" or "parked"
          overlay,       \* client: the rung its overlay shows, and the test's id
          active,        \* the active bounty, as the cache knows it
          saved,         \* anticheat_sanctions: bounty -> player -> row
          writes,        \* rows on their way to the store
          editing,       \* an admin's edit between the store and the engine
          upsets         \* bound: edits, changes of bounty and crashes so far

engineVars == <<sanctions, underTest, pendingTests, notified, cur>>
storeVars  == <<active, saved, writes, editing, upsets>>
vars == <<stage, engineVars, answers, ext, link, overlay, storeVars>>

Clean == [checks |-> 0, ignored |-> FALSE, cool |-> 0]
Row   == [checks : Nat, ignored : BOOLEAN, cool : Nat]
Dark  == [rung |-> "none", id |-> 0]

\* now.Before(*s.CooldownUntil)
Cooling(s) == s.cool > 1

Blocked == underTest \cup {p \in Player : sanctions[p].ignored \/ Cooling(sanctions[p])}

-----------------------------------------------------------------------------
(* Rows and frames.                                                        *)

Rows == {sanctions[p] : p \in Player} \cup {saved[b][p] : b \in 1..MaxBounty, p \in Player}
          \cup {w.row : w \in writes} \cup {e.row : e \in editing}
          \cup {ext[i].row : i \in DOMAIN ext}

\* Cooldowns all last as long, so a new deadline is the last one of all.
NewDeadline == 1 + Max({1} \cup {s.cool : s \in Rows})
Nearer(s)   == IF Cooling(s) THEN [s EXCEPT !.cool = @ - 1] ELSE s

\* Mutant: the cooldown is looked at before the ignore threshold.
RungAfterCoolFirst(s, bump) ==
  LET c == s.checks + bump
  IN  IF c >= Threshold /\ s.cool = 0
      THEN [s EXCEPT !.checks = c, !.cool = NewDeadline]
      ELSE [s EXCEPT !.checks = c, !.ignored = s.ignored \/ c >= Threshold + Grace]

\* applySanctionN: the row after so many more flags.
RungAfter(s, bump) ==
  LET c == s.checks + bump
  IN  IF c >= Threshold + Grace THEN [s EXCEPT !.checks = c, !.ignored = TRUE]
      ELSE IF c >= Threshold /\ s.cool = 0
           THEN [s EXCEPT !.checks = c, !.cool = NewDeadline]
           ELSE [s EXCEPT !.checks = c]

\* SanctionForChecks: the row an admin's flag count lands on.
RowFor(c) ==
  [checks  |-> c,
   ignored |-> c >= Threshold + Grace,
   cool    |-> IF c \in Threshold..(Threshold + Grace - 1) THEN NewDeadline ELSE 0]

\* What the client of a player with row s, benched or not, is told.
RungOf(s, benched) ==
  IF s.ignored THEN "ignored"
  ELSE IF Cooling(s) THEN "cooldown"
  ELSE IF benched THEN "test" ELSE "none"

\* Hub.SendTest: a parked connection's frames are withheld.
Shown(p, frame) == IF link[p] = "on" THEN frame ELSE overlay[p]

\* newTest's id is a random nonce: one that nothing in the system refers to.
Fresh(p) ==
  LET used == {pendingTests[p], overlay[p].id} \cup {answers[i].id : i \in DOMAIN answers}
  IN  CHOOSE i \in 1..(AnswerBuf + 3) :
        i \notin used /\ \A j \in 1..(i - 1) : j \in used

\* Who is told what, given the rungs and the outstanding tests.
Told(p, rung, tests) == Shown(p, [rung |-> rung, id |-> IF rung = "test" THEN tests[p] ELSE 0])

\* Mutant: the cooldown's end is not announced.
ReconciledQuietly(bench, asked, rows) ==
  LET rung(p) == RungOf(rows[p], p \in bench)
  IN  /\ pendingTests' = [p \in Player |->
           IF p \in bench /\ asked[p] = 0 THEN Fresh(p) ELSE asked[p]]
      /\ notified' = [p \in Player |-> rung(p)]
      /\ overlay' = [p \in Player |->
           IF rung(p) # "none" THEN Told(p, rung(p), pendingTests') ELSE overlay[p]]

\* notifySanctions, with these benched, asked and rows: tests are issued where
\* one is missing, everyone on a rung is told of it, and everyone told of one
\* before who has left it gets a clear.
Reconciled(bench, asked, rows) ==
  LET rung(p) == RungOf(rows[p], p \in bench)
  IN  /\ pendingTests' = [p \in Player |->
           IF p \in bench /\ asked[p] = 0 THEN Fresh(p) ELSE asked[p]]
      /\ notified' = [p \in Player |-> rung(p)]
      /\ overlay' = [p \in Player |->
           IF rung(p) # "none" THEN Told(p, rung(p), pendingTests')
           ELSE IF notified[p] # "none" THEN Shown(p, Dark) ELSE overlay[p]]

-----------------------------------------------------------------------------
(* The Run goroutine.                                                      *)

Init ==
  /\ stage = "idle"
  /\ sanctions = [p \in Player |-> Clean]
  /\ underTest = {} /\ pendingTests = [p \in Player |-> 0]
  /\ notified = [p \in Player |-> "none"] /\ cur = 0
  /\ answers = <<>> /\ ext = <<>>
  /\ link = [p \in Player |-> "off"] /\ overlay = [p \in Player |-> Dark]
  /\ active = 1 /\ saved = [b \in 1..MaxBounty |-> [p \in Player |-> Clean]]
  /\ writes = {} /\ editing = {} /\ upsets = 0

\* syncBounty at the start of a game; loading the new bounty's rows may fail.
SyncBounty ==
  /\ stage \in {"idle", "intermission"}
  /\ stage' = "announce"
  /\ IF cur = active
     THEN UNCHANGED <<engineVars, overlay>>
     ELSE /\ overlay' = [p \in Player |->
               IF p \in underTest \/ sanctions[p].ignored \/ sanctions[p].cool # 0
               THEN Shown(p, Dark) ELSE overlay[p]]
          /\ underTest' = {} /\ pendingTests' = [p \in Player |-> 0]
          /\ notified' = [p \in Player |-> "none"]
          /\ cur' = active
          /\ \/ sanctions' = saved[active]
             \/ sanctions' = [p \in Player |-> Clean]
  /\ UNCHANGED <<answers, ext, link, active, saved, writes, editing,
                 upsets>>

\* pending: notifySanctions, and the arming wait begins.
Announce ==
  /\ stage = "announce"
  /\ stage' = "arming"
  /\ Reconciled(underTest, pendingTests, sanctions)
  /\ UNCHANGED <<sanctions, underTest, cur, answers, ext,
                 link, storeVars>>

ArmingDone ==
  /\ stage = "arming"
  /\ stage' = "afk"
  /\ UNCHANGED <<engineVars, answers, ext, link, overlay, storeVars>>

\* The armed frame goes to those who are not blocked; it clears a test.
Arm ==
  /\ stage = "afk"
  /\ stage' = "armed"
  /\ overlay' = [p \in Player |->
       IF p \notin Blocked /\ overlay[p].rung = "test" THEN Shown(p, Dark) ELSE overlay[p]]
  /\ UNCHANGED <<engineVars, answers, ext, link, storeVars>>

\* The window closes: the result is shown, except in a game's last round.
CloseWindow ==
  /\ stage = "armed"
  /\ stage' \in {"result", "checks"}
  /\ UNCHANGED <<engineVars, answers, ext, link, overlay, storeVars>>

ResultShown ==
  /\ stage = "result"
  /\ stage' = "checks"
  /\ UNCHANGED <<engineVars, answers, ext, link, overlay, storeVars>>

ChecksDone ==
  /\ stage = "checks"
  /\ stage' \in {"announce", "intermission"}
  /\ UNCHANGED <<engineVars, answers, ext, link, overlay, storeVars>>

GoIdle ==
  /\ stage = "intermission"
  /\ stage' = "idle"
  /\ UNCHANGED <<engineVars, answers, ext, link, overlay, storeVars>>

\* Mutant: whatever rung the flag led to, the player is benched.
BenchAnyway(p, s) == underTest' = underTest \cup {p} /\ UNCHANGED pendingTests

\* A flag benches on the test rung; the rungs above have no test to answer.
Bench(p, s) ==
  IF RungOf(s, TRUE) = "test"
  THEN underTest' = underTest \cup {p} /\ UNCHANGED pendingTests
  ELSE underTest' = underTest \ {p} /\ pendingTests' = [pendingTests EXCEPT ![p] = 0]

\* applySanctionN with persistSanction and publishSanctions; the AFK pass
\* raises one flag and parks the player.
Flag(p, bump) ==
  LET s == RungAfter(sanctions[p], bump)
  IN  /\ \/ stage = "afk" /\ bump = 1 /\ link[p] = "on"
         \/ stage = "checks" /\ link[p] # "off"
      /\ p \notin Blocked
      /\ s.checks <= MaxCheck /\ Cardinality(writes) < MaxWrite
      /\ sanctions' = [sanctions EXCEPT ![p] = s]
      /\ Bench(p, s)
      /\ writes' = writes \cup {[bounty |-> cur, player |-> p, row |-> s]}
      /\ link' = IF stage = "afk" THEN [link EXCEPT ![p] = "parked"] ELSE link
      /\ UNCHANGED <<stage, notified, cur, answers, ext, overlay,
                     active, saved, editing, upsets>>

\* Mutant: any question's answer will do.
SettlesAny(ans) == pendingTests[ans.player] # 0

\* handleAnswer's guard: only the outstanding test can be answered.
Settles(ans) == pendingTests[ans.player] # 0 /\ pendingTests[ans.player] = ans.id

\* handleAnswer; waitForPlayers throws answers away.
TakeAnswer ==
  /\ stage \in {"idle", "arming", "armed", "result", "intermission"}
  /\ answers # <<>>
  /\ answers' = Tail(answers)
  /\ LET ans == Head(answers)
         p   == ans.player
     IN  IF stage = "idle" \/ ~Settles(ans)
         THEN UNCHANGED <<underTest, pendingTests, notified, overlay>>
         ELSE IF ans.correct
         THEN /\ underTest' = underTest \ {p}
              /\ pendingTests' = [pendingTests EXCEPT ![p] = 0]
              /\ notified' = [notified EXCEPT ![p] = "none"]
              /\ overlay' = [overlay EXCEPT ![p] = Shown(p, Dark)]
         ELSE /\ pendingTests' = [pendingTests EXCEPT ![p] = Fresh(p)]
              /\ overlay' = [overlay EXCEPT ![p] = Told(p, "test", pendingTests')]
              /\ UNCHANGED <<underTest, notified>>
  /\ UNCHANGED <<stage, sanctions, cur, ext, link, storeVars>>

\* applyExternalSanction; the race loop does not listen to it.
TakeExternal ==
  /\ stage \in {"idle", "arming", "result", "intermission"}
  /\ ext # <<>>
  /\ ext' = Tail(ext)
  /\ LET ev == Head(ext)
     IN  /\ underTest' = underTest \ {ev.player}
         /\ sanctions' = [sanctions EXCEPT ![ev.player] = ev.row]
         /\ Reconciled(underTest', [pendingTests EXCEPT ![ev.player] = 0], sanctions')
     /\ UNCHANGED <<stage, cur, answers, link, storeVars>>

-----------------------------------------------------------------------------
(* The players, the admin, the store and the clock.                        *)

\* SubmitAnswer and SetSanction: what a full channel cannot take is dropped.
Offered(q, cap, x) == IF Len(q) < cap THEN Append(q, x) ELSE q

\* SubmitTestAnswer, right or wrong.
Answer(p, correct) ==
  /\ link[p] # "off" /\ overlay[p].rung = "test"
  /\ answers' = Offered(answers, AnswerBuf,
                        [player |-> p, id |-> overlay[p].id, correct |-> correct])
  /\ UNCHANGED <<stage, engineVars, ext, link, overlay, storeVars>>

\* A socket opens, on a game client that was running all along or was started
\* afresh; it closes; it is parked; it resumes.
Relink(p, l) ==
  /\ link[p] # l
  /\ l = "parked" => link[p] = "on"
  /\ link' = [link EXCEPT ![p] = l]
  /\ \/ UNCHANGED overlay
     \/ link[p] = "off" /\ overlay' = [overlay EXCEPT ![p] = Dark]
  /\ UNCHANGED <<stage, engineVars, answers, ext, storeVars>>

\* adminPlayerChecks: the row is stored under the active bounty ...
AdminSave(p, c) ==
  /\ upsets < MaxUpset /\ editing = {}
  /\ upsets' = upsets + 1
  /\ saved' = [saved EXCEPT ![active][p] = RowFor(c)]
  /\ editing' = {[player |-> p, row |-> RowFor(c)]}
  /\ UNCHANGED <<stage, engineVars, answers, ext, link, overlay,
                 active, writes>>

\* ... and handed to the engine.
AdminPush(e) ==
  /\ e \in editing
  /\ editing' = {}
  /\ ext' = Offered(ext, ExtBuf, e)
  /\ UNCHANGED <<stage, engineVars, answers, link, overlay, active,
                 saved, writes, upsets>>

\* SaveSanction: an unconditional upsert, within its deadline or not at all.
WriteLands(w) ==
  /\ w \in writes
  /\ writes' = writes \ {w}
  /\ saved' = [saved EXCEPT ![w.bounty][w.player] = w.row]
  /\ UNCHANGED <<stage, engineVars, answers, ext, link, overlay,
                 active, editing, upsets>>

WriteFails(w) ==
  /\ w \in writes
  /\ writes' = writes \ {w}
  /\ UNCHANGED <<stage, engineVars, answers, ext, link, overlay,
                 active, saved, editing, upsets>>

BountyMoves ==
  /\ active < MaxBounty /\ upsets < MaxUpset
  /\ active' = active + 1 /\ upsets' = upsets + 1
  /\ UNCHANGED <<stage, engineVars, answers, ext, link, overlay,
                 saved, writes, editing>>

\* Time passes for every row.  (Not in the middle of a pass of checks, which
\* looks at the clock once and flags nobody twice.)
CooldownEnds ==
  /\ \E s \in Rows : Cooling(s)
  /\ stage \notin {"afk", "checks"}
  /\ sanctions' = [p \in Player |-> Nearer(sanctions[p])]
  /\ saved' = [b \in 1..MaxBounty |-> [p \in Player |-> Nearer(saved[b][p])]]
  /\ writes' = {[w EXCEPT !.row = Nearer(@)] : w \in writes}
  /\ editing' = {[e EXCEPT !.row = Nearer(@)] : e \in editing}
  /\ ext' = [i \in DOMAIN ext |-> [ext[i] EXCEPT !.row = Nearer(@)]]
  /\ UNCHANGED <<stage, underTest, pendingTests, notified, cur, answers, link,
                 overlay, active, upsets>>

\* The process dies and is started again; game clients keep running.
Restart ==
  /\ upsets < MaxUpset
  /\ upsets' = upsets + 1
  /\ stage' = "idle"
  /\ sanctions' = [p \in Player |-> Clean]
  /\ underTest' = {} /\ pendingTests' = [p \in Player |-> 0]
  /\ notified' = [p \in Player |-> "none"] /\ cur' = 0
  /\ answers' = <<>> /\ ext' = <<>> /\ editing' = {}
  /\ link' = [p \in Player |-> "off"]
  /\ writes' = {}
  /\ UNCHANGED <<overlay, active, saved>>

Next ==
  \/ SyncBounty \/ Announce \/ ArmingDone \/ Arm \/ CloseWindow \/ ResultShown
  \/ ChecksDone \/ GoIdle
  \/ TakeAnswer \/ TakeExternal
  \/ \E p \in Player :
       \/ \E bump \in 1..MaxBump : Flag(p, bump)
       \/ \E correct \in BOOLEAN : Answer(p, correct)
       \/ \E l \in {"off", "on", "parked"} : Relink(p, l)
       \/ \E c \in 0..MaxCheck : AdminSave(p, c)
  \/ \E e \in editing : AdminPush(e)
  \/ \E w \in writes : WriteLands(w) \/ WriteFails(w)
  \/ BountyMoves \/ CooldownEnds \/ Restart

Spec == Init /\ [][Next]_vars

-----------------------------------------------------------------------------
(***************************************************************************)
(* Properties                                                              *)
(***************************************************************************)
TypeOK ==
  /\ stage \in {"idle", "announce", "arming", "afk", "armed", "result", "checks",
                "intermission"}
  /\ sanctions \in [Player -> Row]
  /\ underTest \subseteq Player /\ pendingTests \in [Player -> Nat]
  /\ notified \in [Player -> {"none", "test", "cooldown", "ignored"}]
  /\ cur \in 0..active /\ active \in 1..MaxBounty
  /\ answers \in Seq([player : Player, id : Nat, correct : BOOLEAN])
  /\ ext \in Seq([player : Player, row : Row])
  /\ Len(answers) <= AnswerBuf /\ Len(ext) <= ExtBuf
  /\ link \in [Player -> {"off", "on", "parked"}]
  /\ overlay \in [Player -> [rung : {"none", "test", "cooldown", "ignored"}, id : Nat]]
  /\ saved \in [1..MaxBounty -> [Player -> Row]]
  /\ writes \subseteq [bounty : 1..MaxBounty, player : Player, row : Row]
  /\ editing \subseteq [player : Player, row : Row]
  /\ upsets \in Nat

\* The client holds that "the three states are mutually exclusive": nobody is
\* asked a question while cooling down or ignored, and an outstanding question
\* belongs to somebody on the bench.
RungsExclusive ==
  \A p \in Player :
    /\ p \in underTest => ~sanctions[p].ignored /\ ~Cooling(sanctions[p])
    /\ pendingTests[p] # 0 => p \in underTest

\* SanctionForChecks uses "the same thresholds applySanction escalates through":
\* whatever mix of flags, edits, reloads and restarts made a row, in memory, in
\* the store or on its way there, its rung is the one its count stands for.
RungFollowsCount ==
  LET fits(s) == /\ s.ignored <=> s.checks >= Threshold + Grace
                 /\ s.checks < Threshold => s.cool = 0
                 /\ s.checks >= Threshold => s.ignored \/ s.cool # 0
  IN  /\ \A p \in Player : fits(sanctions[p])
      /\ \A b \in 1..MaxBounty, p \in Player : fits(saved[b][p])
      /\ \A w \in writes : fits(w.row)

\* Within a bounty, without an admin's edit, a benched player gets off the bench
\* only by answering the question outstanding now, correctly, or by climbing
\* to a rung above: a stale or repeated answer frees nobody.
OnlyTheAnswerFrees ==
  [][\A p \in underTest :
       p \notin underTest' /\ cur' = cur /\ ext' = ext =>
         \/ answers # <<>> /\ Head(answers) =
              [player |-> p, id |-> pendingTests[p], correct |-> TRUE]
         \/ sanctions'[p].checks > sanctions[p].checks]_vars

\* When a round begins to arm, everyone on a rung whom frames reach sees it, with
\* the question the server is waiting for; and whoever was told of a rung and is
\* off it sees nothing any more.
ArmingShowsTheRung ==
  [][stage # "arming" /\ stage' = "arming" =>
       \A p \in Player :
         LET rung == RungOf(sanctions[p], p \in underTest)
         IN  link[p] = "on" /\ (rung # "none" \/ notified[p] # "none") =>
               /\ overlay'[p].rung = rung
               /\ rung = "test" => overlay'[p].id = pendingTests'[p]]_vars
==============================================================================
