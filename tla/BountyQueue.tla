----------------------------- MODULE BountyQueue -----------------------------
(***************************************************************************)
(* The queue of bounties in the store (store/bounty.go), the finalizer     *)
(* that moves it on (runBountyFinalizer), the games whose winners decide   *)
(* it, the host's edits, and the cached id of the active bounty            *)
(* (store/cache.go) from which the engine takes what its games are for.    *)
(*                                                                         *)
(* A transaction is one step; the finalizer runs one for each step of the  *)
(* queue, all of them with the time it read when the pass began.  A game   *)
(* is recorded some time after it ended.  A refresh of the cache reads the *)
(* active bounty and puts it in place in two steps, and the refreshes of   *)
(* the finalizer and of a game's end may overlap.  Frames and HTTP reads   *)
(* by clients are left out, and so are images, links and labels.           *)
(***************************************************************************)
EXTENDS Integers, FiniteSets, FiniteSetsExt

CONSTANTS Players,    \* so many players, numbered in the order of their Steam ids
          Bounties,   \* bound: rows the host inserts; a row's number is its id
          MaxNow,     \* bound: the clock
          MaxGame,    \* bound: games somebody won
          MaxEdit,    \* bound: edits by the host
          MaxUpset    \* bound: failed transactions and restarts together

ASSUME QueueAssumption ==
         /\ Players \in Nat \ {0} /\ Bounties \in Nat /\ MaxNow \in Nat
         /\ MaxGame \in Nat /\ MaxEdit \in Nat /\ MaxUpset \in Nat

VARIABLES now,
          table,     \* bounties: id -> row
          games,     \* games and game_standings: game -> when it ended, who won
          ended,     \* games that ended; numbered by this count
          after,     \* the afterGame that runs: "none", "record" or "hook"
          latest,    \* the game it records, NoGame if none
          pass,      \* the finalizer: where it is, the pass's time, what it saw
          reads,     \* what a refresh under way has read of the active bounty
          cache,     \* LeaderboardCache.bountyID, 0 if hasBounty is false
          edits, upsets

queue == <<now, table, games, ended, after, latest>>
vars  == <<queue, pass, reads, cache, edits, upsets>>

Id     == 1..Bounties
Player == 1..Players
Nobody == 0
Row    == [status : {"unused", "pending", "active", "won", "deleted"}, win : 0..MaxNow,
           from : 0..MaxNow, winner : {Nobody} \cup Player, archived : BOOLEAN]
Unused == [status |-> "unused", win |-> 0, from |-> 0, winner |-> Nobody, archived |-> FALSE]
NoGame == [id |-> 0, at |-> 0, by |-> Nobody]
Unread == -1    \* a refresh that has not read yet, or none

In(status) == {b \in Id : table[b].status = status}
Won        == In("won")

\* Store.ActiveBounty: an archived bounty counts for none.
Current == IF \E b \in In("active") : ~table[b].archived THEN Max(In("active")) ELSE 0

-----------------------------------------------------------------------------
(* One step of the queue.                                                  *)

\* A game counts for the bounty in whose window (from, win] it ended.
Counts(g, row) == row.from < g.at /\ g.at <= row.win

\* windowWinner: most games won in the window, the lowest Steam id among equals.
WindowWinner(row) ==
  LET wins(p) == Cardinality({g \in games : g.by = p /\ Counts(g, row)})
      some    == {p \in Player : wins(p) > 0}
  IN  IF some = {} THEN Nobody
      ELSE CHOOSE p \in some : \A q \in some :
             wins(p) > wins(q) \/ (wins(p) = wins(q) /\ p <= q)

Due(row) == row.win <= pass.now

Settled(row) == [row EXCEPT !.status = "won", !.winner = WindowWinner(row)]

\* Mutant: the next window opens when the settled one did.
PromoteFromStart(b) == table[b].from

\* The window of what follows b opens where b's window closed.
PromoteFrom(b) == table[b].win

\* The pending bounty to promote: the earliest deadline, then the lowest id.
Earliest(S) ==
  CHOOSE b \in S : \A c \in S :
    table[b].win < table[c].win \/ (table[b].win = table[c].win /\ b <= c)

\* The table t once the first of S, if there is one, is active from start on.
Promoted(t, S, start) ==
  IF S = {} THEN t
  ELSE [t EXCEPT ![Earliest(S)].status = "active", ![Earliest(S)].from = start]

\* Mutant: only a bounty that has run out brings the next one up.
AdvanceAfterSettling(S) ==
  \E b \in In("active") :
    /\ Due(table[b])
    /\ table' = Promoted([table EXCEPT ![b] = Settled(@)], S, PromoteFrom(b))

\* advanceBounty, where a step is due and S are the pending rows nobody locks.
Advance(S) ==
  \/ \E b \in In("active") :
       /\ Due(table[b])
       /\ table' = Promoted([table EXCEPT ![b] = Settled(@)], S, PromoteFrom(b))
  \/ In("active") = {} /\ S # {} /\ table' = Promoted(table, S, pass.now)

-----------------------------------------------------------------------------
(* The finalizer.                                                          *)

Asleep == [at |-> "asleep", now |-> 0, before |-> 0]

Init ==
  /\ now = 0
  /\ table = [b \in Id |-> Unused]
  /\ games = {} /\ ended = 0 /\ after = "none" /\ latest = NoGame
  /\ pass = Asleep
  /\ reads = [game |-> Unread, finalizer |-> Unread]
  /\ cache = 0
  /\ edits = 0 /\ upsets = 0

\* Something fails, at most MaxUpset times.
Upset == upsets < MaxUpset /\ upsets' = upsets + 1

\* The startup pass, or the ticker fires.  A failed ActiveBounty reads as 0.
\* The first look at the active bounty and the time of the pass are one step.
BeginPass ==
  /\ pass.at = "asleep"
  /\ \/ pass' = [at |-> "advance", now |-> now, before |-> Current] /\ UNCHANGED upsets
     \/ pass' = [at |-> "advance", now |-> now, before |-> 0] /\ Upset
  /\ UNCHANGED <<queue, reads, cache, edits>>

StepQueue ==
  /\ pass.at = "advance"
  /\ Advance(In("pending"))
  /\ UNCHANGED <<now, games, ended, after, latest, pass, reads, cache, edits, upsets>>

\* FOR UPDATE SKIP LOCKED: rows the host is about to edit are passed over.
StepPastLocked ==
  /\ pass.at = "advance" /\ edits < MaxEdit
  /\ \E locked \in SUBSET In("pending") : Advance(In("pending") \ locked)
  /\ edits' = edits + 1
  /\ UNCHANGED <<now, games, ended, after, latest, pass, reads, cache, upsets>>

\* Nothing left to do: no pending row to promote, or the active one is not due.
StepsDone ==
  /\ pass.at = "advance"
  /\ IF In("active") = {} THEN In("pending") = {} ELSE \A b \in In("active") : ~Due(table[b])
  /\ pass' = [pass EXCEPT !.at = "compare"]
  /\ UNCHANGED <<queue, reads, cache, edits, upsets>>

\* None is active and all that wait are passed over: nothing is promoted.
AllLocked ==
  /\ pass.at = "advance" /\ edits < MaxEdit
  /\ In("active") = {} /\ In("pending") # {}
  /\ pass' = [pass EXCEPT !.at = "compare"]
  /\ edits' = edits + 1
  /\ UNCHANGED <<queue, reads, cache, upsets>>

\* A transaction fails: the pass is over, whatever its earlier ones did.
PassFails ==
  /\ pass.at = "advance"
  /\ pass' = Asleep
  /\ Upset
  /\ UNCHANGED <<queue, reads, cache, edits>>

\* The second ActiveBounty: the cache is refreshed if the active bounty changed.
Compare(id) ==
  pass' = IF id = pass.before THEN Asleep ELSE [pass EXCEPT !.at = "refresh"]

CompareIds ==
  /\ pass.at = "compare"
  /\ \/ Compare(Current) /\ UNCHANGED upsets
     \/ Compare(0) /\ Upset
  /\ UNCHANGED <<queue, reads, cache, edits>>

-----------------------------------------------------------------------------
(* The cache.                                                              *)

\* Who is in LeaderboardCache.Refresh.
Refreshing(who) == IF who = "game" THEN after = "hook" ELSE pass.at = "refresh"

\* Refresh returns, and with it what called it.
Return(who) ==
  /\ reads' = [reads EXCEPT ![who] = Unread]
  /\ IF who = "game" THEN after' = "none" /\ UNCHANGED pass
                     ELSE pass' = Asleep /\ UNCHANGED after
  /\ UNCHANGED <<now, table, games, ended, latest, edits>>

\* Refresh: ActiveBounty, the boards' queries ...
ReadActive(who) ==
  /\ Refreshing(who) /\ reads[who] = Unread
  /\ reads' = [reads EXCEPT ![who] = Current]
  /\ UNCHANGED <<queue, pass, cache, edits, upsets>>

\* Mutant: with no bounty active, the cache keeps the last one.
SwappedUnlessNone(id) == IF id = 0 THEN cache ELSE id

Swapped(id) == id

\* ... and the swap, under the lock.
Swap(who) ==
  /\ reads[who] # Unread
  /\ cache' = Swapped(reads[who])
  /\ Return(who) /\ UNCHANGED upsets

\* A query fails: the previous snapshot is kept.
RefreshFails(who) ==
  /\ Refreshing(who)
  /\ Return(who) /\ Upset
  /\ UNCHANGED cache

-----------------------------------------------------------------------------
(* Games.                                                                  *)

\* game_over.  afterGame has a deadline shorter than any game, so there is one
\* at a time.  A game nobody took part in is not recorded.
GameEnds ==
  /\ after = "none"
  /\ \/ /\ ended < MaxGame
        /\ ended' = ended + 1
        /\ \E p \in Player : latest' = [id |-> ended', at |-> now, by |-> p]
        /\ after' = "record"
     \/ after' = "hook" /\ UNCHANGED <<ended, latest>>
  /\ UNCHANGED <<now, table, games, pass, reads, cache, edits, upsets>>

\* RecordGame commits ...
RecordGame ==
  /\ after = "record"
  /\ games' = games \cup {latest}
  /\ after' = "hook" /\ latest' = NoGame
  /\ UNCHANGED <<now, table, ended, pass, reads, cache, edits, upsets>>

\* ... or fails, which is logged; the game-end hook runs all the same.
RecordFails ==
  /\ after = "record"
  /\ after' = "hook" /\ latest' = NoGame
  /\ Upset
  /\ UNCHANGED <<now, table, games, ended, pass, reads, cache, edits>>

-----------------------------------------------------------------------------
(* The host, the clock and the process.                                    *)

\* CreateBounty: ids are given out in order; any deadline will do.
Create(w) ==
  /\ In("unused") # {}
  /\ table' = [table EXCEPT ![Min(In("unused"))] =
                 [Unused EXCEPT !.status = "pending", !.win = w]]
  /\ UNCHANGED <<now, games, ended, after, latest, pass, reads, cache, edits, upsets>>

\* Mutant: a settled bounty can be edited like any other.
EditableAlways(b) == table[b].status \in {"pending", "active", "won"}

\* UpdateBounty's WHERE clause.
Editable(b) == table[b].status \in {"pending", "active"}

\* What the host does to a row: UpdateBounty, DeleteBounty, SetBountyArchived.
Edit(b) ==
  /\ edits < MaxEdit
  /\ edits' = edits + 1
  /\ \/ /\ Editable(b)
        /\ \E w \in 1..MaxNow : w # table[b].win /\ table' = [table EXCEPT ![b].win = w]
     \/ table[b].status = "pending" /\ table' = [table EXCEPT ![b].status = "deleted"]
     \/ /\ table[b].status \in {"pending", "active", "won"}
        /\ table' = [table EXCEPT ![b].archived = ~@]
  /\ UNCHANGED <<now, games, ended, after, latest, pass, reads, cache, upsets>>

Tick ==
  /\ now < MaxNow
  /\ now' = now + 1
  /\ UNCHANGED <<table, games, ended, after, latest, pass, reads, cache, edits, upsets>>

\* The process stops and starts: work under way is lost, and the cache is
\* refreshed before anything else runs, if the query succeeds.
Restart ==
  /\ Upset
  /\ after' = "none" /\ latest' = NoGame
  /\ pass' = Asleep
  /\ reads' = [game |-> Unread, finalizer |-> Unread]
  /\ cache' \in {0, Current}
  /\ UNCHANGED <<now, table, games, ended, edits>>

Next ==
  \/ BeginPass \/ StepQueue \/ StepPastLocked \/ StepsDone \/ AllLocked \/ PassFails \/ CompareIds
  \/ \E who \in {"game", "finalizer"} : ReadActive(who) \/ Swap(who) \/ RefreshFails(who)
  \/ GameEnds \/ RecordGame \/ RecordFails
  \/ \E w \in 1..MaxNow : Create(w)
  \/ \E b \in Id : Edit(b)
  \/ Tick \/ Restart

Spec == Init /\ [][Next]_vars

\* Time passes; the finalizer's ticker fires and its pass runs; the engine goes
\* on playing, and what it does after a game returns.  The host owes nothing.
FairSpec ==
  /\ Spec
  /\ WF_vars(Tick)
  /\ WF_vars(BeginPass) /\ WF_vars(StepQueue) /\ WF_vars(StepsDone) /\ WF_vars(CompareIds)
  /\ WF_vars(GameEnds) /\ WF_vars(RecordGame)
  /\ \A who \in {"game", "finalizer"} : WF_vars(ReadActive(who)) /\ WF_vars(Swap(who))

-----------------------------------------------------------------------------
(***************************************************************************)
(* Properties                                                              *)
(***************************************************************************)
TypeOK ==
  /\ now \in 0..MaxNow
  /\ table \in [Id -> Row]
  /\ Cardinality(In("active")) <= 1
  /\ \A g \in games : g.id \in 1..ended /\ g.at \in 0..now /\ g.by \in Player
  /\ after \in {"none", "record", "hook"}
  /\ pass.at \in {"asleep", "advance", "compare", "refresh"} /\ pass.now \in 0..now
  /\ reads \in [{"game", "finalizer"} -> {Unread, 0} \cup Id]
  /\ cache \in {0} \cup Id

Span(row) == {t \in 0..MaxNow : row.from < t /\ t <= row.win}

\* As long as no bounty was promoted past its own deadline, windows follow on
\* each other: no two settled windows overlap, and the one that is open begins
\* where the settled ones have ended.
WindowsFollowOn ==
  (\A b \in Won : table[b].from <= table[b].win) =>
    /\ \A b, c \in Won : b # c => Span(table[b]) \cap Span(table[c]) = {}
    /\ \A b \in Won, c \in In("active") : table[b].win <= table[c].from

\* What has been settled stays: whatever the host, late games, a failed pass or
\* a restart do, a won bounty keeps its window and its winner.
WonIsFinal ==
  [][\A b \in Won : [table'[b] EXCEPT !.archived = FALSE] = [table[b] EXCEPT !.archived = FALSE]]_vars

\* The queue moves: a bounty in the queue is settled sooner or later, unless the
\* host takes it out, although passes fail, rows are locked and the process
\* restarts in between.
QueueDrains ==
  \A b \in Id : (table[b].status = "pending") ~> (table[b].status \in {"won", "deleted"})

\* Once the queue is at rest the engine plays for the bounty that is active,
\* although refreshes overlap and the finalizer may have missed a change.
CacheFollows == \A b \in {0} \cup Id : <>[](Current = b) => <>[](cache = b)

\* FinalizeDueBounties says that windows tile contiguously, "so every game is
\* attributed to exactly one bounty": no recorded game counts for two.
GamesCountOnce ==
  \A g \in games : Cardinality({b \in Won : Counts(g, table[b])}) <= 1
==============================================================================
