# Split Clicker in TLA+

Split Clicker is a many-player game over WebSockets. The server arms a board of
buttons after a secret delay, the first N presses score, and every scoring press
replaces its button until the round's budget is spent. A Go server
(`src/server`) holds the truth; an s&box game client (`src/client`) shows it.
This directory holds the TLA+ modules that model the server's game engine, its
hub of connections and the door in front of it, the client's view of the board
and of its pause control, the anticheat's checks and its ladder, the hourly board
and the queue of bounties, the TLC configurations that check them, and proofs for
all of these but the pause control and the checks.

## The system

| component | state | operations | talks to |
|---|---|---|---|
| board (`game/board.go`) | live buttons by slot and by nonce, slot counter, scoring clicks, pending claims, claim log | `register`, `offer`, `takePending`, `full` | owned by the engine's goroutine |
| engine (`game/engine.go`) | phase, running scores, sanctions, benched players, outstanding tests | `Run`, `waitForPlayers`, `playGame`, `pending`, `race`, `drain`; `Submit`, `SubmitAnswer`, `SetSanction`, `Wake` from other goroutines through bounded channels | hub (broadcasts, presence), store (detached goroutines) |
| hub (`ws/hub.go`) | registry of connections, per connection a send channel, parked flag, deferred requests, cursor movement | `register`, `unregister`, `Drop`, fan-outs, `Park`, two pumps per connection | engine, client |
| client (`ClickController.cs`) | phase, round, count, live buttons, overlays | `OnMessage`, `OnData`, `SendButtonClick`, `TogglePark`, `SubmitTestAnswer` | hub |
| checks and standings (`engine.go`) | scoring clicks with their offsets, touches, round-trip times | `runChecks`, `checkLatency`, `checkTouch`, `standingsOf` | ladder, hub, the view `game_standings` |
| anticheat ladder (`engine.go`, `tests.go`) | per-bounty row: flags, cooldown, ignored | `applySanctionN`, `blockedMap`, `notifySanctions`, `handleAnswer`, `applyExternalSanction`, `syncBounty` | store, hub, admin |
| store (`store/*.go`) | Postgres: points, hourly winners, bounties, sanctions, history | one transaction each | finalizers in `cmd/server`, admin, cache |
| HTTP (`api/*.go`) | single-use tickets, rate buckets | `auth`, `wsConnect`, admin forms | store, hub, engine |

What is hard here is concurrency. One goroutine runs the game; every connection
has a reader and a writer; HTTP handlers and store writers run beside them. They
meet in bounded channels that drop what they cannot take, in atomics that are
read first and acted on later, and in a registry copied before it is used. On
top of that the client sees the board only through frames that may be dropped,
and sanctions outlive connections, games and (through the store) the process.

What makes each part correct:

- *board and window*: a button pays one player once; a window pays at most its
  budget and what it pays is what the claims say; the frames determine the board;
- *client*: given all frames it shows the server's board; whatever is lost, a
  press means the button shown or nothing; the count recovers;
- *registry*: one connection per account, the newest stays, nothing is sent on a
  closed channel, evicted connections end;
- *loop*: no arrival is slept through, who is in a window and who is away is settled
  when it arms, nobody is flagged twice a game for keeping still;
- *pause control*: whom the engine parks is shown it, and a RESUME brings the player
  back, as far as the frames get through;
- *verdicts*: the standings the engine announces are those the database derives, and
  a check accuses whom it says it accuses;
- *door*: a ticket opens one connection, and a ban takes hold on whoever is connected;
- *hourly board*: each hour is won once, by whom the board shows, and every hour is;
- *bounty queue*: windows follow on each other, a settled bounty stays settled, the
  queue drains, and the engine plays for the bounty that is active;
- *ladder*: one rung at a time, the rung fits the count, only the right answer to
  the outstanding question gets a player off the bench, the client is told.

## Modules

| module | models | state and actions against the code |
|---|---|---|
| `ButtonRace` | what a scoring window promises | abstract: open buttons, owners, points |
| `Board` | `board.go` and the engine's loop around it | `queue` is `Engine.clicks`; `live`, `byNonce`, `nextSlot`, `scored`, `pending`, `log`, `n` are the board's fields; `Submit` is the read pump's click, `Offer`/`Tick`/`CloseTimeout` the three cases of the race loop's select, `CloseFull` its condition, `Discard` the other selects on clicks |
| `BoardProofs` | theorems about `Board`, that it implements `ButtonRace`, and on top of them the theorems about `ClientBoard` | |
| `ClientBoard` | `Board` composed with send channels and clients | fan-out actions conjoin a `Board` action with an enqueue to every viewer; `Register`, `ReadSnapshot` and `SendHello` are the three steps of a join; `Apply` is `OnMessage`/`OnData` |
| `Connections` | the registry | one action per locked section, per enqueue and per exit of a pump |
| `Admission` | the door in front of it: `api/tickets.go`, `auth`, `wsConnect`, shadowbans and drops | `tickets` is `ticketStore.m`; each call of `wsConnect` is a step (`Present`, `LookUp`, `Enter`), and `Enter` is `Connections!Register` |
| `AdmissionProofs` | theorems about `Connections` and `Admission` | |
| `GameLoopProofs`, `HourlyBoardProofs`, `SanctionsProofs`, `BountyQueueProofs`, `VerdictsProofs` | theorems about the module each is named after | |
| `Extremes` | lemmas about numbers: least and greatest elements of sets, what `Min` and `Max` return, induction and recursion along `0..n` | |
| `GameLoop` | the loop among players who come, go, pause and are benched | `pc` is the place in the loop, `phase` what other goroutines read of it; a park frame is `ReadPark` (reads the phase) and `Park` (acts) |
| `ParkControl` | the pause control end to end, store by store | `pc` goes through `Hub.Pending`, `applyDeferredPark` and the AFK pass one access at a time; `pump` is the read pump between reading the phase and acting; `down` is the send channel, which drops what it has no room for; `cParked`, `cPending` and `cResuming` are the client's `Parked`, `ParkPending`, `Resuming` |
| `Verdicts` | what is read out of a round's clicks: `standingsOf`, the view `game_standings` over `RecordGame`'s rows, and the checks | `clicks` are the `ScoredClick`s, with instants finer than the milliseconds (`Milli` to one) that offsets and touch stamps are truncated to |
| `HourlyBoard` | points in flight against the finalizer of hours | `scores`, `finalized` and `wins` are the tables; `writes` the `AddHourlyPoints` goroutines; `pass` the place in `FinalizeDueHours`, whose reads and commit are two steps |
| `Sanctions` | the ladder, its tests, store, admin edits and overlays | `Flag` is `applySanctionN` with what it calls, `Reconciled` is `notifySanctions`, `writes` the store goroutines in flight |
| `BountyQueue` | the queue of bounties, its finalizer and the cached active bounty | `table` is the bounties table, a transaction is one step: `Advance` is `advanceBounty`, `pass` the place in `runBountyFinalizer`, `after` the `afterGame` that runs, `reads` and `cache` a `Refresh` between its query and its swap |
| `MC*` | small sets for TLC | |

`ButtonRace` is implemented by `Board` (property `ImplementsRace`, with a
refinement mapping; theorem `WindowRefinesRace`), `Board` is extended by `ClientBoard`, which implements it (`ClientsImplementBoard`), and `Connections` by
`Admission`, which implements it (`AdmissionImplementsConnections`). The other modules
stand on their own: they share the engine's phases but abstract each other's
data. `GameLoop` lets the checks flag any scorer and any player answer its test;
`Sanctions` lets any player be flagged, and goes through the loop's stages only to
know what the engine listens to. `GameLoop` takes the application of a deferred
request as one step, among several players; `ParkControl` takes it apart, for one.

A definition marked "Mutant" is not part of a model: it is the variant of the
definition after it that a plausible mistake would produce, kept to show that a
property notices.

## Runs

| run | shows | bounds |
|---|---|---|
| `Board` | type correctness, both maps agree, a button pays once, the board stays full, log and scores agree, the frames rebuild the board, the abstract window is implemented | 2 players, rounds of budget 1 to 3 on 2 buttons, 2 rounds, 4 clicks a round through a channel of 2, one tick before the flush; slot ids modulo 8 |
| `ClientBoard` | a whole client converges, a press means what is shown, the count recovers, the benched see no live button | 1 viewer with a channel of 2 frames, 1 rival, 1 button, budget 2, 2 rounds, 2 ticks |
| `Admission` | one connection per account, crowd and channels agree, no send on closed, the newest stays, the evicted end; a ticket opens one connection, a ban takes hold | 2 connections of 1 account, 2 tickets, channels of 2, 1 ban, any number of drops |
| `GameLoop` | arrivals are not missed, the roster is frozen while armed, flagged once a game, `busted` sent no cursor on its connection; a paused engine wakes, the crowd gets to race | 2 players, 1 of them pausing, 1 with a mouse, 2 rounds, any number of games |
| `ParkControl` | an engine's park is seen unless its one frame is dropped, a RESUME brings back | 1 player, 1 park frame unread beside the one in hand, a send channel of 2 frames, 1 reconnect, any number of rounds |
| `Verdicts` | the two standings agree, the speed checks mean speed, `dominant_winner` names the one | 2 players, a round of 4 clicks and one of 2, 2 ticks to a millisecond, windows of 3 ticks, 1 touch |
| `HourlyBoard` | an hour is won once, the boards agree, every hour is won | 2 players, 3 rounds in 2 hours of 4 ticks, writes of up to 2, 2 failed passes or restarts |
| `Sanctions` | rungs are exclusive and fit the count, only the answer frees, arming shows the rung; no deadlock | 1 player, cooldown from 2 flags, ignored from 3, 2 answers in flight, 1 row in flight, 2 bounties, one edit, change of bounty or restart |
| `BountyQueue` | windows follow on each other, the settled stays settled, the queue drains, the cache follows; no deadlock | 1 player, 2 bounties, deadlines and clock to 2, 1 game, 1 edit or moment with rows locked, 1 failure or restart |
| `Verdicts_FastHover` | **violated**: `fast_hover` accuses a player who hovered | as `Verdicts` |
| `ParkControl_Rejoin` | **violated**: the overlay may wait for a rejoin that never comes | as `ParkControl` |
| `BountyQueue_Tiling` | **violated**: a game may count for two bounties | 3 bounties, 1 game, no edits or failures |

The bounds are small but reach every case the code distinguishes. On the board:
the last claim of a budget and those before it, a stale nonce of this round and of
an earlier one, a full click channel, a tick with and without claims. For a client:
drops at every position, joins before, during and after the arm. For the registry:
an eviction with the older connection's exits outstanding, behind a request at any
point of `wsConnect`; a second account shares nothing with the first but the lock, and
the theorems hold for any number of either. For the loop:
each player's crowd may empty and fill at every step. For the ladder: each rung
from each other, flags that jump one, and a reload of whatever had been stored.
Request numbers do not bound `GameLoop`: it has finitely many states. In `Sanctions`
a test's id is any that nothing refers to, so the number of tests is not bounded.
In `BountyQueue` two bounties are the settled and the promoted one of a step, and the
two instants after 0 let a deadline be past, due and to come. One failure at any point
is every partial pass; the next pass starts from what it left. With one player
`windowWinner`'s choice among several is not exercised in this run: the safety
properties were also checked once with 2 players, 3 bounties and a clock to 3.
In `ParkControl` the pump has one frame in hand beside the one unread, so a PAUSE and
its RESUME can both be on their way while the engine moves; somebody else is always
playing, so the loop never sleeps; two frames fill the channel, which the code gives 32, so
that any frame may be dropped and one may be in the way of the next. In `Verdicts` a tick is half
a millisecond, the least that lets truncation go either way, and a click may be stamped
one tick before the engine takes it. In `HourlyBoard` a write may end at its deadline
and the pass begins just then, as 5 s and 5 s do in the code.
`MaxConn` is 1: what a second connection of the same client adds is what
`OnDisconnected` left on the screen, and that is an empty board and another phase.

## Fairness

- `Admission`: pumps that can run do; peers need not hang up, and the engine need
  not broadcast (an evicted connection ends all the same, because its channel is
  closed and `writePump` then closes the socket). Players and the host owe nothing.
- `GameLoop`: the engine's goroutine runs and its timers fire (`WF` of the engine's
  own steps; a stray click is not one of them), and a read pump that has decided on
  a wake or a park request carries it out. Players owe nothing.
- `ParkControl`: the same for the engine and the read pump, and the client handles the
  frames it has received. Nobody is obliged to press anything, nor to move the mouse: the
  AFK pass may always judge a present player. The client may be slow enough for frames to
  be dropped; what is said of RESUME assumes that it is not so for every `round_pending`
  there is (`RoomForPending`).
- `HourlyBoard`: time passes, a write ends (it has a deadline), the finalizer's timer fires
  and its pass goes on. Passes fail and servers restart, but not for ever (`MaxUpset`).
- `BountyQueue`: time passes, the finalizer's ticker fires and its pass runs on, and the
  engine goes on playing games and finishes what it does after each. Transactions
  fail, but not for ever (`MaxUpset`). The host owes nothing. `CacheFollows` needs the
  games: when a pass fails after one of its transactions committed, the next pass sees
  no change and does not refresh, and only the end of a game does.

The other specifications make no fairness assumption and check safety only.

## Proofs

`BoardProofs` proves for every value of the constants, from `BoardAssumption` and
the finiteness it derives:

- `TypeCorrect`: `Spec => []TypeOK`;
- `BoardInvariant`: the inductive invariant `BoardInv`;
- from it `MirrorsAlwaysAgree`, `ButtonsPayOnce`, `LogAlwaysMatches` and
  `BoardStaysFull`.

None of these four is inductive alone. That a claim's new slot is free and its
nonce fresh needs to know where the counters stand, so `BoardInv` adds
`SlotsInStep`: in a window slots and nonces are handed out together, so a button's
slot is its nonce minus a constant (`Base`). That a refill restores the size needs
`LiveFinite`. The proof goes action by action; only `Arm` and a scoring `Offer`
touch the board, and each part of the invariant is a lemma for those two
(`ArmKeeps`, `RefillKeeps` for a claim that spawns, `LastKeeps` for the last one).

`BoardAssumption` is what the code relies on without saying so: that no round mints
2^16 buttons. `clicksFor` has no upper limit, so a round of more than 4368 players at
the default 15 clicks each would break it.

Then comes the refinement. The abstract owner of a button is read off the
scoring clicks by a `CHOOSE`; because their nonces are distinct (`OneClaimPerButton`)
a claim adds one owner and changes none (`OwnerOfAppend`), and the buttons a player
owns are in bijection with its scoring clicks (`OwnedAreClicks`). So a scoring `Offer`
is a `Take` (its replacement is new because nonces are counted up), `Arm` a `Start`,
both closes a `Finish`, `NewGame` a `Reset`, and the rest stutters: `WindowRefinesRace`.

Last the tick stream, `ReplayAlwaysRebuilds`. Its invariant says that the log is what the
ticks flushed followed by what waits for the next (`LogIsFlushed`), and that the log,
read from the armed buttons on, gives the board (`LogGivesBoard`). The two recursive
functions of the property are restated with their state as arguments, `Flushed(ticks)`
and `Replayed(bs, cs)`. That they have values at all is proved (`StepwiseExists`: a
recursion along `0..n` has a solution), and so is that a prefix of the argument gives the
same values. Where an induction over the claims is needed it is one along `0..n`
(`UpTo`, by the least index that fails), which takes a set and no operator.

The second part of `BoardProofs` proves the four invariants of `ClientBoard` for any viewers, rivals,
connections and capacity of the send channels, wherever frames are dropped. Every step
of the composition is a step of `Board` or leaves it alone (`ClientsImplementBoard`), so
the board's invariants come for free.

- `PressAlwaysMeansWhatIsShown`: a button of the open window, wherever it was sent or is
  shown, has the slot its nonce stands for (`Honest`, through `Base`); of older buttons
  nothing is said, and no live nonce is one of theirs (`LiveIsHonest`). `ClientsInv` says
  it of channels and screens (`ClientShapes`) and of the claims that wait for a tick
  (`WaitingIsHonest`).
- `BenchedNeverSeeALiveButton`: `BenchedShut` finds the round's `round_pending` in the
  benched player's channel, or behind it. No frame after that one opens a window, and
  all the frames before it carry is older than this window.
- `WholeClientsConverge` and `CountAlwaysRecovers`: `CourseInv` is about the screen taken
  through the whole channel (`Caught`). A frame more at the end is applied last
  (`CaughtAppend`), and taking the frame at the head off and applying it changes nothing
  (`CaughtAhead`), so the client's own steps keep it and only the engine's matter: a tick
  takes the published board where it takes the client (`ClientReplays`), an arm starts
  both from the same buttons.

`AdmissionProofs` begins with the registry, for any accounts, connections and
channel capacity: `ConnTypeCorrect`, `AlwaysOnePerAccount`, `CrowdAlwaysOpen` and the
action properties `NoSendOnClosed` and `NewestAlwaysStays`, from the inductive
invariant `ConnInv`. To the checked invariants it adds `CrowdIsServed`: only a
connection between register and unregister is in the crowd, and no channel is closed
before its connection registered. Without it `CloseSend` could close a channel of the
crowd, and a connection could arrive closed. Register, Unregister and CloseSend each
have a lemma; every other step is covered by `Undisturbed`.

Then it carries the registry's theorems over to the door: every step of the door, the host
and the pumps is a step of the registry or leaves it alone
(`AdmissionImplementsConnections`), and so `AdmittedOnePerAccount`,
`AdmittedNeverSendOnClosed` and `AdmittedNewestStays`. Its own two are proved together
with `ConnInv`, from `DoorInv`. `TicketAlwaysOpensOnce` needs that a ticket which let a
request in is no longer in the store (`ShownIsSpent`). `BanAlwaysTakesHold` speaks of
open sockets, but what it says has to hold of requests between their lookup and their
entry too (`BanHoldsAtTheDoor`), and a reader that is leaving must not be on its socket
any more (`SocketIsRead`).

`GameLoopProofs`: `LoopInv` is the types, `ArrivalIsNotMissed`, `RosterIsFrozen` and what
the invariants need to be inductive. A player has one AFK flag of this game exactly while
it is in `fired`, and whoever sent a cursor in this round is known to the hub with it.
For the roster, `FrozenWhileArmed` says where the engine is while the phase says armed,
which is nowhere it parks anybody, and that no connection of the roster has a park frame
in hand to be carried out at once. `ArrivalNeverMissed` leans on the shape of `TypeOK`
where a token may be taken between a check of the crowd and the wait.

`HourlyBoardProofs`: that a winner read stays the winner is a matter of time. An hour
in the finalizer's hands is over and no write of it is in flight (`HoursClosed`),
because a write gives up `Timeout` after its round, the timer is set for `Margin` after
a boundary (`TimerOK`), and `Timeout <= Margin` (`HourlyAssumption`, the constants of the code).
From it `WinnerStands` between the reads and the commit, `BoardsAlwaysAgree`, and
`HoursWonOnce`, which needs that what is due is not credited yet. `HoursGoToTheBest` adds
what being top means; it alone assumes that there are finitely many players, for the
maximum to exist.

`SanctionsProofs`: `RungFollowsCount` speaks of the rows in memory, in the store and in
flight; to be inductive it must also hold of an admin's rows on their way to the engine
(`AllFit`), because a row goes any way round. `RungsExclusive` goes with it: an answer
may clear a player that a flag has moved up in the meantime. `IsFiniteSet(Player)` in
`SanctionAssumption` (the accounts are keys of a Go map) makes the sets of rows finite,
so that a new deadline, which the model numbers above all others in use, is above them.
The action properties `AnswersAloneFree` and `ArmingAlwaysShows` follow from the
invariant, action by action.

`BountyQueueProofs`: a step of the queue is described row by row (`AdvancedRows`,
`AdvancedSets`); every other step keeps the rows' standing (`Kept`). `WindowsFollowOn` is
inductive with two more facts: one bounty is active at most (`OneActive`), and what was
settled had run out by the time of the pass that is on (`SettledWereDue`), so that a
bounty promoted from the pass's time, when none is active, begins after all of them. The
hypothesis of `WindowsFollowOn` carries back over a step because won rows stay as they
are. `GamesAlwaysCountOnceInTime` draws the conclusion for the games: what the violated
`GamesCountOnce` claims holds unless a bounty was promoted past its own deadline.
`WonStaysWon` is the action property.

`VerdictsProofs` takes a player's clicks as a set of positions in the order of arrival, so
that the first, the last and the number of them are `Min`, `Max` and `Cardinality`.

- `StandingsAlwaysAgree`: the rows add up to the engine's scores, and the time the view takes
  from them is the engine's, truncated (`TotalsAgree`). That one holds of the latest row
  because it belongs to the player's last click (`LastClick`): a window's clicks are
  stamped in order (`InTime`), after every row of an earlier window.
- `FastAlwaysMeansFast`: a difference of two truncated times is below a limit only if the
  difference of the times is, and is below it if that is so by a millisecond
  (`MsDifference`).
- `DominantAlwaysAlone`: the search is a recursion along the clicks. After the first i of
  them its state names a player with the most clicks of those seen, and the most that any
  other of them has (`Leads`, kept by `SearchLeads`, carried along `0..n` by `UpTo`).

Each inductive invariant was checked by TLC on a small instance before it was proved.

Only model-checked: everything under fairness, and so all of `ParkControl`.

## Known divergences

The three violated runs show these:

- `Verdicts_FastHover`: `checkTouch` subtracts a touch stamp that counts from the start of
  the arming (`hub.go:494`, `1119-1120`) from a click offset that counts from the arm
  (`engine.go:1484`), so the dwell is short by the whole arming wait.
- `ParkControl_Rejoin`: a `park` frame leaves `Resuming` set (`ClickController.cs:866-867`),
  and the overlay then says "Rejoining" and has no RESUME. It takes a PAUSE and a RESUME
  within one arming wait, which the HUD's `PanelParkSync` sends by itself when a panel is
  opened and closed, or the deferred PAUSE below.
- `BountyQueue_Tiling`: an early deadline turns the queue's clock back (`bounty.go:222`), and
  a game counts for two bounties.

These were met while modelling and have no run of their own. Those that are hazards are
listed in `PROJECT.json`, each at its line.

- "A missed tick is recoverable" (`hub.go:963`) only as far as the count goes: its claims are
  not repeated, and the client shows a dead button or misses a live one, as `tick.go:32` says.
- A RESUME during the last round of a game is deferred to a next arming (`hub.go:1144`) that
  does not come if nobody else is there: parked players are not counted, so the engine
  sleeps, and nothing wakes it.
- `busted` speaks of a player who never sent a cursor (`engine.go:1371`), but movement is kept
  per connection: who moved, scored and reconnected before the checks is flagged.
- The clear of a test or cooldown is sent once (`engine.go:1904-1908` says reconnecting clients
  catch up) and forgotten; a client that was parked or away keeps its overlay.
- "A detached context lets a shutdown mid-round still record points" (`engine.go:1102-1104`):
  `race` returns on `ctx.Done` (`1010-1011`) before it comes to `persist`.
- The hourly finalizer looks 5 s after the hour and a write of points may take 5 s; the
  boards agree on the strength of a tie between two timers.
- Two players who reach the same score within one millisecond may be ordered differently by
  the engine, which compares instants, and by the view of `00012_game_standings_tiebreak.sql`,
  which has whole milliseconds.
- `applyDeferredPark` withdraws `parkWant` after it has taken `resumeWant` (`hub.go:528-530`): a
  PAUSE stored in between is lost, and the client's PAUSING goes away unanswered.
- A PAUSE sent while `round_pending` is in flight parks the player on the server, while the
  client clears `Parked` as the frame lands (`ClickController.cs:737-741`); one pressed in
  the window but handled after it parks without a frame to say so.
- A banned account that is dropped while a request of its is past the lookup, or whose lookup
  fails (fail-open, `router.go:364-366`), is in unmarked until it connects again.
- Outside the window the park handler acts at once but leaves an earlier deferred
  request standing (`hub.go:1138-1147`), which undoes it at the next arming boundary.
- The park notification "must reach a connection" (`hub.go:105-106`), but a full channel
  drops it (`hub.go:986-991`). It is sent once and all that follows is withheld, so the
  client keeps the screen it had, and its control says PAUSE, not RESUME, unless it had
  asked for the pause. `EngineParkIsSeen` excuses this (`unheard`); without the excuse TLC
  finds it.
- The park handler reads the phase before it acts (`hub.go:1133`), so a racer may be parked
  inside the window whose roster is "FROZEN at arm" (`hub.go:163-165`). `RosterIsFrozen`
  excuses the frames read before the arm; that no racer is parked in the window is refuted
  by TLC in a few steps.
- "So a scorer can't park mid-window to dodge the round-end `busted` check"
  (`hub.go:164-165`): it can after the window, except in the last round. The checks come
  when the result has been shown (`engine.go:1098`, `827-831`), a PAUSE in the result display
  takes effect at once, and the parked are not among those `busted` looks at
  (`AllCursorActivity`).
- Two stores of a player's row may land in either order (`engine.go:1875-1881`), so
  the store may keep the older.
- A connection may be registered, get `armed`, and only then a `hello` whose snapshot
  still says pending, because `register` releases its lock before `hello` reads
  `Snapshot` (`hub.go:354-372`, `934-956`). It shows no button for that window, where
  `ClickController.cs:885` says the join is safe and "can score".
- A finalizer pass that fails after one of its transactions committed never sends
  `bounty_update`, because the next pass finds the active bounty unchanged
  (`main.go:128-147`); clients keep the old skin and deadline until they reconnect.
- After the queue has drained, the next bounty's window opens when it is promoted, and
  the games in between count for none (`bounty.go:189-191`), so "exactly one" of
  `bounty.go:159` fails in that direction too.
- When loading the new bounty's rows fails, the statuses published for the
  leaderboard stay those of the previous bounty (`engine.go:1668-1673`).

## Not modelled

Replay assembly and viewing, the lists of past games, admin pages other than the
flag-count and bounty edits, shadowbans and dropped connections, the leaderboards'
contents other than the hours won, the skin resolver, Steam's authentication, the rate
limiter (one mutex around a token bucket), runtime configuration, the HUD and audio,
migrations and deployment: single queries, rendering or conversions without control of
their own. Of the checks, `metronome` and `straight_path` (statistics over floats, off by
default) and `solo_round`. Connections of outdated builds are left out of every module;
what a shadowbanned connection is not sent is too, only its mark is in `Admission`.

## Plan

All modules planned are written, and the safety properties of all of them but `ParkControl`
are proved. What is left: an abstract specification of `BountyQueue` (each bounty is settled
once, by the games of its window) and the proof that it is implemented.
