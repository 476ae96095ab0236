# FantasyBench: formal models

FantasyBench runs a fantasy-football league whose managers are language models.
A FastAPI process serves the commissioner's HTTP API, drives the draft in a
background task and runs a scheduler; all state lives in one SQL database.
This directory holds TLA+ models of that program (`src/apps/api/app`), the TLC
configurations that check them, and machine-checked proofs. Paths below are
relative to `src/apps/api/app` unless they begin with `docs/`.

## The system's parts

| Part | State it keeps | Operations | Hard behaviour | Correct when |
|---|---|---|---|---|
| Draft service (`services/draft.py`) | draft row, pick rows; writes league, week, rosters | set order, start, pause, resume, pick, reveal, undo, mark thinking or failed | any order of picks, undos, pauses; rosters that change underneath | board, clock, rosters and phases agree; no player twice; fair snake |
| Draft runner (`jobs/draft_runner.py`) | lease columns of the draft row, a task's locals | claim, heartbeat, reveal, ask, commit, retry, fail, release | crash, takeover, answers that come too late | no late answer commits; the draft never hangs |
| Draft API (`api/draft_api.py`) | a database session per request | the draft service's operations | `async` endpoints on the event loop, others on threads; rows loaded before the lock | races lose no selection |
| League lock (`api/mutations.py`) | `league.locked`, `league.status` | lock, unlock | a running draft, requests in flight | the draft stands still while locked |
| Waivers (`services/waivers.py`) | periods, claims, `team.waiver_priority` | open a period, submit claims, process | conditional claims that depend on each other; submissions racing the run | rolling order, served in turn, the run ends |
| Rosters (`services/rosters.py`, `services/transactions.py`) | roster assignments, transactions by idempotency key | add, drop, add-drop, set lineup | repeated requests, kickoffs, limits | legal rosters, at most one owner |
| Trades (`services/trades.py`) | threads, offers, assets | propose, counter, accept, reject, cancel, expire | superseded offers, rosters that changed, expiry | all or nothing, legal on both sides |
| Scheduler (`jobs/scheduler.py`, `jobs/progress.py`) | job rows with lease and attempt | tick, claim, heartbeat, complete, retry; starts draft tasks | lost leases, stale attempts, crashes | one owner per attempt, bounded retries |
| Manager automation (`jobs/manager_automation.py`, `jobs/review_cache.py`) | review stamps in `team.manager_state` | review lineups, waivers, free agents, trades | decisions on state that changed during the await | nothing illegal commits, no change goes unreviewed |
| Season (`services/competition.py`, `playoffs.py`, `schedule.py`, `scoring.py`) | weeks, matchups, records | generate a schedule, complete matchups, roll over, seed and advance playoffs | ties, repeated completion | every pair meets fairly, records count once, one champion |
| Memory (`agents/memory.py`) | one summary row per team | fold in a decision, reset | a reset beside a decision | no decision lost |
| LLM agents (`agents/`), NFL data (`nfl/`), read APIs, web | audit rows, reference data | external calls, upserts, queries | timeouts and failures of providers | — |

The parts meet in these places. The draft service calls the roster service for
every pick and opens week 1 and its waiver period after the last one. The runner,
the endpoints and the league lock share the draft and the league row. The
scheduler's tick restarts draft tasks, opens waiver periods, expires trades and
claims the jobs that review teams and complete weeks. Waivers, trades and free
agency move the same roster rows that the draft checks, in any phase of the
league. A committed roster move changes what a running review was based on.

`PROJECT.json` lists every part with its status, and under `hazards` what in this
code is hard to test, at its line.

## Modules

| Module | Models | Checked by |
|---|---|---|
| `SnakeOrder` | `pick_coordinates`, `team_for_pick` | with `DraftService` |
| `DraftPromise` | what a spectator may rely on, an abstract specification | implemented by `DraftService` (`KeepsPromise`) |
| `DraftService` | one action per committed transaction on the draft: the service, the lease bookkeeping, the league lock, and the roster moves of the other services | `DraftService.cfg` through `MCDraftService` |
| `DraftServiceProofs` | theorems about `DraftService`, its refinement of `DraftPromise`, and `DraftSession` | `tlapm` |
| `DraftRunner` | the process and its task over `DraftService`: what happens between transactions | `DraftRunner.cfg` through `MCDraftRunner`, `DraftRunnerLive.cfg` |
| `DraftRunnerProofs` | theorems about `DraftRunner` | `tlapm` |
| `DraftSession` | requests as they run: load first, lock and check later, on event loop or threads | `DraftSession.cfg`, `DraftSessionUndo.cfg` through `MCDraftSession` |
| `RollingOrder` | the continual rolling list of teams, an abstract specification | implemented by `WaiverRun` (`KeepsRollingOrder`) |
| `WaiverRun` | claims of one period and the decision loop of `process_waivers` | `WaiverRun.cfg` through `MCWaiverRun` |
| `WaiverRunProofs` | theorems about `WaiverRun` and its refinement of `RollingOrder` | `tlapm` |
| `WaiverCollection` | how claims come in and how the period ends: the scheduler's job with its attempts, the managers' calls, the commissioner's requests | `WaiverCollection.cfg`, `WaiverCollectionLive.cfg` through `MCWaiverCollection` |
| `WaiverCollectionProofs` | theorems about `WaiverCollection` | `tlapm` |
| `Schedule` | the round robin and the weeks made of it | with `Season` (`FairSchedule`) |
| `Scoring` | the bucket rules of the scoring engine | with `Season` (`FairScoring`) |
| `Season` | weeks, matchups, records, playoffs; the stats job and the commissioner's endpoints | `Season.cfg` through `MCSeason` |
| `SeasonProofs` | theorems about `Season`, `Schedule` and `Scoring` | `tlapm` |
| `Rosters` | lineups, free agents, drops, the transactions that answer a repeated request, and what a request reads before the lock | with `Trades`, which extends it |
| `Trades` | negotiations over those rosters, and requests that loaded their rows before the lock | `Trades.cfg` through `MCTrades` |
| `TradesProofs` | theorems about `Trades` and `Rosters` | `tlapm` |
| `Reviews` | when a scheduled review is skipped, the locks and stamps of overlapping reviews of one team | `Reviews.cfg` through `MCReviews` |
| `ReviewsProofs` | theorems about `Reviews` | `tlapm` |
| `TradeReview` | the trade review of a whole league with its checkpoints, retries and turns | `TradeReview.cfg` through `MCTradeReview` |
| `TradeReviewProofs` | theorems about `TradeReview` | `tlapm` |

### The draft rows: `DraftService`

The variables are columns: `status`, `current`, `order` and the lease (`runner`,
`leaseLive`) of the draft row, the pick rows `picks`, the league's `locked` and
`leagueStatus`, `weekOne` for week 1 and its waiver period, and `roster`, the
assignments by player. An assignment remembers only whether it came from the
draft, which is what undo asks. Deadlines become facts: `leaseLive` says that the
expiry lies in the future, and the clock may end that at any time.

Each action is a whole transaction with every call in it. A selection, for
instance, checks the league lock, the draft, the expected turn and runner, the
pick row, earlier selections and the roster; then writes pick and roster and
either advances the clock and adds the next row, or completes the draft and opens
the season. Guards are the code's early returns, so a refused request is a
transaction that did not happen. `set_order` also resets the waiver priorities,
which live in `WaiverRun` and not here. `set_league_lock` asks an unlocked draft row
whether to pause (`api/mutations.py:126`) before `pause` locks it; here both are one
read (`PausedByLock`).

Two things of the database session matter and are in the model. A session writes
a column only when the value assigned differs from the one it loaded (`Flush`),
and it never refreshes a row it already holds, not even by a locking SELECT
(`db/session.py:21` switches off autoflush and expiry on commit). The operations
therefore take the row their session holds as an argument. `DraftService` passes
the committed row, `DraftSession` the row as the endpoint loaded it.

Free-agent adds, drops and trades are `RosterMove`: the code asks them for an
unlocked league and nothing about the draft. Kickoffs, open waiver periods and
lineup checks, which only refuse more, are left out of them.

### The runner: `DraftRunner`

`pc` is where a process life and its task are. Its steps are the transactions of
`run`, `_prepare_iteration` and `_decide_and_pick` and the await between asking
and answering. A runner id is one process life, as in the code; a crash needs
another life to follow, so that the system is never gone for good. `MaxAttempts` is
`openrouter_max_retries + 1`, `MaxStalls` bounds how often a live task fails to
renew its lease in time. `fenced` is a history variable: the draft was paused or
taken away since the task read its turn.

`async` endpoints run on the task's event loop, so they interleave only where the
task awaits (`Awaits`); the others run on threads, between any two transactions.

### Requests: `DraftSession`

A request loads a row (`Load`), and later its service call locks, checks and
writes with that row (`Finish`) or is rolled back. `reveal_due` and
`mark_thinking` likewise list or read before they lock. Event-loop operations
exclude each other; thread operations do not.

`DraftRunner` extends `DraftService` and its steps are service steps by construction,
so the theorems about the service hold of it; that is a lemma (`RunnerIsService`) and
no property of the project.

### The waiver run: `WaiverRun`

Teams replace their claim lists while the period is open; then the run decides
heads of lists one at a time until none is left. It is one transaction that holds
all rows it reads, so each step is a decision of its loop and nothing
interleaves. Discarding order across teams does not matter to the code's loop nor
here, since a discard changes nothing another head is judged by; an award waits
until every head is executable. Injured reserve is left out: nothing in the
application moves a player there.

### The collection of claims: `WaiverCollection`

`WaiverRun` asks what a run decides, `WaiverCollection` who takes part in it. The
scheduler's tick takes back a job that failed or was left, ends a period whose
time has come, or else opens its collection; each claim is an attempt with a task
of its own (`pc`). The task reads the checkpoints (`seen`), asks every manager who
has none at once (`ask`), and writes its outcome if it is still the job's current
attempt. Time is what the code compares: the period's `clock`, the lease, the
retry. Claims of a team are one value, what it has among the pending rows:
`submit_claims` deletes those and inserts the new list, beside whatever was decided
before. `EMPTY` stands for a list without claims or one that a run has decided. A list
may be refused for its claims, as when it repeats a priority of a decided one, which
is unique in a period; one with other priorities is accepted.

One review runs from the manager's answer to the checkpoint without an await, in
three transactions with threads between them (`Unbroken`). The commissioner's
requests load the period first and lock the league later, so what they check may
be old. `CollectByHand` is the commissioner's request to collect: it asks the managers
as an attempt does but keeps no checkpoints, so that what its managers submit is, like
a list by request, a `SubmitByHand`. Calls of an attempt whose gather raised go on
(`GatherRaises`), as `asyncio.gather` leaves them. The tick is one transaction here; requests that
commit within it are the same race as those that hold an old row across it.

### The season: `Season`, `Schedule`, `Scoring`

The variables are the league row (`status`, `locked`, `week`, `champion`), the
draft's status, the week and matchup rows, the teams' records and the waiver
periods. `final` is the world outside: the final scores of a week once its games
have ended. `Init` is what `initialize_league` and the draft up to its last
selection leave.

`_sync_stats_and_score` is two steps, because it lets go of everything while the
providers are asked: `BeginStats` reads the week and whether its games are over,
`FinalStats` takes the league's row, asks again whether the league is unlocked
and the week still the same, completes the week and advances the league. Several
attempts may be between the two steps (`jobs`, a set of what they read); an
attempt that ends otherwise leaves nothing behind (`EndStats`). `CalculateWeek`,
`AdvanceWeek`, `CreatePlayoffs` and `AdvanceBracket` are the commissioner's
endpoints, each one transaction. `calculate_week` has two: with `complete` it settles
what is open (`CalculateWeek`), without it `calculate_matchup` writes the scores of
every matchup anew from the statistics, lineups and rosters of the moment, those of
complete matchups too (`RecalculateWeek`). `UndoLastPick` is the draft's undo, which
asks nothing about the season. `AdvanceWeek` compares the committed week and lock; the
endpoint compares the copy it loaded before it took the row lock
(`api/mutations.py:584-590`), which no property here depends on. Periods opened by hand
are left out.

A matchup has scores and a result only when it is complete: scores of games in progress
decide nothing and are left out. Final scores come from a small set per matchup, chosen so
that wins, losses and ties occur. The percentage is compared by cross products and
head to head, which need not be transitive, by neighbours only, as a sort by that
comparison guarantees no more (`Tables`). `Scoring` holds the bucket rules with the
default buckets of points allowed; the linear statistics are sums of products and
have no property worth a run. `generate_round_robin_matchups`, which only a
test calls, is `Schedule`'s with another home side and has no module of its own.

### Rosters and trades: `Rosters`, `Trades`

`roster` gives each player an assignment (team and slot) or `None`; `decided` is the
latest lineup decision of a team for a week, from which weeks are scored; `log` is
the transactions table. Kickoffs are facts about this week's games. The actions are
`set_lineup`, `add_free_agent` with its optional drop, and `force_drop`. Positions
and slots are small sets; the rule of which slot takes which position is kept.
Injured reserve is left out: `move_to_ir` has no caller.

An add looks its key up and a drop loads its row before they wait for the league's row
lock, and neither reads it again. Both are therefore there twice: at once
(`AddFreeAgent`, `ForceDrop`), and as a request that waits (`Ask`) and goes on with what
it found (`LateAdd`, `LateDrop`). A late add of a key that was recorded meanwhile is
refused unless it is the same add; a late drop deletes by the row's id, so a row that is
gone (`there`) is deleted once more without an error and the drop is logged. A waiting
request holds a copy of the league that says unlocked, and its week: it asks for the
kickoffs of that week, so once the week is over it is refused. Players whose team has a
bye, whose game never begins, are left out. `SetLineup` reads lock, week and kickoffs
as committed; the endpoint uses its copy of the league (`api/mutations.py:155-161`).

`Trades` extends `Rosters`, since accepting an offer moves the players, repairs the
lineups of teams that lose a starter, and writes transactions and decisions in one
transaction. Requests load offer and thread, wait for the league's row lock, then
check and write by what they loaded (`Load`, `LateAnswer`); one request that waits,
an answer, an add or a drop, stands beside others that need not. Which repaired
lineup the code prefers is left open; that it is complete, legal and leaves kicked-off
players in place is not. Expired threads are marked by the scheduler
(`ExpireTrades`); the mark a refused answer makes is rolled back with it, so it is no
step of the model. `expire_trades` takes no league lock and writes what it listed
(`services/trades.py:489-505`), so it might overwrite a thread settled in between; here
list and write are one step.

### Reviews of one team: `Reviews`

A scheduled review compares the team's inputs with the stamp of its last review and
skips what did not change. What the manager sees is two values: the lineup, which
the manager decides, and `news`, everything else. A task begins (loads its inputs
and asks whether to skip), loads the manager's context, asks the provider, commits
the answer, and writes its stamp. The event loop is free only while a provider is
asked, so between other steps only the threads of the endpoints interleave
(`SetLineup`, `Changes`, `TradesChange`). Overlapping jobs share a lock per
team and kind; the commissioner's reviews take neither lock nor stamp. `chosen`
is a history variable: the latest news on which each lineup was chosen.

### The trade review of a league: `TradeReview`

A review walks over the current offers and then the teams, one key at a time, and
follows what its answers brought up for as many turns as a negotiation has rounds.
The scheduled job keeps a checkpoint per key and is claimed again after a failure or
a crash; the commissioner's request does the same in memory. The event loop is free
while a manager is asked; requests of others settle, counter and open offers on
threads in the meantime (`Outside`). A proposal, its stamp and its checkpoint are
three transactions that a crash may part. What an offer contains is `Trades`'
subject: here any answer may be carried out or refused. Overlapping attempts of one
job and their fencing are `WaiverCollection`'s subject and are not repeated. Ages of
stamps are one bit, whether the stamp belongs to this cooldown. The code also compares
the week of a stamp with the league's (`jobs/review_cache.py:60,68`); a rollover of the
week between two attempts of one review is not modelled here (`Reviews` has it).

## Runs

| Run | States | What it shows |
|---|---|---|
| `draft_service` | 212,094 | `DraftConsistent` (types, phase, owners), `BoardMatchesClock`, `PicksFollowSnake`, `SelectionsSound`, `FairDraft`, `LockHoldsTheDraft`, and that the rows keep `DraftPromise` (`KeepsPromise`) |
| `draft_runner` | 130,448 | `RunnerConsistent` (one pending reveal), `NoFencedCommit`, `HolderKeepsDraft` (no process takes the draft from one that renews its lease) |
| `draft_runner_live` | 92,078 | `ActiveDraftMoves`, `PendingIsRevealed` |
| `draft_session` | 390,348 | `SelectionsSurviveRaces` in spite of stale rows |
| `draft_session_undo` | — | the disagreement below |
| `waiver_run` | 93,669 | `RunConsistent`, `AwardsSound` (awards legal and served in turn), `LineupsStayComplete`, the rolling order (`KeepsRollingOrder`), `RunEnds` |
| `waiver_collection` | 1,241,974 | `CheckpointsSound` (true, complete, sparing their managers), `CheckpointsLast`, `ScheduledRunDecidesAll` (no claim comes in behind the run at the processing time), `OneAttemptAtWork` |
| `waiver_collection_live` | 104,204 | `PeriodEnds`, `JobEnds` |
| `season` | 414,192 | `SeasonConsistent` (records count each result once, bracket and champion follow results), `RulesAreFair`, `ResultsStand` (a completed matchup keeps its teams and winner, its scores change by the commissioner's hand only and no record follows, no late job turns the week back, and only the commissioner parts the league's status from its week), `SeedsFollowRecords`, `SeasonEnds` |
| `trades` | 394,232 | `TradesConsistent` (legal rosters, offers that alternate), `RecordsSound` (the log explains who owns whom, a key is recorded once), `LineupsHold` (complete, kept from kickoff on, scored as fielded), `TradesAreExact`, `ExpiredAreMarked` |
| `reviews` | 1,745,800 | `ReviewsConsistent` (one review of a kind at a time), `SkipsAreSafe` (nothing unseen is skipped), `NoRepeatedReviews`, `StampsAdvance` |
| `trade_review` | 3,035,572 | `SettledWithinReview` (the turns are enough for all rounds of a negotiation, unless an answer in it failed), `NothingIsAskedTwice` (no retry or crash makes a team propose twice) |

A property that is a conjunction is made of named parts in its module, each with
its own comment.

### Bounds

- `draft_service`: two teams and two rounds give both directions of the snake and
  a turn between two rounds; four players for four picks and a roster limit of two
  make full rosters and the need for undo happen; one runner with claim, loss and
  reclaim of the lease. Players and runners are symmetric.
- `draft_runner`: two lives of the process, so a takeover, a restart and a late
  answer of the first occur; two attempts and one stall; two teams, one round.
- `draft_runner_live`: as before with one attempt and no stall of a live task, and
  without symmetry, which liveness does not allow.
- `draft_session`: two concurrent requests besides the pause endpoint, the runner
  and its reveals; three players so that two picks may conflict.
- `waiver_run`: three teams, two free agents, four rostered players, one kicked
  off, one starter slot, up to two conditional claims for two teams and one for
  the third, chosen so that claims chain: a player won earlier in the run is
  dropped again, and dropped starters are claimed by others. It turns deadlock
  checking off because a processed period is final.

- `waiver_collection`: two managers, so that one may be done when the other
  fails; two attempts, the second of which is the last; one fault, a stall of the
  live process or a failing checkpoint write; one submission by hand at a time
  beside a request to process. Crashes, shutdowns and changes of the lock are not
  bounded. `waiver_collection_live`: the same with one manager.

- `season`: four teams, two regular weeks, a week between them and the two of the
  playoffs, and one after them; two overlapping jobs; one move of the commissioner,
  which may be undo, a week set, completed or recalculated by hand, or an early bracket. Locks are
  not bounded. The first matchup of a week may tie, so that the semifinal and the
  championship may, and the second be won by either side, so that seeds vary.
  `FairSchedule` is evaluated for leagues of two to twelve teams over two cycles.
- `trades`: two teams with two slots, one of them a flex, and one place on the bench;
  one roster is full, the other has a free place; a free agent; two kickoffs a week, two
  weeks; a deal of starters that needs the recipient's drop once the free place is
  taken, and one with the proposer's drop; one thread of two rounds; two keys; one
  waiting request; three operations, enough for an offer, its answer and a roster move
  between them, or for a request that waits while a player is dropped and comes back.
  A request that waits has begun and counts as an operation then. When the last operation
  is over only the lock still changes (`TimeMatters`). The drop of a player who became a
  starter while it waited, the drop of a row that was gone, and the repeated add and
  drop are all reached within these bounds; the trade carried out twice is not.
- `reviews`: two lineup reviews that overlap, one trade review, one lineup review by
  request; two lineups, one change of news, two weeks, one unit of time, by
  which a lineup stamp grows old and a trade stamp stops cooling down.
- `trade_review`: two teams, one with an old stamp; the job with two attempts and a
  request beside it; two threads of two rounds; one request of others. Crashes are
  not bounded. Reviews end, so deadlock checking is off.

Symmetry is used with invariants and step properties only.

### Fairness

Only `draft_runner_live`, `waiver_run`, `waiver_collection_live`, `season` and `trades`
assume any. Task steps are weakly fair: the event loop runs, a provider call ends in an
answer, an error or a timeout, and `scheduler.py:126-134` starts a task for every
runnable draft at each tick. The container restarts (`restart: unless-stopped`), so a
next life boots. A dead holder's lease runs out after 180 seconds. The reveal of due
picks is strongly fair: a pending pick becomes due at a fixed time, and the loop comes
by again and again. No action of the commissioner is fair. `PendingIsRevealed` therefore
holds only of a draft that does not stay paused or locked for ever: a pause ends the
only task that reveals. The waiver run's decisions are weakly fair, being a loop in one
transaction. Of the collection, ticks, task steps, time and the boot are weakly fair;
its properties suppose that the process stays up and the league unlocked from some time
on, since an endless alternation of crashes or locks could keep any tick from acting.

In `season` an active draft is completed and games end; stats jobs come back within
minutes, so a job that can often begin begins, and one that often could commit final
statistics does (strongly fair, because a lock or a late attempt may get in between).
`SeasonEnds` excepts a tied playoff game, which the code refuses to advance, a league
locked again and again, and a draft that stays paused: a lock pauses it, the unlocking
does not resume it, and resuming is the commissioner's. In `trades` every tick expires
what is overdue. `reviews` and `trade_review` have no liveness property.

## What the runs found

**Undo may leave the clock behind** (`draft_session_undo`). `undo_pick` loads the draft
row before the service locks it. If a pick commits in between, undo takes back that
pick, sets the clock to the value its row was loaded with, and the session
writes nothing: the clock stands beyond the emptied pick. `docs/ARCHITECTURE.md:62`
says services lock rows "before checking and mutating them". With rows loaded under
the lock, which is what `DraftService` has, `BoardMatchesClock` holds and is proved.

The models also contain the following behaviour, and the properties are stated so
that they hold with it.

Draft:
- `ensure_league_unlocked` locks the league row but checks the copy the endpoint
  loaded, so a request that waited for the lock may start a draft in a locked league
  (`DraftSession`).
- A runner that used up its attempts fails the pick on the clock by then, which may
  be one it never asked about (`DraftRunner`).
- `reveal_due` lists picks without a lock and `reveal_pick` checks the listed object,
  so a pick that an undo emptied meanwhile may be revealed without a player.

Waivers:
- A request to process that loaded the open period and waited for the scheduler's run
  processes again, overwrites the period's key and announces the waivers twice.
- The attempt number fences checkpoints and completion, not claims: a call of an
  attempt that lost its job may replace the claims of its successor.
- A submission that waited for a run by hand leaves claims pending that no run decides,
  beside the decided ones of its team. Behind the run at the processing time none comes
  in, since a submission compares its clock with that time (`ScheduledRunDecidesAll`).
- A job whose process dies in its last attempt stays `RUNNING` for ever (`JobEnds`
  excepts it); a due period is processed all the same. The tick retries jobs of
  locked leagues, so a lock that outlasts the attempts leaves nobody asked.

Season:
- Calculating a week without completing it rewrites the scores of its complete matchups.
  Winner and records stay, so a finished matchup may show scores against its own winner:
  statistics may have been corrected since, and a starter who was dropped since then
  no longer counts. Only the commissioner does it; the scheduler passes over complete
  matchups. `SettledResultsStand` says that nothing else changes such scores.
- A lock while the draft runs leaves it paused after the unlocking, and no scheduler
  resumes it (`SeasonEnds` excepts it).
- The commissioner can part the league's status from its week: a lock and its release
  in the week after the playoffs return `REGULAR_SEASON`, and after an undo has set
  week 1, advancing the bracket sets a playoff week while the status stays. That
  second way needs two moves; the proof of `PhaseFollowsWeek`, which was an invariant
  then, found it, and the property now says who can do it.
- A league that has its champion may be set back to `PLAYOFFS` by setting the week.
- A week the commissioner completed by hand is advanced by nobody: the job finds
  no open matchup (`SeasonEnds` is about seasons left alone).
- Undo after the season began reopens the draft; its new last selection sets week 1,
  whose matchups are complete, and the season stands until the week is set by hand.

Trades and rosters:
- An answer that loaded an offer before a counter or a withdrawal committed is judged
  by what it loaded. A superseded offer may be accepted so, and a stale rejection may
  overwrite a processed thread. Players move only if their owners still hold
  them (`TradesAreExact`).
- Such a request may also carry out an offer that was accepted meanwhile, if roster
  moves have brought its players back: the trade happens twice and the second time
  leaves no record, since its keys are used. It takes a second negotiation and five
  moves, and came out of the proof of `RecordsSound`.
- A retry of an add that looked its key up before the first request was recorded adds
  the player again, once he was dropped again, and leaves no new record. So does a
  forced drop whose key was used before. A retry that finds its key recorded is answered
  with the player's row, or refused with `INCONSISTENT_RETRY` when the team no longer has
  him; a manager's key names league, week, team and player, so a player who was added and
  dropped cannot be added again by the same manager in that week.
- A forced drop that waited logs a `COMMISSIONER_DROP` though its row is gone, while the
  player may be somebody else's by then.
- It also drops a player who became a starter while it waited, by a lineup or by the
  repair after a trade: the slot stays empty, and the decision that is scored still names
  him. `RecordsSound` and `LineupsHold` except these requests by name (`Repeated`,
  `DropsNobody`, `DropsStarter`) and hold of everything else.
- `docs/ARCHITECTURE.md:80-81` says that a current starter must first be moved to the
  bench before he can be traded. The code trades starters and repairs the lineups
  (`services/trades.py:389-456`), which is what `Accept` does; the second half of the
  sentence, that no lineup is left incomplete, is `LineupsStayComplete`.
- A lineup set for another week parts the rosters from the lineup that scores
  (`ScoredAsFielded` excepts it). Proposals of managers carry no deadline, so
  only proposals by request expire.

Reviews:
- A commissioner's lineup that commits between a manager's answer and the stamp counts
  as the manager's own; it was chosen knowing the same news (`SkipsAreSafe`).
- A trade that becomes pending between the skip test and the loading of the context
  leaves a stamp though nobody was asked.
- A team with an old stamp may propose twice after a crash, if its first proposal was
  settled before the retry (`OneProposalPerJob` excepts it). Managers are asked about
  offers that were settled a moment before; their answers are refused.
- An answer that fails is not asked for again in the same attempt, and a request of
  somebody else may then carry the negotiation on past the review's turns. The proof of
  `SettledWithinReview` found this; the property excepts negotiations with a failed
  answer.

## Proofs

The theorems hold for every value of the constants that the modules' named
assumptions allow. TLC evaluates these assumptions in every run; they say what the
database and the settings guarantee: finite sets of teams and players, at least two
teams (four and an even number in a season), at least one round, rosters and lineups
that are legal to begin with, typed deals and scores, and a `None` of its own.
Every safety property that a passing run checks, invariant or step property, is
proved, and so are the two refinements. For most of them the conjunction that a run
checks (`DraftCorrect`, `SelectionsCorrect`, `RunCorrect`, `AwardsCorrect`,
`CheckpointsCorrect` and the like) is joined from theorems about its parts.

**`DraftServiceProofs`.** Any number of teams and rounds, any players, runners and
roster limit.
- `SnakeCorrect`, `ClockCorrect`, `PhaseCorrect` — the board. None of the three is
  inductive by itself: completing a pick needs that the next row belongs to the
  team on the clock, undo needs that the newest made pick is the one before the
  clock, and both need that made picks are those with a player. `BoardInv` is their
  conjunction, and `BoardStep` shows it inductive relative to `TypeOK`.
- `NoPlayerTwice` and `DraftedRosters` from `RosterInv`, their conjunction, which
  needs `BoardInv` for undo. `SelectionStep` reduces every action to one of three
  effects on the selections (one made, one undone, none), so that the invariant is
  shown for the effects and not again for each action.
- `LockHolds` — a step property, which follows from `PhaseFollows`: in a locked league
  the draft is not active, and every action that would move it needs an active
  draft or an unlocked league.
- `DraftIsFair` — `Nth(i, r)` is the number of the pick that the team at place `i`
  of the order makes in round `r`. That it is the only such number of the round makes
  the count one; the board says whose rows they are and the clock that all are made.
- `PromiseKept` — `DraftPromise` sees the made picks as a list. The refinement needs
  that the made rows are the first ones (`MadeFirst`), so that the list read off the
  rows (`BoardRead`) has no gaps, and that a transaction appends to it, takes its
  last entry or leaves it alone.
- `SelectionsSurvive` — `DraftSession`. The clock may lag behind the board there, so
  `BoardInv` is false. `SessionInv` keeps what is left: whoever a row selects is
  asked for and written under the lock, whatever row the request holds (`HeldRows`).

**`DraftRunnerProofs`.** Any number of process lives, attempts and stalls.
`HolderCorrect` rests on `HeldAlive`: while nothing stalls, the lease of a task at work is
alive, so nobody else can claim the draft, and a task of an earlier life can only
release what is its own. `FencedTasksKeepOut` rests on `FenceInv`: whoever lost the draft
since it read its turn does not own it, also when its own process claims it
again, for a claim makes the task read anew. `RunnerCorrect` rests on
`RevealInv`: while the owner decides, nothing is hidden.

**`WaiverRunProofs`.** Any teams, players and claims. `RankingKept` — moving a winner to
the end keeps the priorities a ranking. `LineupsKept` and `RostersStayLegal` — the
added player takes exactly the dropped player's slot, and an award checks the limit.
`TurnsKept` needs `TurnInv`, three facts about a team that has won nothing: it stays
ahead of everyone who was behind it (`UnservedStayAhead`), nobody behind it wins
while it has a claim left (`BehindMeansDone`), and a player whom it asked for in vain
can only be free later because an award dropped him (`LostThenDropped`).
`RollingOrderKept` reads the priorities as a list; that they are a ranking makes the
list and the numbers inverse to each other (`Positions`).

**`WaiverCollectionProofs`.** Any number of attempts and faults. `ProgressInv`: a current
attempt at work knows every checkpoint, no attempt asks before it gathers, and
whoever is not being asked has been heard. That no checkpoint is lost
(`CheckpointsKept`) needs all of it: completion writes back what the attempt knows, and
a checkpoint could only be overwritten by a call to a manager who is done.
`ScheduledRunCorrect` — after that run the time is past, and with it every submission.
`OneAttemptCorrect` needs `WorkInv`: without faults a current task keeps its lease
alive, so a job that can be claimed is one nobody works at.

**`SeasonProofs`.** Any even number of teams, weeks, overlapping jobs and moves.
- `SeasonInvariant` — the games are the regular ones with or without the whole bracket,
  open games have no winner, the title game is the one of the semifinals' winners,
  and a team's record counts its completed games. Completing a week adds disjoint sets
  to the games won, lost and drawn, so the counts grow by their sizes.
- `SeedsAreInOrder` — the table is sorted by neighbours, and head to head is not
  transitive. The percentages are, being a total preorder under cross products, and so
  no team stands behind one with a lower percentage.
- `ResultsStandForGood` — step by step from the invariant; a late job is refused because
  its week is no longer the league's. Who completes a matchup writes result and scores in
  one step, and nothing but a recalculation writes scores of a complete one.
- `CircleIsFair` — after `k` turns the team at place `x` stands at `Place(x, k, n)`. The
  places of two teams add up to `n + 1` for exactly one `k`, so they meet once a cycle;
  the parity of round and pair says who is at home, and the next cycle exchanges it.
  `TheRulesAreFair` applies it to the league's own order as well, and `BucketsAreFair`
  holds for any number of points.

**`TradesProofs`.** Any deals, slots, threads and rounds. `RowsCorrect` — a waiting
request holds the row of an offer that exists and keeps its deal (`OffersKept`).
`RostersAlwaysLegal` — each change is one of few effects on a roster, and a request that
waited has the same effects as one that did not (`Steps`). `RecordsCorrect` needs that no
key is used twice and that a request's drop is recorded with its add (`RecordsInv`); a
step then either writes the record of what it did or repeats one that is there.
`LineupsKept` needs that a decision names each player once and fills only slots that
starters fill (`DecidedSlots`), from which the lineup that scores follows by
counting. `TradesExact` follows from what an acceptance checks under the lock.

**`ReviewsProofs`.** `ReviewsCorrect` — who works without waiting has the loop, and the lock
of a kind is held by its review. `ReviewsNotRepeated` and `StampsKept` from `FreshInv`: a
review at work began after the stamp of its kind was written. `SkipsCorrect` from
`SkipInv`: the stamp of a lineup review has either old news or a lineup chosen on the
latest.

**`TradeReviewProofs`.** Any number of rounds, offers, attempts and requests of others.
`OffersAreFollowed` rests on `TurnInv`: an offer that waits in a negotiation of the review
is listed, or its round is higher than the turn, so that after as many turns as rounds
none is left. `AskedOnce` rests on `NotedInv` and `AskedInv`: whoever opened a
negotiation for the job is noted before anybody is asked again.

Induction over the natural numbers goes through sets of them (`LeastNumber`,
`SetInduction`), since an operator cannot be instantiated in a cited theorem.

Model-checked only: liveness, which is out of the prover's reach with its fairness and
ENABLED — `ActiveDraftMoves`, `PendingIsRevealed`, `RunEnds`, `PeriodEnds`, `JobEnds`,
`SeasonEnds`, `ExpiredAreMarked`. `draft_session_undo` is a counterexample and
needs no proof.

## Not modelled

The wording of prompts and decisions, provider protocols and costs, feed parsing,
read projections and the web client change no league state. Event rows are left out,
except where a review reads them back (`noted`, `proposed`). Live scores of a week in
progress, injured reserve and the free-agent review's own loop are left out as said
above. The manager's memory is folded in one stretch of the event loop, so
only the commissioner's reset, on a thread, can come between its read and its write;
what is at stake is a text shown to the manager, which decides nothing a model here
could tell apart. The migrations and the schema are external to all
of this: their constraints appear as guards where a service relies on one.

## Plan

1. The safety core of the liveness properties: a job that is not done, not failed for
   good and not left by its last attempt can be claimed again (`JobEnds`); a season
   without a champion, a lock or a tie has a step left (`SeasonEnds`); and the measure
   by which the waiver run ends (`RunEnds`).
2. Theorems about the operators for every argument: the order of the snake against
   `pick_coordinates`, the sort of the standings.
