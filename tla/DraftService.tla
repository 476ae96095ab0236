---------------------------- MODULE DraftService ----------------------------
(***************************************************************************)
(* The draft as services/draft.py keeps it in the database: the draft row, *)
(* the pick rows, the part of the league row and of the roster table that  *)
(* the draft reads and writes.  One action is one committed transaction of *)
(* DraftService, of the league lock endpoint or of the draft runner's      *)
(* lease bookkeeping.                                                      *)
(*                                                                         *)
(* An operation takes the rows as its database session holds them: d for   *)
(* the draft row, l for the league row.  A session that loads the row only *)
(* once it has the row lock passes the row itself (DraftRow, LeagueRow),   *)
(* which is what Next does here; DraftSession passes rows loaded earlier.  *)
(***************************************************************************)
EXTENDS SnakeOrder, FiniteSets

CONSTANTS
    Teams,      \* teams of the league
    Players,    \* players that can be selected
    Runners,    \* draft runner ids, one per process life
    Rounds,     \* draft.rounds
    Capacity,   \* active roster limit: starters plus bench
    None        \* SQL NULL

NumTeams == Cardinality(Teams)
Total == NumTeams * Rounds
PickNumbers == 1..Total

\* DraftService.start refuses fewer than two teams, no round and no player.
ASSUME TeamsAssumption == IsFiniteSet(Teams) /\ NumTeams \in Nat /\ NumTeams >= 2
ASSUME SizeAssumption == Rounds \in Nat \ {0} /\ Capacity \in Nat
ASSUME NoneAssumption == None \notin Teams \cup Players \cup Runners

VARIABLES
    locked,        \* league.locked
    leagueStatus,  \* league.status
    weekOne,       \* week 1 is current and active, and its waiver period exists
    status,        \* draft.status
    current,       \* draft.current_pick_number
    order,         \* draft.order
    runner,        \* draft.runner_id
    leaseLive,     \* draft.lease_expires_at lies in the future
    picks,         \* the draft_picks rows by pick number
    roster         \* the roster_assignments rows by player

leagueVars == <<locked, leagueStatus, weekOne>>
leaseVars == <<runner, leaseLive>>
serviceVars == <<leagueVars, status, current, order, leaseVars, picks, roster>>

LeagueStatuses == {"PRE_DRAFT", "DRAFTING", "REGULAR_SEASON", "LOCKED"}
DraftStatuses == {"NOT_STARTED", "ACTIVE", "PAUSED", "COMPLETED"}
OpenStates == {"WAITING_FOR_MANAGER", "THINKING", "FAILED"}
MadeStates == {"REVEAL_PENDING", "REVEALED"}

\* A pick row that does not exist yet, and one that _ensure_current_pick adds.
NoRow == [state |-> "ABSENT", team |-> None, player |-> None]
NewRow(n) == [state |-> "WAITING_FOR_MANAGER",
              team |-> TeamForPick(order, n, NumTeams), player |-> None]
PickRows == [state : {"ABSENT"} \cup OpenStates \cup MadeStates,
             team : Teams \cup {None}, player : Players \cup {None}]

\* A roster assignment; a player without one has FreeAgent.
FreeAgent == [team |-> None, via |-> "NONE"]
Assignments == [team : Teams \cup {None}, via : {"DRAFT", "OTHER", "NONE"}]

\* The draft orders: every team at exactly one position (set_order, start).
Orders == {f \in [1..NumTeams -> Teams] :
              \A i, j \in 1..NumTeams : f[i] = f[j] => i = j}

-----------------------------------------------------------------------------
(* What a session sees and writes.                                         *)

DraftRow == [status |-> status, current |-> current]
LeagueRow == [locked |-> locked, status |-> leagueStatus]

\* The unit of work writes a column only when the value assigned differs from
\* the value the session loaded.
Flush(db, loaded, new) == IF new = loaded THEN db ELSE new

Filled == {n \in PickNumbers : picks[n].player # None}
RosterOf(t) == {p \in Players : roster[p].team = t}

\* _ensure_current_pick: the row of pick n is added when it is missing, and a
\* row of another team is a corrupt draft.
RowOf(n) == IF picks[n].state = "ABSENT" THEN NewRow(n) ELSE picks[n]
TurnExists(n) == n <= Total /\ RowOf(n).team = TeamForPick(order, n, NumTeams)
EnsureRow(pk, n) ==
    [pk EXCEPT ![n] = IF pk[n].state = "ABSENT" THEN NewRow(n) ELSE pk[n]]

-----------------------------------------------------------------------------
Init ==
    /\ locked = FALSE
    /\ leagueStatus = "PRE_DRAFT"
    /\ weekOne = FALSE
    /\ status = "NOT_STARTED"
    /\ current = 1
    /\ order \in Orders
    /\ runner = None
    /\ leaseLive = FALSE
    /\ picks = [n \in PickNumbers |-> NoRow]
    /\ roster = [p \in Players |-> FreeAgent]

\* Mutant of SetOrder: the order is not locked after the draft starts.
SetOrderAnytime(l, o) ==
    /\ ~l.locked
    /\ order' = o
    /\ UNCHANGED <<leagueVars, status, current, leaseVars, picks, roster>>

(* DraftService.set_order *)
SetOrder(l, o) ==
    /\ ~l.locked
    /\ status = "NOT_STARTED"
    /\ order' = o
    /\ UNCHANGED <<leagueVars, status, current, leaseVars, picks, roster>>

(* DraftService.start *)
Start(l) ==
    /\ ~l.locked
    /\ status = "NOT_STARTED"
    /\ TurnExists(current)
    /\ status' = "ACTIVE"
    /\ runner' = None
    /\ leaseLive' = FALSE
    /\ leagueStatus' = Flush(leagueStatus, l.status, "DRAFTING")
    /\ picks' = EnsureRow(picks, current)
    /\ UNCHANGED <<locked, weekOne, current, order, roster>>

(* DraftService.pause: needs no unlocked league. *)
Pause ==
    /\ status = "ACTIVE"
    /\ status' = "PAUSED"
    /\ runner' = None
    /\ leaseLive' = FALSE
    /\ UNCHANGED <<leagueVars, current, order, picks, roster>>

\* Mutant of Resume: without ensure_league_unlocked.
ResumeAnyLeague(l) ==
    /\ status = "PAUSED"
    /\ TurnExists(current)
    /\ status' = "ACTIVE"
    /\ runner' = None
    /\ leaseLive' = FALSE
    /\ picks' = EnsureRow(picks, current)
    /\ UNCHANGED <<leagueVars, current, order, roster>>

(* DraftService.resume *)
Resume(l) ==
    /\ ~l.locked
    /\ status = "PAUSED"
    /\ TurnExists(current)
    /\ status' = "ACTIVE"
    /\ runner' = None
    /\ leaseLive' = FALSE
    /\ picks' = EnsureRow(picks, current)
    /\ UNCHANGED <<leagueVars, current, order, roster>>

(* DraftService.mark_thinking, as the runner calls it: only on a turn that  *)
(* waits or failed.                                                        *)
MarkThinking ==
    /\ status = "ACTIVE"
    /\ TurnExists(current)
    /\ RowOf(current).state \in {"WAITING_FOR_MANAGER", "FAILED"}
    /\ picks' = [picks EXCEPT ![current] = [RowOf(current) EXCEPT !.state = "THINKING"]]
    /\ UNCHANGED <<leagueVars, status, current, order, leaseVars, roster>>

(* DraftService.mark_failed with expected_runner_id = r *)
MarkFailed(r) ==
    /\ runner = r
    /\ status = "ACTIVE"
    /\ TurnExists(current)
    /\ RowOf(current).player = None
    /\ picks' = [picks EXCEPT ![current] = [RowOf(current) EXCEPT !.state = "FAILED"]]
    /\ status' = "PAUSED"
    /\ runner' = None
    /\ leaseLive' = FALSE
    /\ UNCHANGED <<leagueVars, current, order, roster>>

(* DraftService.make_pick: a selection of player p for the turn that the   *)
(* session's draft row d names.  The caller may expect pick number n and   *)
(* runner r (None: no expectation) and is refused when the turn changed.   *)
(* The pick lands in the state given: REVEAL_PENDING, or REVEALED when the *)
(* caller reveals it in the same transaction.                              *)
TurnNumberIsExpected(d, n, r) == d.current = n  \* mutant: the runner is not compared
TurnIsExpected(d, n, r) == d.current = n /\ r \in {None, runner}

\* Mutant of Selectable: only the rosters say whether a player is taken.
SelectableByRoster(n, p) ==
    /\ RowOf(n).player = None
    /\ RowOf(n).state \in OpenStates
    /\ roster[p].team = None
    /\ Cardinality(RosterOf(RowOf(n).team)) < Capacity

Selectable(n, p) ==
    /\ RowOf(n).player = None
    /\ RowOf(n).state \in OpenStates
    /\ \A m \in PickNumbers : picks[m].player # p
    /\ roster[p].team = None
    /\ Cardinality(RosterOf(RowOf(n).team)) < Capacity

\* The last pick opens the season: league.status, current_week and the week,
\* and ensure_waiver_period in the same transaction.
OpenSeason(d) ==
    /\ status' = Flush(status, d.status, "COMPLETED")
    /\ leagueStatus' = "REGULAR_SEASON"
    /\ weekOne' = TRUE
    /\ UNCHANGED current

\* Mutant of AdvanceClock: current_pick_number is not assigned.
LeaveClock(d, n) == UNCHANGED <<current, status, leagueStatus, weekOne>>

AdvanceClock(d, n) ==
    /\ current' = Flush(current, d.current, n + 1)
    /\ UNCHANGED <<status, leagueStatus, weekOne>>

MakePick(d, n, r, p, state) ==
    LET made == [RowOf(n) EXCEPT !.player = p, !.state = state]
        board == [picks EXCEPT ![n] = made]
    IN  /\ ~locked
        /\ d.status = "ACTIVE"
        /\ TurnExists(n)
        /\ TurnIsExpected(d, n, r)
        /\ Selectable(n, p)
        /\ roster' = [roster EXCEPT ![p] = [team |-> made.team, via |-> "DRAFT"]]
        /\ \/ /\ n >= Total
              /\ OpenSeason(d)
              /\ picks' = board
           \/ /\ n < Total
              /\ AdvanceClock(d, n)
              /\ picks' = EnsureRow(board, n + 1)
        /\ UNCHANGED <<locked, order, leaseVars>>

(* The runner commits a decision it made for pick n. *)
RunnerPick(r, n, p) ==
    r # None /\ MakePick(DraftRow, n, r, p, "REVEAL_PENDING")

(* The admin pick endpoint: make_pick with no expectation, then reveal_pick *)
(* with force, in one transaction.                                          *)
AdminPick(d, p) == MakePick(d, d.current, None, p, "REVEALED")

(* DraftService.reveal_due: one transaction reveals the picks that are due. *)
Pending == {n \in PickNumbers : picks[n].state = "REVEAL_PENDING"}
RevealDue(due) ==
    /\ due \subseteq Pending
    /\ picks' = [n \in PickNumbers |->
                   IF n \in due THEN [picks[n] EXCEPT !.state = "REVEALED"] ELSE picks[n]]
    /\ UNCHANGED <<leagueVars, status, current, order, leaseVars, roster>>

(* DraftService.undo_last_pick.  It reactivates the draft from any status  *)
(* and leaves the runner and its lease alone.                              *)
IsFirstPick(n) == n \in Filled /\ \A m \in Filled : n <= m  \* mutant: ordered ascending
IsLastPick(n) == n \in Filled /\ \A m \in Filled : m <= n

EmptiedRow(row) == [row EXCEPT !.player = None, !.state = "WAITING_FOR_MANAGER"]

FreeNobody(p) == UNCHANGED roster  \* mutant: the assignment is not deleted
FreePlayer(p) == roster' = [roster EXCEPT ![p] = FreeAgent]

UndoLastPick(d) ==
    /\ ~locked
    /\ \E n \in PickNumbers :
          /\ IsLastPick(n)
          /\ roster[picks[n].player] = [team |-> picks[n].team, via |-> "DRAFT"]
          /\ FreePlayer(picks[n].player)
          /\ picks' = [picks EXCEPT ![n] = EmptiedRow(picks[n])]
          /\ current' = Flush(current, d.current, n)
    /\ status' = Flush(status, d.status, "ACTIVE")
    /\ leagueStatus' = "DRAFTING"
    /\ UNCHANGED <<locked, weekOne, order, leaseVars>>
-----------------------------------------------------------------------------
(* The runner's lease on the draft row.                                    *)

\* DraftRunner._claim_lease: the lease of another runner is respected while it
\* is live.
LeaseFreeOrOwn(r) == runner \in {None, r}  \* mutant: an expired lease still counts
LeaseFree(r) == runner \in {None, r} \/ ~leaseLive
ClaimLease(r) ==
    /\ status \in {"ACTIVE", "COMPLETED"}
    /\ LeaseFree(r)
    /\ runner' = r
    /\ leaseLive' = TRUE
    /\ UNCHANGED <<leagueVars, status, current, order, picks, roster>>

\* DraftRunner._heartbeat: renews its own lease, expired or not.
OwnsDraft(r) == status \in {"ACTIVE", "COMPLETED"} /\ runner = r
Heartbeat(r) ==
    /\ OwnsDraft(r)
    /\ leaseLive' = TRUE
    /\ UNCHANGED <<leagueVars, status, current, order, runner, picks, roster>>

\* DraftRunner._release_lease
ReleaseAnyLease(r) ==  \* mutant: whoever holds it
    /\ runner # None
    /\ runner' = None
    /\ leaseLive' = FALSE
    /\ UNCHANGED <<leagueVars, status, current, order, picks, roster>>

ReleaseLease(r) ==
    /\ runner = r
    /\ runner' = None
    /\ leaseLive' = FALSE
    /\ UNCHANGED <<leagueVars, status, current, order, picks, roster>>

\* The clock passes lease_expires_at.
LeaseExpires ==
    /\ leaseLive
    /\ leaseLive' = FALSE
    /\ UNCHANGED <<leagueVars, status, current, order, runner, picks, roster>>
-----------------------------------------------------------------------------
(* The league lock, set_league_lock of api/mutations.py: locking pauses an *)
(* active draft, unlocking recomputes the league status.  The championship *)
(* and playoff outcomes of unlocking are Season's.                         *)
\* Mutant of StatusOnUnlock: a paused draft is forgotten.
StatusOnUnlockOfActive ==
    CASE status = "COMPLETED" -> "REGULAR_SEASON"
      [] status = "ACTIVE" -> "DRAFTING"
      [] OTHER -> "PRE_DRAFT"

StatusOnUnlock ==
    CASE status = "COMPLETED" -> "REGULAR_SEASON"
      [] status \in {"ACTIVE", "PAUSED"} -> "DRAFTING"
      [] OTHER -> "PRE_DRAFT"

PausedByLock ==
    IF status = "ACTIVE"
    THEN status' = "PAUSED" /\ runner' = None /\ leaseLive' = FALSE
    ELSE UNCHANGED <<status, leaseVars>>

LockLeague(l) ==
    /\ PausedByLock
    /\ locked' = Flush(locked, l.locked, TRUE)
    /\ leagueStatus' = Flush(leagueStatus, l.status, "LOCKED")
    /\ UNCHANGED <<weekOne, current, order, picks, roster>>

UnlockLeague(l) ==
    /\ locked' = Flush(locked, l.locked, FALSE)
    /\ leagueStatus' = Flush(leagueStatus, l.status, StatusOnUnlock)
    /\ UNCHANGED <<weekOne, status, current, order, leaseVars, picks, roster>>
-----------------------------------------------------------------------------
(* Roster moves of the other services, as far as the draft sees them: none *)
(* of them looks at the league's phase, so they may run during a draft.    *)
(* Kickoffs, waiver periods and lineups can refuse a move that is possible *)
(* here.                                                                   *)

\* transactions.add_free_agent and the award of a waiver claim: player p joins
\* team t, which drops the players D (at most one) in the same transaction.
AddFreeAgent(t, p, D) ==
    /\ ~locked
    /\ roster[p].team = None
    /\ Cardinality(D) <= 1
    /\ Cardinality(RosterOf(t) \ D) < Capacity
    /\ roster' = [q \in Players |-> IF q = p THEN [team |-> t, via |-> "OTHER"]
                                   ELSE IF q \in D THEN FreeAgent ELSE roster[q]]
    /\ UNCHANGED <<leagueVars, status, current, order, leaseVars, picks>>

\* RosterService.drop_player
DropPlayer(p) ==
    /\ ~locked
    /\ roster[p].team # None
    /\ FreePlayer(p)
    /\ UNCHANGED <<leagueVars, status, current, order, leaseVars, picks>>

\* accept_trade: team t sends the players A, team u the players B, and either
\* side drops others (D together) to stay within its roster limit.
AcceptTrade(t, u, A, B, D) ==
    /\ ~locked
    /\ t # u /\ A # {} /\ B # {}
    /\ D \cap (A \cup B) = {}
    /\ Cardinality((RosterOf(t) \ (A \cup D)) \cup B) <= Capacity
    /\ Cardinality((RosterOf(u) \ (B \cup D)) \cup A) <= Capacity
    /\ roster' = [q \in Players |-> IF q \in A THEN [team |-> u, via |-> "OTHER"]
                                   ELSE IF q \in B THEN [team |-> t, via |-> "OTHER"]
                                   ELSE IF q \in D THEN FreeAgent ELSE roster[q]]
    /\ UNCHANGED <<leagueVars, status, current, order, leaseVars, picks>>

RosterMove ==
    \/ \E t \in Teams, p \in Players :
          \E D \in SUBSET RosterOf(t) : AddFreeAgent(t, p, D)
    \/ \E p \in Players : DropPlayer(p)
    \/ \E t, u \in Teams :
          \E A \in SUBSET RosterOf(t), B \in SUBSET RosterOf(u),
             D \in SUBSET (RosterOf(t) \cup RosterOf(u)) : AcceptTrade(t, u, A, B, D)
-----------------------------------------------------------------------------
\* What the commissioner's endpoints do to the draft.
\* Those that FastAPI runs on the event loop (async def) ...
AsyncEndpoint ==
    \/ Start(LeagueRow)
    \/ Resume(LeagueRow)
    \/ \E p \in Players : AdminPick(DraftRow, p)

\* ... and those it runs on a pool thread (def).
ThreadEndpoint ==
    \/ \E o \in Orders : SetOrder(LeagueRow, o)
    \/ Pause
    \/ UndoLastPick(DraftRow)
    \/ LockLeague(LeagueRow)
    \/ UnlockLeague(LeagueRow)

\* What a draft runner does to it.
RunnerStep(r) ==
    \/ ClaimLease(r)
    \/ Heartbeat(r)
    \/ ReleaseLease(r)
    \/ MarkFailed(r)
    \/ \E n \in PickNumbers, p \in Players : RunnerPick(r, n, p)

Next ==
    \/ AsyncEndpoint
    \/ ThreadEndpoint
    \/ \E r \in Runners : RunnerStep(r)
    \/ MarkThinking
    \/ \E due \in SUBSET Pending : RevealDue(due)
    \/ LeaseExpires
    \/ RosterMove

ServiceSpec == Init /\ [][Next]_serviceVars
-----------------------------------------------------------------------------
(* Properties.                                                             *)

\* Every row keeps to the values its column can hold; the states PICK_LOCKED
\* and UNDONE of the enum are never written.
TypeOK ==
    /\ locked \in BOOLEAN
    /\ leagueStatus \in LeagueStatuses
    /\ weekOne \in BOOLEAN
    /\ status \in DraftStatuses
    /\ current \in PickNumbers
    /\ order \in Orders
    /\ runner \in Runners \cup {None}
    /\ leaseLive \in BOOLEAN
    /\ picks \in [PickNumbers -> PickRows]
    /\ roster \in [Players -> Assignments]

\* The clock of the draft row and the pick rows tell the same story: exactly
\* the picks before the clock are made, all of them once the draft completed,
\* whatever mix of picks, undos, pauses and failures led here.  A restart of
\* the runner derives the next action from both.
BoardMatchesClock ==
    /\ status = "NOT_STARTED" => current = 1
    /\ status = "COMPLETED" => current = Total
    /\ \A n \in PickNumbers :
          picks[n].player # None <=> (n < current \/ status = "COMPLETED")

\* Every pick row belongs to the team the order puts on the clock, and there is
\* none before the draft starts, so no order change can corrupt the draft.
PicksFollowSnake ==
    \A n \in PickNumbers :
        /\ status = "NOT_STARTED" => picks[n] = NoRow
        /\ \/ picks[n] = NoRow
           \/ /\ picks[n].state # "ABSENT"
              /\ picks[n].team = TeamForPick(order, n, NumTeams)

\* No player is selected by two picks, though rosters change under the draft.
NoDoubleSelection ==
    \A m, n \in PickNumbers :
        m # n /\ picks[m].player # None => picks[m].player # picks[n].player

\* A roster row acquired through the draft belongs to a pick of the same team:
\* no undo leaves a drafted player behind, none removes another's player.
DraftedRosterMatchesBoard ==
    \A p \in Players :
        roster[p].via = "DRAFT" =>
            \E n \in PickNumbers : picks[n].player = p /\ picks[n].team = roster[p].team

\* Board and rosters agree on who was drafted by whom, and nobody was twice.
SelectionsSound == NoDoubleSelection /\ DraftedRosterMatchesBoard

\* A pick is pending reveal or revealed exactly when it has its player, so the
\* current pick can always be decided and no made pick is hidden for ever.
PickPhaseMatchesPlayer ==
    \A n \in PickNumbers : picks[n].player # None <=> picks[n].state \in MadeStates

\* The league's phase follows the draft's, and a locked league has no running
\* draft: nothing can be selected while the commissioner holds the lock.
LeaguePhaseFollowsDraft ==
    /\ locked => leagueStatus = "LOCKED" /\ status # "ACTIVE"
    /\ ~locked => leagueStatus = StatusOnUnlock
    /\ status = "COMPLETED" => weekOne

\* While the commissioner holds the lock the draft stands still: no status, no
\* clock, no order and no selection changes.  A reveal may still happen.
Selections == [n \in PickNumbers |-> picks[n].player]
LockHoldsTheDraft ==
    [][locked /\ locked' => UNCHANGED <<status, current, order, Selections>>]_serviceVars

\* Only an active or completed draft has an owner, and only an owned draft a
\* lease: pausing and failing fence whatever was in flight.
OwnerOnlyWhileOpen ==
    /\ runner # None => status \in {"ACTIVE", "COMPLETED"}
    /\ leaseLive => runner # None

\* The rows of the league and the draft fit each other in everything but the board:
\* values, the phases of picks, draft and league, and who owns the draft.
DraftConsistent ==
    TypeOK /\ PickPhaseMatchesPlayer /\ LeaguePhaseFollowsDraft /\ OwnerOnlyWhileOpen

\* The completed board is fair: every team picked once in every round, and over
\* a round and the next, reversed one all teams waited equally long.
PicksOfRound(r) == {n \in PickNumbers : n > (r - 1) * NumTeams /\ n <= r * NumTeams}
PickOf(t, r) == CHOOSE n \in PicksOfRound(r) : picks[n].team = t
FairDraft ==
    status = "COMPLETED" =>
        \A r \in 1..Rounds :
            /\ {picks[n].team : n \in PicksOfRound(r)} = Teams
            /\ r % 2 = 0 =>
                  \A t, u \in Teams : PickOf(t, r - 1) + PickOf(t, r)
                                        = PickOf(u, r - 1) + PickOf(u, r)
-----------------------------------------------------------------------------
(* What the draft promises a spectator.                                    *)

\* The board a spectator would read off the pick rows.
MadeCount == IF status = "COMPLETED" THEN Total ELSE current - 1
Board == [n \in 1..MadeCount |-> [team |-> picks[n].team, player |-> picks[n].player]]
Phase == CASE status = "NOT_STARTED" -> "before"
           [] status = "ACTIVE" -> "open"
           [] status = "PAUSED" -> "held"
           [] status = "COMPLETED" -> "complete"

Promise == INSTANCE DraftPromise WITH Teamcount <- NumTeams, board <- Board, phase <- Phase

\* The draft rows keep the promise of DraftPromise: one selection at a time,
\* by the team on the clock, taken back only newest first, and complete
\* exactly when the board is full.
KeepsPromise == Promise!Spec
=============================================================================
