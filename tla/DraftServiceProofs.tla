------------------------- MODULE DraftServiceProofs -------------------------
(***************************************************************************)
(* Theorems about DraftService for every league size, number of rounds,    *)
(* player pool and set of runners, and about DraftSession, its requests    *)
(* with rows loaded before the row lock, for any number of requests.       *)
(***************************************************************************)
EXTENDS DraftSession, FunctionTheorems, FiniteSetTheorems, SequenceTheorems, TLAPS

\* The snake's position of any pick is a position of the order.
LEMMA SlotInRange ==
    ASSUME NEW n \in Nat, n >= 1, NEW k \in Nat, k >= 1
    PROVE  SlotForPick(k, n) \in 1..n
<1>1. (k - 1) % n \in 0..(n - 1)
  OBVIOUS
<1> QED
  BY <1>1 DEF SlotForPick, RoundPick

LEMMA TotalType == Total \in Nat \ {0}
<1>1. NumTeams \in Nat /\ NumTeams >= 2 /\ Rounds \in Nat /\ Rounds >= 1
  BY TeamsAssumption, SizeAssumption
<1>2. ASSUME NEW a \in Nat, NEW b \in Nat, a >= 2, b >= 1
      PROVE  a * b \in Nat /\ a * b >= 1
  BY <1>2
<1> QED
  BY <1>1, <1>2 DEF Total

\* The team on the clock is a team of the league.
LEMMA TurnTeamType ==
    ASSUME NEW o \in Orders, NEW k \in PickNumbers
    PROVE  TeamForPick(o, k, NumTeams) \in Teams
<1>1. SlotForPick(k, NumTeams) \in 1..NumTeams
  BY SlotInRange, TeamsAssumption, TotalType DEF PickNumbers
<1> QED
  BY <1>1 DEF TeamForPick, Orders

-----------------------------------------------------------------------------
(* Types of the row helpers.                                               *)

LEMMA RowOfType ==
    ASSUME TypeOK, NEW n \in PickNumbers
    PROVE  RowOf(n) \in PickRows
<1>1. NewRow(n) \in PickRows
  BY TurnTeamType DEF TypeOK, NewRow, PickRows, OpenStates
<1> QED
  BY <1>1 DEF RowOf, TypeOK

LEMMA EnsureRowType ==
    ASSUME TypeOK, NEW pk \in [PickNumbers -> PickRows], NEW n \in PickNumbers
    PROVE  EnsureRow(pk, n) \in [PickNumbers -> PickRows]
<1>1. NewRow(n) \in PickRows
  BY TurnTeamType DEF TypeOK, NewRow, PickRows, OpenStates
<1> QED
  BY <1>1 DEF EnsureRow

\* Writing one row's state and player keeps the pick table's type.
LEMMA WriteRowType ==
    ASSUME TypeOK, NEW n \in PickNumbers, NEW p \in Players \cup {None},
           NEW s \in OpenStates \cup MadeStates
    PROVE  /\ [RowOf(n) EXCEPT !.state = s] \in PickRows
           /\ [RowOf(n) EXCEPT !.player = p, !.state = s] \in PickRows
BY RowOfType DEF PickRows

\* A selection, whoever makes it and whatever draft row it holds, keeps the types.
LEMMA MakePickType ==
    ASSUME TypeOK, NEW d, NEW n \in PickNumbers, NEW r, NEW p \in Players,
           NEW s \in MadeStates, MakePick(d, n, r, p, s)
    PROVE  TypeOK'
<1> DEFINE made == [RowOf(n) EXCEPT !.player = p, !.state = s]
<1> DEFINE board == [picks EXCEPT ![n] = made]
<1>1. made \in PickRows
  BY WriteRowType
<1>2. made.team \in Teams \cup {None}
  BY <1>1 DEF PickRows
<1>3. roster' \in [Players -> Assignments]
  BY <1>2 DEF MakePick, TypeOK, Assignments
<1>4. board \in [PickNumbers -> PickRows]
  BY <1>1 DEF TypeOK
<1>5. UNCHANGED <<locked, order, runner, leaseLive>>
  BY DEF MakePick, leaseVars
<1>6. CASE n >= Total
  <2>1. status' \in DraftStatuses /\ leagueStatus' \in LeagueStatuses /\ weekOne' \in BOOLEAN
    BY <1>6, TotalType DEF MakePick, OpenSeason, Flush, TypeOK, DraftStatuses,
          LeagueStatuses, AdvanceClock, PickNumbers
  <2>2. current' = current /\ picks' = board
    BY <1>6, TotalType DEF MakePick, OpenSeason, PickNumbers
  <2> QED
    BY <1>3, <1>4, <1>5, <2>1, <2>2 DEF TypeOK
<1>7. CASE n < Total
  <2>1. n + 1 \in PickNumbers
    BY <1>7, TotalType DEF PickNumbers
  <2>2. current' \in PickNumbers
    BY <1>7, <2>1, TotalType DEF MakePick, AdvanceClock, Flush, TypeOK, PickNumbers
  <2>3. picks' = EnsureRow(board, n + 1)
    BY <1>7, TotalType DEF MakePick, PickNumbers
  <2>4. picks' \in [PickNumbers -> PickRows]
    BY <1>4, <2>1, <2>3, EnsureRowType
  <2>5. UNCHANGED <<status, leagueStatus, weekOne>>
    BY <1>7, TotalType DEF MakePick, AdvanceClock, PickNumbers
  <2> QED
    BY <1>3, <1>5, <2>2, <2>4, <2>5 DEF TypeOK
<1> QED
  BY <1>6, <1>7, TotalType DEF PickNumbers

\* What the endpoints do with a draft row d and a league row l, whether these are the
\* rows of now or were loaded earlier.
Endpoint(d, l) ==
    \/ Start(l) \/ Resume(l) \/ UndoLastPick(d) \/ LockLeague(l) \/ UnlockLeague(l)
    \/ \E o \in Orders : SetOrder(l, o)
    \/ \E p \in Players : AdminPick(d, p)

LEMMA EndpointType ==
    ASSUME TypeOK, NEW d, NEW l, d.current \in PickNumbers, Endpoint(d, l)
    PROVE  TypeOK'
<1> USE DEF TypeOK
<1>0. current \in PickNumbers /\ status \in DraftStatuses
  OBVIOUS
<1>1. ASSUME NEW o \in Orders, SetOrder(l, o) PROVE TypeOK'
  BY <1>1 DEF SetOrder, leagueVars, leaseVars
<1>2. CASE Start(l)
  <2>1. picks' \in [PickNumbers -> PickRows]
    BY <1>2, <1>0, EnsureRowType DEF Start
  <2> QED
    BY <1>2, <2>1 DEF Start, Flush, DraftStatuses, LeagueStatuses
<1>3. CASE Resume(l)
  <2>1. picks' \in [PickNumbers -> PickRows]
    BY <1>3, <1>0, EnsureRowType DEF Resume
  <2> QED
    BY <1>3, <2>1 DEF Resume, leagueVars, DraftStatuses
<1>4. ASSUME NEW p \in Players, AdminPick(d, p) PROVE TypeOK'
  BY <1>4, MakePickType DEF AdminPick, MadeStates
<1>5. CASE UndoLastPick(d)
  <2>1. PICK n \in PickNumbers :
           /\ IsLastPick(n)
           /\ roster' = [roster EXCEPT ![picks[n].player] = FreeAgent]
           /\ picks' = [picks EXCEPT ![n] = EmptiedRow(picks[n])]
           /\ current' = Flush(current, d.current, n)
    BY <1>5 DEF UndoLastPick, FreePlayer
  <2>2. picks' \in [PickNumbers -> PickRows]
    BY <2>1 DEF EmptiedRow, PickRows, OpenStates
  <2>3. roster' \in [Players -> Assignments]
    BY <2>1 DEF FreeAgent, Assignments
  <2>4. current' \in PickNumbers
    BY <2>1 DEF Flush
  <2> QED
    BY <1>5, <2>2, <2>3, <2>4 DEF UndoLastPick, Flush, leaseVars, DraftStatuses, LeagueStatuses
<1>6. CASE LockLeague(l)
  BY <1>6 DEF LockLeague, PausedByLock, Flush, leaseVars, DraftStatuses, LeagueStatuses
<1>7. CASE UnlockLeague(l)
  BY <1>7 DEF UnlockLeague, StatusOnUnlock, Flush, leaseVars, LeagueStatuses
<1> QED
  BY <1>1, <1>2, <1>3, <1>4, <1>5, <1>6, <1>7 DEF Endpoint

LEMMA EndpointNow ==
    AsyncEndpoint \/ ThreadEndpoint => Endpoint(DraftRow, LeagueRow) \/ Pause
BY DEF AsyncEndpoint, ThreadEndpoint, Endpoint

\* Type correctness is inductive by itself.
LEMMA TypeStep == TypeOK /\ [Next]_serviceVars => TypeOK'
<1> SUFFICES ASSUME TypeOK, [Next]_serviceVars PROVE TypeOK'
  OBVIOUS
<1> USE DEF TypeOK
<1>0. current \in PickNumbers /\ status \in DraftStatuses
  OBVIOUS
<1>1. CASE AsyncEndpoint \/ ThreadEndpoint
  <2>1. CASE Pause
    BY <2>1 DEF Pause, leagueVars, DraftStatuses
  <2>2. CASE Endpoint(DraftRow, LeagueRow)
    BY <1>0, <2>2, EndpointType DEF DraftRow
  <2> QED
    BY <1>1, <2>1, <2>2, EndpointNow
<1>2. ASSUME NEW r \in Runners, RunnerStep(r) PROVE TypeOK'
  <2>1. CASE ClaimLease(r)
    BY <2>1 DEF ClaimLease, leagueVars
  <2>2. CASE Heartbeat(r)
    BY <2>2 DEF Heartbeat, leagueVars
  <2>3. CASE ReleaseLease(r)
    BY <2>3 DEF ReleaseLease, leagueVars
  <2>4. CASE MarkFailed(r)
    <3>1. [RowOf(current) EXCEPT !.state = "FAILED"] \in PickRows
      BY <1>0, RowOfType DEF PickRows, OpenStates
    <3> QED
      BY <2>4, <3>1 DEF MarkFailed, leagueVars, DraftStatuses
  <2>5. ASSUME NEW n \in PickNumbers, NEW p \in Players, RunnerPick(r, n, p) PROVE TypeOK'
    BY <2>5, MakePickType DEF RunnerPick, MadeStates
  <2> QED
    BY <1>2, <2>1, <2>2, <2>3, <2>4, <2>5 DEF RunnerStep
<1>3. CASE MarkThinking
  <2>1. [RowOf(current) EXCEPT !.state = "THINKING"] \in PickRows
    BY <1>0, RowOfType DEF PickRows, OpenStates
  <2> QED
    BY <1>3, <2>1 DEF MarkThinking, leagueVars, leaseVars
<1>4. ASSUME NEW due \in SUBSET Pending, RevealDue(due) PROVE TypeOK'
  <2>1. picks' \in [PickNumbers -> PickRows]
    BY <1>4 DEF RevealDue, PickRows, MadeStates
  <2> QED
    BY <1>4, <2>1 DEF RevealDue, leagueVars, leaseVars
<1>5. CASE LeaseExpires
  BY <1>5 DEF LeaseExpires, leagueVars
<1>6. CASE RosterMove
  <2>1. ASSUME NEW t \in Teams, NEW p \in Players, NEW D \in SUBSET RosterOf(t),
               AddFreeAgent(t, p, D)
        PROVE  TypeOK'
    BY <2>1 DEF AddFreeAgent, FreeAgent, Assignments, leagueVars, leaseVars
  <2>2. ASSUME NEW p \in Players, DropPlayer(p) PROVE TypeOK'
    BY <2>2 DEF DropPlayer, FreePlayer, FreeAgent, Assignments, leagueVars, leaseVars
  <2>3. ASSUME NEW t \in Teams, NEW u \in Teams, NEW A, NEW B, NEW D,
               AcceptTrade(t, u, A, B, D)
        PROVE  TypeOK'
    BY <2>3 DEF AcceptTrade, FreeAgent, Assignments, leagueVars, leaseVars
  <2> QED
    BY <1>6, <2>1, <2>2, <2>3 DEF RosterMove
<1>7. CASE UNCHANGED serviceVars
  BY <1>7 DEF serviceVars, leagueVars, leaseVars
<1> QED
  BY <1>1, <1>2, <1>3, <1>4, <1>5, <1>6, <1>7 DEF Next

LEMMA InitType == Init => TypeOK
<1> SUFFICES ASSUME Init PROVE TypeOK
  OBVIOUS
<1>1. 1 \in PickNumbers
  BY TotalType DEF PickNumbers
<1> QED
  BY <1>1 DEF Init, TypeOK, LeagueStatuses, DraftStatuses, NoRow, PickRows, FreeAgent,
     Assignments

\* Every database row keeps to its type: statuses, states and pick numbers stay
\* in range for every league size, through all interleavings of transactions.
THEOREM TypeCorrect == ServiceSpec => []TypeOK
BY InitType, TypeStep, PTL DEF ServiceSpec
-----------------------------------------------------------------------------
(* The board: the pick rows, the clock and the draft status.  Each of the  *)
(* three invariants needs the others, so they are proved together.         *)

BoardInv == PicksFollowSnake /\ BoardMatchesClock /\ PickPhaseMatchesPlayer

\* The two rows a pick number can have before anybody is asked.
LEMMA FreshRows ==
    /\ NoRow.state = "ABSENT" /\ NoRow.player = None
    /\ \A n : /\ NewRow(n).state = "WAITING_FOR_MANAGER"
              /\ NewRow(n).player = None
              /\ NewRow(n).team = TeamForPick(order, n, NumTeams)
BY DEF NoRow, NewRow

\* A roster move changes nothing of the draft and no league row, and what it
\* leaves on a roster as drafted it did not touch.
LEMMA RosterFrame ==
    RosterMove => /\ UNCHANGED <<leagueVars, status, current, order, leaseVars, picks>>
                  /\ \A p \in Players :
                        roster'[p].via = "DRAFT" => roster'[p] = roster[p]
<1> SUFFICES ASSUME RosterMove
             PROVE  /\ UNCHANGED <<leagueVars, status, current, order, leaseVars, picks>>
                    /\ \A p \in Players :
                          roster'[p].via = "DRAFT" => roster'[p] = roster[p]
  OBVIOUS
<1>1. CASE \E t \in Teams, p \in Players :
              \E D \in SUBSET RosterOf(t) : AddFreeAgent(t, p, D)
  BY <1>1 DEF AddFreeAgent, FreeAgent
<1>2. ASSUME NEW p \in Players, DropPlayer(p)
      PROVE  /\ UNCHANGED <<leagueVars, status, current, order, leaseVars, picks>>
             /\ \A q \in Players :
                   roster'[q].via = "DRAFT" => roster'[q] = roster[q]
  BY <1>2 DEF DropPlayer, FreePlayer, FreeAgent
<1>3. CASE \E t, u \in Teams :
              \E A \in SUBSET RosterOf(t), B \in SUBSET RosterOf(u),
                 D \in SUBSET (RosterOf(t) \cup RosterOf(u)) : AcceptTrade(t, u, A, B, D)
  BY <1>3 DEF AcceptTrade, FreeAgent
<1> QED
  BY <1>1, <1>2, <1>3 DEF RosterMove

\* Transactions that touch none of the four board variables keep the board.
boardVars == <<status, current, order, picks>>
LEMMA BoardFrame == BoardInv /\ UNCHANGED boardVars => BoardInv'
BY DEF BoardInv, boardVars, PicksFollowSnake, BoardMatchesClock, PickPhaseMatchesPlayer,
   NoRow, NewRow

\* What the board says of the row _ensure_current_pick returns for the clock.
LEMMA TurnRow ==
    ASSUME TypeOK, BoardInv, status \in {"ACTIVE", "PAUSED"}
    PROVE  /\ current \in PickNumbers
           /\ RowOf(current).player = None
           /\ RowOf(current).team = TeamForPick(order, current, NumTeams)
           /\ RowOf(current).state \notin MadeStates \cup {"ABSENT"}
           /\ \A n \in PickNumbers : picks[n].player # None <=> n < current
<1>1. current \in PickNumbers /\ current \in Nat
  BY TotalType DEF TypeOK, PickNumbers
<1>2. \A n \in PickNumbers : picks[n].player # None <=> n < current
  BY DEF BoardInv, BoardMatchesClock
<1>3. CASE picks[current] = NoRow
  BY <1>1, <1>2, <1>3 DEF NoRow, RowOf, NewRow, MadeStates
<1>4. CASE picks[current] # NoRow
  <2>1. picks[current].player = None
    BY <1>1, <1>2
  <2>2. picks[current].state # "ABSENT"
    BY <1>1, <1>4 DEF BoardInv, PicksFollowSnake
  <2> QED
    BY <1>1, <1>2, <1>4, <2>1, <2>2 DEF BoardInv, PicksFollowSnake, PickPhaseMatchesPlayer,
       RowOf
<1> QED
  BY <1>3, <1>4

\* Rewriting the row on the clock to an open state keeps the board, whether the
\* draft stays active or pauses.
LEMMA OpenRowStep ==
    ASSUME TypeOK, BoardInv, NEW s \in OpenStates,
           status \in {"ACTIVE", "PAUSED"}, status' \in {"ACTIVE", "PAUSED"},
           UNCHANGED <<current, order>>,
           picks' = [picks EXCEPT ![current] = [RowOf(current) EXCEPT !.state = s]]
    PROVE  BoardInv'
<1>1. /\ current \in PickNumbers
      /\ RowOf(current) \in PickRows
      /\ RowOf(current).player = None
      /\ RowOf(current).team = TeamForPick(order, current, NumTeams)
      /\ \A n \in PickNumbers : picks[n].player # None <=> n < current
  BY TurnRow, RowOfType
<1>2. /\ picks'[current].player = None
      /\ picks'[current].state = s
      /\ picks'[current].team = TeamForPick(order, current, NumTeams)
      /\ \A n \in PickNumbers \ {current} : picks'[n] = picks[n]
  BY <1>1 DEF TypeOK, PickRows
<1>3. s # "ABSENT" /\ s \notin MadeStates
  BY DEF OpenStates, MadeStates
<1>4. PicksFollowSnake'
  BY <1>2, <1>3 DEF BoardInv, PicksFollowSnake, NoRow
<1>5. PickPhaseMatchesPlayer'
  BY <1>2, <1>3 DEF BoardInv, PickPhaseMatchesPlayer
<1>6. current \in Nat
  BY <1>1, TotalType DEF PickNumbers
<1>7. BoardMatchesClock'
  BY <1>1, <1>2, <1>6 DEF BoardMatchesClock
<1> QED
  BY <1>4, <1>5, <1>7 DEF BoardInv

\* Adding the missing row on the clock keeps the board: start and resume.
LEMMA EnsureRowStep ==
    ASSUME TypeOK, BoardInv, status \in {"NOT_STARTED", "PAUSED"}, status' = "ACTIVE",
           UNCHANGED <<current, order>>, picks' = EnsureRow(picks, current)
    PROVE  BoardInv'
<1>1. current \in PickNumbers /\ current \in Nat
  BY TotalType DEF TypeOK, PickNumbers
<1>2. \A n \in PickNumbers : picks[n].state = "ABSENT" => picks[n] = NoRow
  BY FreshRows DEF BoardInv, PicksFollowSnake
<1>3. \A n \in PickNumbers :
         picks'[n] = IF n = current /\ picks[n] = NoRow THEN NewRow(n) ELSE picks[n]
  BY <1>1, <1>2, FreshRows DEF EnsureRow, TypeOK
<1>4. \A n \in PickNumbers : picks'[n].player = picks[n].player
  BY <1>3, FreshRows
<1>5. \A n \in PickNumbers : picks[n].player # None <=> n < current
  <2>1. CASE status = "PAUSED"
    BY <2>1 DEF BoardInv, BoardMatchesClock
  <2>2. CASE status = "NOT_STARTED"
    BY <2>2, TotalType DEF BoardInv, BoardMatchesClock, PicksFollowSnake, NoRow, PickNumbers
  <2> QED
    BY <2>1, <2>2
<1>6. BoardMatchesClock'
  BY <1>4, <1>5 DEF BoardMatchesClock
<1>7. PicksFollowSnake'
  BY <1>3, FreshRows DEF BoardInv, PicksFollowSnake
<1>8. PickPhaseMatchesPlayer'
  BY <1>3, FreshRows DEF BoardInv, PickPhaseMatchesPlayer, MadeStates
<1> QED
  BY <1>6, <1>7, <1>8 DEF BoardInv

\* Pausing and resuming keep the board.
LEMMA PauseStep ==
    ASSUME BoardInv, status \in {"ACTIVE", "PAUSED"}, status' \in {"ACTIVE", "PAUSED"},
           UNCHANGED <<current, order, picks>>
    PROVE  BoardInv'
BY DEF BoardInv, PicksFollowSnake, BoardMatchesClock, PickPhaseMatchesPlayer, NoRow

\* A selection fills the row on the clock and moves the clock past it, or
\* completes the draft; the row it adds for the next team is an empty one.
LEMMA MakePickBoard ==
    ASSUME TypeOK, BoardInv, NEW n \in PickNumbers, NEW r, NEW p \in Players,
           NEW s \in MadeStates, MakePick(DraftRow, n, r, p, s)
    PROVE  BoardInv'
<1> DEFINE made == [RowOf(n) EXCEPT !.player = p, !.state = s]
<1> DEFINE board == [picks EXCEPT ![n] = made]
<1>1. n = current /\ status = "ACTIVE" /\ order' = order
  BY DEF MakePick, TurnIsExpected, DraftRow
<1>2. n \in Nat /\ n <= Total /\ n >= 1 /\ Total \in Nat
      /\ \A m \in PickNumbers : m \in Nat /\ m <= Total
  BY TotalType DEF PickNumbers
<1>3. /\ \A m \in PickNumbers : picks[m].player # None <=> m < current
      /\ RowOf(n) \in PickRows
      /\ RowOf(n).team = TeamForPick(order, n, NumTeams)
  BY <1>1, TurnRow, RowOfType
<1>4. p # None /\ s # "ABSENT" /\ s \notin OpenStates
  BY NoneAssumption DEF MadeStates, OpenStates
<1>5. /\ made.player = p /\ made.state = s
      /\ made.team = TeamForPick(order, n, NumTeams)
  BY <1>3 DEF PickRows
<1>6. board[n] = made /\ \A m \in PickNumbers \ {n} : board[m] = picks[m]
  BY DEF TypeOK
<1>7. CASE n >= Total
  <2>1. status' = "COMPLETED" /\ current' = current /\ picks' = board /\ n = Total
    BY <1>1, <1>2, <1>7 DEF MakePick, OpenSeason, Flush, DraftRow
  <2>2. PicksFollowSnake'
    BY <1>1, <1>4, <1>5, <1>6, <2>1, FreshRows DEF BoardInv, PicksFollowSnake
  <2>3. BoardMatchesClock'
    <3>1. \A m \in PickNumbers : picks'[m].player # None
      <4>1. \A m \in PickNumbers : m = n \/ m < n
        BY <1>2, <2>1
      <4> QED
        BY <1>1, <1>3, <1>4, <1>5, <1>6, <2>1, <4>1
    <3> QED
      BY <1>1, <2>1, <3>1 DEF BoardMatchesClock
  <2>4. PickPhaseMatchesPlayer'
    BY <1>4, <1>5, <1>6, <2>1 DEF BoardInv, PickPhaseMatchesPlayer
  <2> QED
    BY <2>2, <2>3, <2>4 DEF BoardInv
<1>8. CASE n < Total
  <2>1. /\ status' = status /\ current' = n + 1 /\ picks' = EnsureRow(board, n + 1)
        /\ n + 1 \in PickNumbers
    BY <1>1, <1>2, <1>8 DEF MakePick, AdvanceClock, Flush, DraftRow, PickNumbers
  <2>2. picks[n + 1].player = None
    BY <1>1, <1>2, <1>3, <2>1
  <2>3. /\ picks'[n] = made
        /\ picks'[n + 1] = IF picks[n + 1].state = "ABSENT" THEN NewRow(n + 1)
                           ELSE picks[n + 1]
        /\ \A m \in PickNumbers \ {n, n + 1} : picks'[m] = picks[m]
    BY <1>2, <1>4, <1>5, <1>6, <2>1 DEF EnsureRow, TypeOK
  <2> HIDE DEF made
  <2>4. PicksFollowSnake'
    <3>1. order' = order /\ status' # "NOT_STARTED"
      BY <1>1, <2>1
    <3>2. picks'[n + 1].state # "ABSENT"
          /\ picks'[n + 1].team = TeamForPick(order, n + 1, NumTeams)
      BY <2>1, <2>3, FreshRows DEF BoardInv, PicksFollowSnake
    <3> QED
      BY <1>4, <1>5, <2>3, <3>1, <3>2 DEF BoardInv, PicksFollowSnake
  <2>8. picks'[n + 1].player = None
    BY <2>2, <2>3, FreshRows
  <2>5. \A m \in PickNumbers : picks'[m].player # None <=> m < n + 1
    BY <1>1, <1>2, <1>3, <1>4, <1>5, <2>3, <2>8
  <2>6. BoardMatchesClock'
    BY <1>1, <2>1, <2>5 DEF BoardMatchesClock
  <2>7. PickPhaseMatchesPlayer'
    <3>1. picks'[n + 1].state \notin MadeStates
      BY <2>1, <2>2, <2>3, FreshRows DEF BoardInv, PickPhaseMatchesPlayer, MadeStates
    <3> QED
      BY <1>4, <1>5, <2>3, <2>8, <3>1 DEF BoardInv, PickPhaseMatchesPlayer
  <2> QED
    BY <2>4, <2>6, <2>7 DEF BoardInv
<1> QED
  BY <1>2, <1>7, <1>8

\* Undo empties the last filled row and moves the clock back onto it, also from
\* a completed draft, whose clock already stands there.
LEMMA UndoBoard ==
    ASSUME TypeOK, BoardInv, UndoLastPick(DraftRow)
    PROVE  BoardInv'
<1>1. PICK n \in PickNumbers :
         /\ IsLastPick(n)
         /\ picks' = [picks EXCEPT ![n] = EmptiedRow(picks[n])]
         /\ current' = Flush(current, DraftRow.current, n)
  BY DEF UndoLastPick
<1>2. status' = "ACTIVE" /\ current' = n /\ order' = order
  BY <1>1 DEF UndoLastPick, Flush, DraftRow
<1>3. \A m \in PickNumbers : m \in Nat
  BY TotalType DEF PickNumbers
<1>4. /\ picks'[n].player = None /\ picks'[n].state = "WAITING_FOR_MANAGER"
      /\ picks'[n].team = picks[n].team
      /\ \A m \in PickNumbers \ {n} : picks'[m] = picks[m]
  BY <1>1 DEF EmptiedRow, TypeOK, PickRows
<1>5. /\ picks[n].player # None /\ picks[n] # NoRow
      /\ \A m \in PickNumbers : picks[m].player # None => m <= n
  BY <1>1, FreshRows DEF IsLastPick, Filled
<1>6. \A m \in PickNumbers : m < n => picks[m].player # None
  BY <1>3, <1>5 DEF BoardInv, BoardMatchesClock, TypeOK
<1>7. PicksFollowSnake'
  BY <1>2, <1>4, <1>5, FreshRows DEF BoardInv, PicksFollowSnake
<1>8. BoardMatchesClock'
  BY <1>2, <1>3, <1>4, <1>5, <1>6 DEF BoardMatchesClock
<1>9. PickPhaseMatchesPlayer'
  BY <1>4 DEF BoardInv, PickPhaseMatchesPlayer, MadeStates
<1> QED
  BY <1>7, <1>8, <1>9 DEF BoardInv

LEMMA BoardStep == TypeOK /\ BoardInv /\ [Next]_serviceVars => BoardInv'
<1> SUFFICES ASSUME TypeOK, BoardInv, [Next]_serviceVars PROVE BoardInv'
  OBVIOUS
<1>0. current \in PickNumbers /\ status \in DraftStatuses
  BY DEF TypeOK
<1>1. ASSUME NEW o \in Orders, SetOrder(LeagueRow, o) PROVE BoardInv'
  BY <1>1, FreshRows DEF SetOrder, BoardInv, PicksFollowSnake, BoardMatchesClock,
     PickPhaseMatchesPlayer
<1>2. CASE Start(LeagueRow)
  BY <1>2, EnsureRowStep DEF Start
<1>3. CASE Pause
  BY <1>3, PauseStep DEF Pause
<1>4. CASE Resume(LeagueRow)
  BY <1>4, EnsureRowStep DEF Resume
<1>5. ASSUME NEW p \in Players, AdminPick(DraftRow, p) PROVE BoardInv'
  <2>1. MakePick(DraftRow, current, None, p, "REVEALED")
    BY <1>5 DEF AdminPick, DraftRow
  <2> QED
    BY <1>0, <2>1, MakePickBoard DEF MadeStates
<1>6. CASE UndoLastPick(DraftRow)
  BY <1>6, UndoBoard
<1>7. CASE LockLeague(LeagueRow)
  <2>1. CASE status = "ACTIVE"
    BY <1>7, <2>1, PauseStep DEF LockLeague, PausedByLock
  <2>2. CASE status # "ACTIVE"
    BY <1>7, <2>2, BoardFrame DEF LockLeague, PausedByLock, boardVars
  <2> QED
    BY <2>1, <2>2
<1>8. CASE UnlockLeague(LeagueRow)
  BY <1>8, BoardFrame DEF UnlockLeague, boardVars
<1>9. ASSUME NEW r \in Runners, RunnerStep(r) PROVE BoardInv'
  <2>1. CASE ClaimLease(r) \/ Heartbeat(r) \/ ReleaseLease(r)
    BY <2>1, BoardFrame DEF ClaimLease, Heartbeat, ReleaseLease, boardVars
  <2>2. CASE MarkFailed(r)
    BY <2>2, OpenRowStep DEF MarkFailed, OpenStates
  <2>3. ASSUME NEW n \in PickNumbers, NEW p \in Players, RunnerPick(r, n, p) PROVE BoardInv'
    BY <2>3, MakePickBoard DEF RunnerPick, MadeStates
  <2> QED
    BY <1>9, <2>1, <2>2, <2>3 DEF RunnerStep
<1>10. CASE MarkThinking
  BY <1>10, OpenRowStep DEF MarkThinking, OpenStates
<1>11. ASSUME NEW due \in SUBSET Pending, RevealDue(due) PROVE BoardInv'
  <2>1. /\ UNCHANGED <<status, current, order>>
        /\ \A n \in PickNumbers :
              /\ picks'[n].player = picks[n].player
              /\ picks'[n].team = picks[n].team
              /\ \/ picks'[n] = picks[n]
                 \/ picks[n].state = "REVEAL_PENDING" /\ picks'[n].state = "REVEALED"
    BY <1>11 DEF RevealDue, TypeOK, PickRows, Pending
  <2>2. PicksFollowSnake'
    BY <2>1, FreshRows DEF BoardInv, PicksFollowSnake
  <2>3. BoardMatchesClock' /\ PickPhaseMatchesPlayer'
    BY <2>1 DEF BoardInv, BoardMatchesClock, PickPhaseMatchesPlayer, MadeStates
  <2> QED
    BY <2>2, <2>3 DEF BoardInv
<1>12. CASE LeaseExpires
  BY <1>12, BoardFrame DEF LeaseExpires, boardVars
<1>13. CASE RosterMove
  BY <1>13, BoardFrame, RosterFrame DEF boardVars, leagueVars, leaseVars
<1>14. CASE UNCHANGED serviceVars
  BY <1>14, BoardFrame DEF serviceVars, boardVars
<1> QED
  BY <1>1, <1>2, <1>3, <1>4, <1>5, <1>6, <1>7, <1>8, <1>9, <1>10, <1>11, <1>12, <1>13,
     <1>14 DEF Next, AsyncEndpoint, ThreadEndpoint

LEMMA BoardInit == Init => BoardInv
<1> SUFFICES ASSUME Init PROVE BoardInv
  OBVIOUS
<1>1. \A n \in PickNumbers : picks[n] = NoRow /\ n >= 1 /\ n \in Nat
  BY TotalType DEF Init, PickNumbers
<1> QED
  BY <1>1, FreshRows DEF Init, BoardInv, PicksFollowSnake, BoardMatchesClock,
     PickPhaseMatchesPlayer, MadeStates

LEMMA BoardCorrect == ServiceSpec => []BoardInv
BY BoardInit, BoardStep, TypeCorrect, PTL DEF ServiceSpec

\* The clock and the pick rows always tell the same story: whatever mix of
\* picks, undos, pauses and failures came before, a runner that restarts from
\* the database asks the team whose pick is really next.
THEOREM ClockCorrect == ServiceSpec => []BoardMatchesClock
<1>1. BoardInv => BoardMatchesClock
  BY DEF BoardInv
<1> QED
  BY <1>1, BoardCorrect, PTL

\* Every pick row belongs to the team the draft order puts on the clock.
THEOREM SnakeCorrect == ServiceSpec => []PicksFollowSnake
<1>1. BoardInv => PicksFollowSnake
  BY DEF BoardInv
<1> QED
  BY <1>1, BoardCorrect, PTL

\* A pick is pending or revealed exactly when it has a player.
THEOREM PhaseCorrect == ServiceSpec => []PickPhaseMatchesPlayer
<1>1. BoardInv => PickPhaseMatchesPlayer
  BY DEF BoardInv
<1> QED
  BY <1>1, BoardCorrect, PTL
-----------------------------------------------------------------------------
(* The league's phase, the lock and the runner's lease.                    *)

LEMMA PhaseStep ==
    TypeOK /\ LeaguePhaseFollowsDraft /\ [Next]_serviceVars => LeaguePhaseFollowsDraft'
<1> SUFFICES ASSUME TypeOK, LeaguePhaseFollowsDraft, [Next]_serviceVars
             PROVE  LeaguePhaseFollowsDraft'
  OBVIOUS
<1> USE DEF LeaguePhaseFollowsDraft, StatusOnUnlock
<1>0. status \in DraftStatuses /\ locked \in BOOLEAN
  BY DEF TypeOK
\* Most transactions keep the league row and the draft's status.
<1> DEFINE Kept == UNCHANGED <<locked, leagueStatus, weekOne, status>>
<1>1. Kept => LeaguePhaseFollowsDraft'
  OBVIOUS
<1>2. ASSUME NEW n, NEW r, NEW p, NEW s, MakePick(DraftRow, n, r, p, s)
      PROVE  LeaguePhaseFollowsDraft'
  BY <1>2, <1>0 DEF MakePick, OpenSeason, AdvanceClock, Flush, DraftRow, DraftStatuses
<1>3. CASE AsyncEndpoint
  BY <1>3, <1>2, <1>0 DEF AsyncEndpoint, Start, Resume, AdminPick, Flush, LeagueRow, leagueVars
<1>4. CASE ThreadEndpoint
  <2>1. ASSUME NEW o \in Orders, SetOrder(LeagueRow, o) PROVE LeaguePhaseFollowsDraft'
    BY <2>1, <1>1 DEF SetOrder, leagueVars
  <2>2. CASE Pause
    BY <2>2 DEF Pause, leagueVars
  <2>3. CASE UndoLastPick(DraftRow)
    BY <2>3, <1>0 DEF UndoLastPick, Flush, DraftRow
  <2>4. CASE LockLeague(LeagueRow)
    BY <2>4 DEF LockLeague, PausedByLock, Flush, LeagueRow
  <2>5. CASE UnlockLeague(LeagueRow)
    BY <2>5 DEF UnlockLeague, Flush, LeagueRow
  <2> QED
    BY <1>4, <2>1, <2>2, <2>3, <2>4, <2>5 DEF ThreadEndpoint
<1>5. ASSUME NEW r \in Runners, RunnerStep(r) PROVE LeaguePhaseFollowsDraft'
  <2>1. CASE MarkFailed(r)
    BY <2>1, <1>0 DEF MarkFailed, leagueVars
  <2>2. CASE ClaimLease(r) \/ Heartbeat(r) \/ ReleaseLease(r)
    BY <2>2, <1>1 DEF ClaimLease, Heartbeat, ReleaseLease, leagueVars
  <2> QED
    BY <1>5, <1>2, <2>1, <2>2 DEF RunnerStep, RunnerPick
<1>6. CASE MarkThinking \/ (\E due \in SUBSET Pending : RevealDue(due)) \/ LeaseExpires
  BY <1>6, <1>1 DEF MarkThinking, RevealDue, LeaseExpires, leagueVars
<1>7. CASE RosterMove
  BY <1>7, <1>1, RosterFrame DEF leagueVars
<1>8. CASE UNCHANGED serviceVars
  BY <1>8, <1>1 DEF serviceVars, leagueVars
<1> QED
  BY <1>3, <1>4, <1>5, <1>6, <1>7, <1>8 DEF Next

\* The league's phase follows the draft through every lock, unlock, completion
\* and undo, and a locked league has no active draft.
THEOREM PhaseFollows == ServiceSpec => []LeaguePhaseFollowsDraft
<1>1. Init => LeaguePhaseFollowsDraft
  BY DEF Init, LeaguePhaseFollowsDraft, StatusOnUnlock
<1> QED
  BY <1>1, PhaseStep, TypeCorrect, PTL DEF ServiceSpec

LEMMA LockedStep ==
    TypeOK /\ LeaguePhaseFollowsDraft /\ [Next]_serviceVars /\ locked /\ locked'
        => UNCHANGED <<status, current, order, Selections>>
<1> SUFFICES ASSUME TypeOK, locked, status # "ACTIVE", [Next]_serviceVars
             PROVE  UNCHANGED <<status, current, order, Selections>>
  BY DEF LeaguePhaseFollowsDraft
<1> DEFINE Still == UNCHANGED <<status, current, order, picks>>
<1>1. Still => UNCHANGED <<status, current, order, Selections>>
  BY DEF Selections
<1>2. ~AsyncEndpoint
  BY DEF AsyncEndpoint, Start, Resume, AdminPick, MakePick, LeagueRow
<1>3. CASE ThreadEndpoint
  <2>1. Still
    BY <1>3 DEF ThreadEndpoint, SetOrder, Pause, UndoLastPick, LockLeague, UnlockLeague,
       PausedByLock, LeagueRow
  <2> QED
    BY <1>1, <2>1
<1>4. CASE \E r \in Runners : RunnerStep(r)
  <2>1. Still
    BY <1>4 DEF RunnerStep, ClaimLease, Heartbeat, ReleaseLease, MarkFailed, RunnerPick, MakePick
  <2> QED
    BY <1>1, <2>1
<1>5. ~MarkThinking
  BY DEF MarkThinking
<1>6. ASSUME NEW due \in SUBSET Pending, RevealDue(due)
      PROVE  UNCHANGED <<status, current, order, Selections>>
  <2>1. \A n \in PickNumbers : picks'[n].player = picks[n].player
    BY <1>6 DEF RevealDue, TypeOK, PickRows
  <2> QED
    BY <1>6, <2>1 DEF RevealDue, Selections
<1>7. CASE LeaseExpires \/ RosterMove \/ UNCHANGED serviceVars
  <2>1. Still
    BY <1>7, RosterFrame DEF LeaseExpires, serviceVars
  <2> QED
    BY <1>1, <2>1
<1> QED
  BY <1>2, <1>3, <1>4, <1>5, <1>6, <1>7 DEF Next

\* While the commissioner holds the lock no transaction moves the draft, even a
\* runner's that was decided before the lock was taken.
THEOREM LockHolds == ServiceSpec => LockHoldsTheDraft
BY LockedStep, TypeCorrect, PhaseFollows, PTL DEF ServiceSpec, LockHoldsTheDraft

\* The runner column names an owner only while there is something to own, so a
\* pause, a failure or a lock fences every decision that was in flight.
LEMMA OwnerStep ==
    TypeOK /\ OwnerOnlyWhileOpen /\ [Next]_serviceVars => OwnerOnlyWhileOpen'
<1> SUFFICES ASSUME TypeOK, OwnerOnlyWhileOpen, [Next]_serviceVars
             PROVE  OwnerOnlyWhileOpen'
  OBVIOUS
<1> USE DEF OwnerOnlyWhileOpen
<1>1. \A r \in Runners : r # None
  BY NoneAssumption
<1>2. ASSUME NEW n, NEW r, NEW p, NEW s, MakePick(DraftRow, n, r, p, s)
      PROVE  OwnerOnlyWhileOpen'
  BY <1>2 DEF MakePick, OpenSeason, AdvanceClock, Flush, DraftRow, leaseVars
<1>3. CASE AsyncEndpoint
  BY <1>3, <1>2 DEF AsyncEndpoint, Start, Resume, AdminPick
<1>4. CASE ThreadEndpoint
  <2>1. ASSUME NEW o \in Orders, SetOrder(LeagueRow, o) PROVE OwnerOnlyWhileOpen'
    BY <2>1 DEF SetOrder, leaseVars
  <2>2. CASE Pause \/ UndoLastPick(DraftRow)
    BY <2>2 DEF Pause, UndoLastPick, DraftRow, Flush, leaseVars
  <2>3. CASE LockLeague(LeagueRow)
    BY <2>3 DEF LockLeague, PausedByLock, leaseVars
  <2>4. CASE UnlockLeague(LeagueRow)
    BY <2>4 DEF UnlockLeague, leaseVars
  <2> QED
    BY <1>4, <2>1, <2>2, <2>3, <2>4 DEF ThreadEndpoint
<1>5. CASE \E r \in Runners : RunnerStep(r)
  BY <1>5, <1>1, <1>2 DEF RunnerStep, ClaimLease, Heartbeat, OwnsDraft, ReleaseLease,
     MarkFailed, RunnerPick
<1>6. CASE MarkThinking \/ (\E due \in SUBSET Pending : RevealDue(due)) \/ LeaseExpires
  BY <1>6 DEF MarkThinking, RevealDue, LeaseExpires, leaseVars
<1>7. CASE RosterMove \/ UNCHANGED serviceVars
  BY <1>7, RosterFrame DEF serviceVars, leaseVars
<1> QED
  BY <1>3, <1>4, <1>5, <1>6, <1>7 DEF Next

\* Only an active or completed draft has an owner, and only an owner has a lease: what
\* is paused or handed back can be claimed.
THEOREM OwnerCorrect == ServiceSpec => []OwnerOnlyWhileOpen
<1>1. Init => OwnerOnlyWhileOpen
  BY DEF Init, OwnerOnlyWhileOpen
<1> QED
  BY <1>1, OwnerStep, TypeCorrect, PTL DEF ServiceSpec
-----------------------------------------------------------------------------
(* Selections and rosters.                                                 *)

\* Row n keeps its selection: the player, and the team when there is a player.
Keeps(n) == /\ picks'[n].player = picks[n].player
            /\ picks[n].player # None => picks'[n].team = picks[n].team

\* What a transaction can do to the selections of the board: nothing, ...
NothingSelected == \A n \in PickNumbers : Keeps(n)

\* ... fill the row on the clock with a player no pick has and sign him, ...
OneSelected ==
    \E n \in PickNumbers, p \in Players :
        /\ picks[n].player = None /\ picks'[n].player = p
        /\ \A m \in PickNumbers : picks[m].player # p
        /\ \A m \in PickNumbers \ {n} : Keeps(m)
        /\ roster' = [roster EXCEPT ![p] = [team |-> picks'[n].team, via |-> "DRAFT"]]

\* ... or empty one row and release its player.
OneUndone ==
    \E n \in PickNumbers :
        /\ picks'[n].player = None
        /\ \A m \in PickNumbers \ {n} : Keeps(m)
        /\ roster' = [roster EXCEPT ![picks[n].player] = FreeAgent]

\* A row that does not exist yet has no player to lose when it is added.
AbsentAreEmpty == \A n \in PickNumbers : picks[n].state = "ABSENT" => picks[n].player = None

LEMMA BoardAbsent == BoardInv => AbsentAreEmpty
BY FreshRows DEF BoardInv, PicksFollowSnake, AbsentAreEmpty

\* No transaction takes a row away, and a row it writes exists.
RowsExist == \A n \in PickNumbers : picks'[n] = picks[n] \/ picks'[n].state # "ABSENT"

LEMMA AbsentStep == AbsentAreEmpty /\ RowsExist => AbsentAreEmpty'
BY DEF AbsentAreEmpty, RowsExist

LEMMA EnsureKeeps ==
    ASSUME TypeOK, AbsentAreEmpty, picks' = EnsureRow(picks, current)
    PROVE  NothingSelected /\ RowsExist
<1>1. current \in PickNumbers
  BY DEF TypeOK
<1>2. \A n \in PickNumbers : n # current => picks'[n] = picks[n]
  BY <1>1 DEF EnsureRow, TypeOK
<1>3. \/ picks'[current] = picks[current]
      \/ picks'[current] = NewRow(current) /\ picks[current].state = "ABSENT"
  BY <1>1 DEF EnsureRow, TypeOK
<1> QED
  BY <1>1, <1>2, <1>3, FreshRows DEF NothingSelected, RowsExist, Keeps, AbsentAreEmpty

\* A row without a player, or one to be added, has none when its state is written.
LEMMA OpenKeeps ==
    ASSUME TypeOK, AbsentAreEmpty, NEW s \in OpenStates, RowOf(current).player = None,
           picks' = [picks EXCEPT ![current] = [RowOf(current) EXCEPT !.state = s]]
    PROVE  NothingSelected /\ RowsExist
<1>1. current \in PickNumbers /\ RowOf(current) \in PickRows /\ picks[current].player = None
  BY RowOfType DEF RowOf, TypeOK, AbsentAreEmpty
<1>2. /\ picks'[current].player = None /\ picks'[current].state = s
      /\ \A n \in PickNumbers \ {current} : picks'[n] = picks[n]
  BY <1>1 DEF TypeOK, PickRows
<1> QED
  BY <1>1, <1>2 DEF NothingSelected, RowsExist, Keeps, OpenStates

LEMMA MakePickSelects ==
    ASSUME TypeOK, AbsentAreEmpty, NEW d, NEW n \in PickNumbers, NEW r, NEW p \in Players,
           NEW s \in MadeStates, MakePick(d, n, r, p, s)
    PROVE  OneSelected /\ RowsExist
<1> DEFINE made == [RowOf(n) EXCEPT !.player = p, !.state = s]
<1> DEFINE board == [picks EXCEPT ![n] = made]
<1>1. n \in Nat /\ Total \in Nat
  BY TotalType DEF PickNumbers
<1>2. picks[n].player = None /\ RowOf(n) \in PickRows
  BY RowOfType DEF MakePick, Selectable, RowOf, AbsentAreEmpty
<1>3. made.player = p /\ made.state = s /\ p # None /\ s # "ABSENT"
  BY <1>2, NoneAssumption DEF PickRows, MadeStates
<1>4. board[n] = made /\ \A m \in PickNumbers \ {n} : board[m] = picks[m]
  BY DEF TypeOK
<1>5. /\ picks'[n] = made
      /\ \A m \in PickNumbers \ {n} :
            \/ picks'[m] = picks[m]
            \/ picks'[m] = NewRow(m) /\ picks[m].state = "ABSENT"
  <2>1. CASE n >= Total
    <3>1. picks' = board
      BY <1>1, <2>1 DEF MakePick
    <3> QED
      BY <1>4, <3>1
  <2>2. CASE n < Total
    <3>1. picks' = EnsureRow(board, n + 1) /\ n + 1 \in PickNumbers
      BY <1>1, <2>2 DEF MakePick, PickNumbers
    <3>2. picks'[n] = made /\ \A m \in PickNumbers \ {n, n + 1} : picks'[m] = picks[m]
      BY <1>1, <1>4, <3>1 DEF EnsureRow, TypeOK
    <3>3. \/ picks'[n + 1] = picks[n + 1]
          \/ picks'[n + 1] = NewRow(n + 1) /\ picks[n + 1].state = "ABSENT"
      BY <1>1, <1>4, <3>1 DEF EnsureRow, TypeOK
    <3> QED
      BY <1>1, <3>2, <3>3
  <2> QED
    BY <1>1, <2>1, <2>2
<1>6. \A m \in PickNumbers \ {n} : Keeps(m)
  BY <1>5, FreshRows DEF Keeps, AbsentAreEmpty
<1>7. roster' = [roster EXCEPT ![p] = [team |-> picks'[n].team, via |-> "DRAFT"]]
  BY <1>5 DEF MakePick
<1>8. \A m \in PickNumbers : picks[m].player # p
  BY DEF MakePick, Selectable
<1>9. RowsExist
  BY <1>3, <1>5, FreshRows DEF RowsExist
<1> QED
  BY <1>2, <1>3, <1>5, <1>6, <1>7, <1>8, <1>9 DEF OneSelected

\* What a transaction other than a roster move does to the selections.
Selects == (NothingSelected /\ roster' = roster) \/ OneSelected \/ OneUndone

LEMMA NothingTouched == UNCHANGED <<picks, roster>> => Selects /\ RowsExist
BY DEF Selects, NothingSelected, RowsExist, Keeps

LEMMA UndoSelects ==
    ASSUME TypeOK, NEW d, UndoLastPick(d)
    PROVE  OneUndone /\ RowsExist
<1>1. PICK n \in PickNumbers :
         /\ roster' = [roster EXCEPT ![picks[n].player] = FreeAgent]
         /\ picks' = [picks EXCEPT ![n] = EmptiedRow(picks[n])]
  BY DEF UndoLastPick, FreePlayer
<1>2. /\ picks'[n].player = None /\ picks'[n].state = "WAITING_FOR_MANAGER"
      /\ \A m \in PickNumbers \ {n} : picks'[m] = picks[m]
  BY <1>1 DEF EmptiedRow, TypeOK, PickRows
<1> QED
  BY <1>1, <1>2 DEF OneUndone, RowsExist, Keeps

LEMMA EndpointSelects ==
    ASSUME TypeOK, AbsentAreEmpty, NEW d, NEW l, d.current \in PickNumbers, Endpoint(d, l)
    PROVE  Selects /\ RowsExist
<1>1. CASE Start(l) \/ Resume(l)
  BY <1>1, EnsureKeeps DEF Start, Resume, Selects
<1>2. ASSUME NEW p \in Players, AdminPick(d, p) PROVE Selects /\ RowsExist
  BY <1>2, MakePickSelects DEF AdminPick, MadeStates, Selects
<1>3. CASE UndoLastPick(d)
  BY <1>3, UndoSelects DEF Selects
<1>4. ASSUME NEW o \in Orders, SetOrder(l, o) PROVE Selects /\ RowsExist
  BY <1>4, NothingTouched DEF SetOrder
<1>5. CASE LockLeague(l) \/ UnlockLeague(l)
  BY <1>5, NothingTouched DEF LockLeague, UnlockLeague
<1> QED
  BY <1>1, <1>2, <1>3, <1>4, <1>5 DEF Endpoint

LEMMA RunnerSelects ==
    ASSUME TypeOK, AbsentAreEmpty, NEW r \in Runners, RunnerStep(r)
    PROVE  Selects /\ RowsExist
<1>1. CASE ClaimLease(r) \/ Heartbeat(r) \/ ReleaseLease(r)
  BY <1>1, NothingTouched DEF ClaimLease, Heartbeat, ReleaseLease
<1>2. CASE MarkFailed(r)
  BY <1>2, OpenKeeps DEF MarkFailed, OpenStates, Selects
<1>3. ASSUME NEW n \in PickNumbers, NEW p \in Players, RunnerPick(r, n, p)
      PROVE  Selects /\ RowsExist
  BY <1>3, MakePickSelects DEF RunnerPick, MadeStates, Selects
<1> QED
  BY <1>1, <1>2, <1>3 DEF RunnerStep

LEMMA SelectionStep ==
    ASSUME TypeOK, BoardInv, [Next]_serviceVars
    PROVE  Selects \/ (NothingSelected /\ RosterMove)
<1>0. current \in PickNumbers /\ AbsentAreEmpty
  BY BoardAbsent DEF TypeOK
<1>1. CASE AsyncEndpoint \/ ThreadEndpoint
  <2>1. CASE Endpoint(DraftRow, LeagueRow)
    BY <1>0, <2>1, EndpointSelects DEF DraftRow
  <2> QED
    BY <1>1, <2>1, EndpointNow, NothingTouched DEF Pause
<1>2. ASSUME NEW r \in Runners, RunnerStep(r) PROVE Selects
  BY <1>0, <1>2, RunnerSelects
<1>3. CASE MarkThinking
  BY <1>0, <1>3, OpenKeeps, TurnRow DEF MarkThinking, OpenStates, Selects
<1>4. ASSUME NEW due \in SUBSET Pending, RevealDue(due) PROVE Selects
  BY <1>4 DEF RevealDue, NothingSelected, Keeps, TypeOK, PickRows, Selects
<1>5. CASE LeaseExpires \/ UNCHANGED serviceVars
  BY <1>5, NothingTouched DEF LeaseExpires, serviceVars
<1>6. CASE RosterMove
  BY <1>6, RosterFrame DEF NothingSelected, Keeps
<1> QED
  BY <1>1, <1>2, <1>3, <1>4, <1>5, <1>6 DEF Next

RosterInv == NoDoubleSelection /\ DraftedRosterMatchesBoard

LEMMA SelectionsKeepRosters ==
    ASSUME TypeOK, RosterInv, Selects \/ (NothingSelected /\ RosterMove)
    PROVE  RosterInv'
<1> USE DEF RosterInv
<1>1. \A p \in Players : p # None
  BY NoneAssumption
<1>2. /\ \A n \in PickNumbers : picks[n].player \in Players \cup {None}
      /\ \A p \in Players : roster[p] \in Assignments
      /\ DOMAIN roster = Players
  BY DEF TypeOK, PickRows
<1>3. CASE NothingSelected /\ (roster' = roster \/ RosterMove)
  <2>1. NoDoubleSelection'
    BY <1>3 DEF NothingSelected, Keeps, NoDoubleSelection
  <2>2. \A p \in Players : roster'[p].via = "DRAFT" => roster'[p] = roster[p]
    BY <1>3, RosterFrame
  <2>3. DraftedRosterMatchesBoard'
    BY <1>1, <1>3, <2>2 DEF NothingSelected, Keeps, DraftedRosterMatchesBoard
  <2> QED
    BY <2>1, <2>3
<1>4. CASE OneSelected
  <2>1. PICK n \in PickNumbers, p \in Players :
           /\ picks[n].player = None /\ picks'[n].player = p
           /\ \A m \in PickNumbers : picks[m].player # p
           /\ \A m \in PickNumbers \ {n} : Keeps(m)
           /\ roster' = [roster EXCEPT ![p] = [team |-> picks'[n].team, via |-> "DRAFT"]]
    BY <1>4 DEF OneSelected
  <2>2. NoDoubleSelection'
    BY <1>1, <2>1 DEF NoDoubleSelection, Keeps
  <2>3. roster'[p].team = picks'[n].team
    BY <1>2, <2>1
  <2>4. \A q \in Players \ {p} : roster'[q] = roster[q]
    BY <1>2, <2>1
  <2>5. DraftedRosterMatchesBoard'
    BY <1>1, <2>1, <2>3, <2>4 DEF DraftedRosterMatchesBoard, Keeps
  <2> QED
    BY <2>2, <2>5
<1>5. CASE OneUndone
  <2>1. PICK n \in PickNumbers :
           /\ picks'[n].player = None
           /\ \A m \in PickNumbers \ {n} : Keeps(m)
           /\ roster' = [roster EXCEPT ![picks[n].player] = FreeAgent]
    BY <1>5 DEF OneUndone
  <2>2. NoDoubleSelection'
    BY <2>1 DEF NoDoubleSelection, Keeps
  <2>3. \A q \in Players : IF q = picks[n].player THEN roster'[q] = FreeAgent
                           ELSE roster'[q] = roster[q]
    BY <1>2, <2>1
  <2>4. DraftedRosterMatchesBoard'
    BY <1>1, <2>1, <2>3 DEF DraftedRosterMatchesBoard, Keeps, FreeAgent
  <2> QED
    BY <2>2, <2>4
<1> QED
  BY <1>3, <1>4, <1>5 DEF Selects

LEMMA RosterStep == TypeOK /\ BoardInv /\ RosterInv /\ [Next]_serviceVars => RosterInv'
BY SelectionStep, SelectionsKeepRosters

LEMMA RosterInit == Init => RosterInv
BY DEF Init, NoRow, FreeAgent, RosterInv, NoDoubleSelection, DraftedRosterMatchesBoard

\* No player is ever selected by two picks, whatever the free-agent, waiver and
\* trade transactions do to the rosters while the draft runs.
THEOREM NoPlayerTwice == ServiceSpec => []NoDoubleSelection
<1>1. RosterInv => NoDoubleSelection
  BY DEF RosterInv
<1> QED
  BY <1>1, RosterInit, RosterStep, TypeCorrect, BoardCorrect, PTL DEF ServiceSpec

\* Every roster row acquired through the draft is backed by a pick of its team:
\* an undo releases exactly the player it takes off the board.
THEOREM DraftedRosters == ServiceSpec => []DraftedRosterMatchesBoard
<1>1. RosterInv => DraftedRosterMatchesBoard
  BY DEF RosterInv
<1> QED
  BY <1>1, RosterInit, RosterStep, TypeCorrect, BoardCorrect, PTL DEF ServiceSpec

\* Values, phases and ownership of the draft's and the league's rows always fit
\* each other.
THEOREM DraftCorrect == ServiceSpec => []DraftConsistent
BY TypeCorrect, PhaseCorrect, PhaseFollows, OwnerCorrect, PTL DEF DraftConsistent

\* Board and rosters agree on who was drafted by whom, and nobody is drafted twice,
\* whatever other roster moves do.
THEOREM SelectionsCorrect == ServiceSpec => []SelectionsSound
BY NoPlayerTwice, DraftedRosters, PTL DEF SelectionsSound
-----------------------------------------------------------------------------
(* Requests that work on rows loaded before the row lock.                  *)

\* What a request can hold, and the pick rows the loop can hold.
DraftRows == [status : DraftStatuses, current : PickNumbers]
LeagueRows == [locked : BOOLEAN, status : LeagueStatuses]
Held == {Idle} \cup [op : {"admin_pick", "undo"}, draft : DraftRows]
               \cup [op : {"start", "resume", "set_order", "lock", "unlock"}, league : LeagueRows]
HeldRows ==
    /\ request \in [Requests -> Held]
    /\ revealing \subseteq PickNumbers
    /\ thinking \subseteq PickNumbers

\* The clock may lag behind the board here, and a made pick may read THINKING.  What
\* is left is enough: whom a row selects is asked and written under the lock.
SessionInv == TypeOK /\ HeldRows /\ AbsentAreEmpty /\ RosterInv

LEMMA LoadedHeld ==
    ASSUME TypeOK, NEW op \in AsyncOps \cup ThreadOps PROVE Loaded(op) \in Held
BY DEF TypeOK, Loaded, Held, DraftRow, LeagueRow, DraftRows, LeagueRows, AsyncOps, ThreadOps

\* A request that is finished was one of the endpoints, on the row it held.
LEMMA ServeEndpoint ==
    ASSUME TypeOK, NEW q \in Held, Serve(q)
    PROVE  \E d \in DraftRows : \E l : Endpoint(d, l)
<1>1. DraftRow \in DraftRows
  BY DEF TypeOK, DraftRow, DraftRows
<1>2. CASE q.op \in {"admin_pick", "undo"}
  <2>1. q.draft \in DraftRows
    BY <1>2 DEF Held, Idle
  <2>2. Endpoint(q.draft, LeagueRow)
    BY <1>2 DEF Serve, Endpoint
  <2> QED
    BY <2>1, <2>2
<1>3. CASE q.op \notin {"admin_pick", "undo"}
  <2>1. Endpoint(DraftRow, q.league)
    BY <1>3 DEF Serve, Endpoint
  <2> QED
    BY <1>1, <2>1
<1> QED
  BY <1>2, <1>3

\* Writing states of rows selects nobody.
LEMMA StatesWritten ==
    ASSUME TypeOK, NEW ns \in SUBSET PickNumbers, NEW s \in OpenStates \cup MadeStates,
           picks' = [n \in PickNumbers |->
                        IF n \in ns THEN [picks[n] EXCEPT !.state = s] ELSE picks[n]],
           UNCHANGED <<leagueVars, status, current, order, leaseVars, roster>>
    PROVE  TypeOK' /\ Selects /\ RowsExist
<1>1. \A n \in PickNumbers :
         /\ picks'[n] \in PickRows
         /\ Keeps(n)
         /\ picks'[n] = picks[n] \/ picks'[n].state = s
  BY DEF TypeOK, PickRows, Keeps
<1>2. picks' \in [PickNumbers -> PickRows]
  BY <1>1
<1>3. TypeOK'
  BY <1>2 DEF TypeOK, leagueVars, leaseVars
<1>4. s # "ABSENT"
  BY DEF OpenStates, MadeStates
<1> QED
  BY <1>1, <1>3, <1>4 DEF Selects, NothingSelected, RowsExist

LEMMA SessionStep == SessionInv /\ [SessionNext]_sessionVars => SessionInv'
<1> SUFFICES ASSUME SessionInv, [SessionNext]_sessionVars PROVE SessionInv'
  OBVIOUS
<1> USE DEF SessionInv
<1> DEFINE Written == TypeOK' /\ Selects /\ RowsExist
<1>1. Written /\ HeldRows' => SessionInv'
  BY AbsentStep, SelectionsKeepRosters
<1>2. UNCHANGED serviceVars => Written
  BY NothingTouched DEF serviceVars, leagueVars, leaseVars, TypeOK
<1>3. ASSUME NEW c \in Requests, NEW op \in AsyncOps \cup ThreadOps, Load(c, op)
      PROVE  SessionInv'
  <2>1. HeldRows'
    BY <1>3, LoadedHeld DEF Load, HeldRows, loopVars
  <2> QED
    BY <1>1, <1>2, <1>3, <2>1 DEF Load
<1>4. ASSUME NEW c \in Requests, Finish(c) PROVE SessionInv'
  <2>1. HeldRows'
    BY <1>4 DEF Finish, HeldRows, loopVars, Held
  <2>2. PICK d \in DraftRows : \E l : Endpoint(d, l)
    BY <1>4, ServeEndpoint DEF Finish, HeldRows
  <2>3. d.current \in PickNumbers
    BY DEF DraftRows
  <2>4. Written
    BY <2>2, <2>3, EndpointType, EndpointSelects
  <2> QED
    BY <1>1, <2>1, <2>4
<1>5. ASSUME NEW c \in Requests, Rollback(c) PROVE SessionInv'
  <2>1. HeldRows'
    BY <1>5 DEF Rollback, HeldRows, loopVars, Held
  <2> QED
    BY <1>1, <1>2, <1>5, <2>1 DEF Rollback
<1>6. UNCHANGED <<request, loopVars>> => HeldRows'
  BY DEF HeldRows, loopVars
<1>7. CASE PauseRequest
  <2>1. TypeOK'
    BY <1>7, TypeStep DEF PauseRequest, Next, ThreadEndpoint
  <2>2. Selects /\ RowsExist
    BY <1>7, NothingTouched DEF PauseRequest, Pause
  <2> QED
    BY <1>1, <1>6, <1>7, <2>1, <2>2 DEF PauseRequest
<1>8. CASE RunnerTransaction
  <2>1. TypeOK'
    BY <1>8, TypeStep DEF RunnerTransaction, Next
  <2>2. Selects /\ RowsExist
    BY <1>8, RunnerSelects DEF RunnerTransaction
  <2> QED
    BY <1>1, <1>6, <1>8, <2>1, <2>2 DEF RunnerTransaction
<1>9. CASE RevealLoad
  <2>1. HeldRows'
    BY <1>9 DEF RevealLoad, HeldRows, Pending
  <2> QED
    BY <1>1, <1>2, <1>9, <2>1 DEF RevealLoad
<1>10. CASE RevealWrite
  <2>1. HeldRows'
    BY <1>10 DEF RevealWrite, HeldRows
  <2>2. Written
    BY <1>10, StatesWritten DEF RevealWrite, HeldRows, MadeStates
  <2> QED
    BY <1>1, <2>1, <2>2
<1>11. CASE ThinkLoad
  <2>1. HeldRows'
    BY <1>11 DEF ThinkLoad, HeldRows, TypeOK
  <2>2. Selects /\ RowsExist
    BY <1>11, EnsureKeeps DEF ThinkLoad, Selects
  <2>3. picks' \in [PickNumbers -> PickRows]
    BY <1>11, EnsureRowType DEF ThinkLoad, TypeOK
  <2>4. TypeOK'
    BY <1>11, <2>3 DEF ThinkLoad, TypeOK, leagueVars, leaseVars
  <2> QED
    BY <1>1, <2>1, <2>2, <2>4
<1>12. CASE ThinkWrite
  <2>1. HeldRows'
    BY <1>12 DEF ThinkWrite, HeldRows
  <2>2. PICK n \in PickNumbers : picks' = [picks EXCEPT ![n].state = "THINKING"]
    BY <1>12 DEF ThinkWrite, HeldRows
  <2>3. picks' = [m \in PickNumbers |->
                    IF m \in {n} THEN [picks[m] EXCEPT !.state = "THINKING"] ELSE picks[m]]
    BY <2>2 DEF TypeOK
  <2>4. Written
    BY <1>12, <2>3, StatesWritten DEF ThinkWrite, OpenStates
  <2> QED
    BY <1>1, <2>1, <2>4
<1>13. CASE UNCHANGED sessionVars
  BY <1>1, <1>2, <1>6, <1>13 DEF sessionVars
<1> QED
  BY <1>3, <1>4, <1>5, <1>7, <1>8, <1>9, <1>10, <1>11, <1>12, <1>13 DEF SessionNext

\* However requests, threads and the runner's loop interleave between the loads of rows
\* and the row locks, nobody is selected twice and the rosters follow the board.
THEOREM SelectionsSurvive == SessionSpec => []SelectionsSurviveRaces
<1>1. SessionInit => SessionInv
  <2> SUFFICES ASSUME SessionInit PROVE SessionInv
    OBVIOUS
  <2>1. Init
    BY DEF SessionInit
  <2>2. TypeOK /\ RosterInv
    BY <2>1, InitType, RosterInit
  <2>3. HeldRows /\ AbsentAreEmpty
    BY <2>1 DEF SessionInit, Init, HeldRows, Held, NoRow, AbsentAreEmpty
  <2> QED
    BY <2>2, <2>3 DEF SessionInv
<1>2. SessionInv => SelectionsSurviveRaces
  BY DEF SessionInv, RosterInv, SelectionsSurviveRaces
<1> QED
  BY <1>1, <1>2, SessionStep, PTL DEF SessionSpec
-----------------------------------------------------------------------------
(* Fairness of the completed board.                                        *)

LEMMA ProductMonotone ==
    ASSUME NEW a \in Nat, NEW b \in Nat, NEW n \in Nat, a <= b PROVE a * n <= b * n
OBVIOUS

LEMMA QuotientAndRest ==
    ASSUME NEW n \in Nat \ {0}, NEW q \in Nat, NEW j \in 0..(n - 1)
    PROVE  (q * n + j) \div n = q /\ (q * n + j) % n = j
OBVIOUS

\* An order, having as many places as there are teams, has each of them at one place.
LEMMA OrderIsComplete ==
    ASSUME NEW o \in Orders, NEW t \in Teams
    PROVE  \E i \in 1..NumTeams : o[i] = t
<1>1. o \in Injection(1..NumTeams, Teams)
  BY DEF Orders, Injection, IsInjective
<1>2. IsFiniteSet(1..NumTeams) /\ Cardinality(1..NumTeams) = NumTeams
  BY TeamsAssumption, FS_Interval
<1>3. o \in Surjection(1..NumTeams, Teams)
  BY <1>1, <1>2, TeamsAssumption, FS_Injection DEF NumTeams
<1> QED
  BY <1>3 DEF Surjection

\* The place of a round that the team at position i of the order has.
PlaceInRound(i, r) == IF r % 2 = 1 THEN i ELSE NumTeams - i + 1
Nth(i, r) == (r - 1) * NumTeams + PlaceInRound(i, r)

\* Every position of the order has its pick in every round.
LEMMA NthPick ==
    ASSUME NEW r \in 1..Rounds, NEW i \in 1..NumTeams, NEW o \in Orders
    PROVE  /\ Nth(i, r) \in PicksOfRound(r) /\ Nth(i, r) \in PickNumbers
           /\ TeamForPick(o, Nth(i, r), NumTeams) = o[i]
<1> DEFINE q == r - 1
           j == PlaceInRound(i, r) - 1
           N == NumTeams
<1>1. N \in Nat /\ N >= 2 /\ Rounds \in Nat /\ q \in Nat /\ r = q + 1 /\ r <= Rounds
  BY TeamsAssumption, SizeAssumption
<1>2. PlaceInRound(i, r) \in 1..N /\ j \in 0..(N - 1)
  BY <1>1 DEF PlaceInRound
<1>3. q * N \in Nat /\ r * N = q * N + N /\ Nth(i, r) = q * N + j + 1 /\ Total = Rounds * N
      /\ Total \in Nat
  BY <1>1, <1>2, TotalType DEF Nth, Total
<1> HIDE DEF q, j, N
<1>4. r * N <= Total
  BY <1>1, <1>3, ProductMonotone
<1>5. Nth(i, r) > q * N /\ Nth(i, r) <= r * N /\ Nth(i, r) \in 1..Total
  <2> DEFINE before == q * N
             end == r * N
  <2>1. before \in Nat /\ end = before + N /\ Nth(i, r) = before + j + 1 /\ end <= Total
        /\ N \in Nat /\ j \in Nat /\ j < N /\ Total \in Nat
    BY <1>1, <1>2, <1>3, <1>4
  <2> HIDE DEF before, end
  <2>2. Nth(i, r) > before /\ Nth(i, r) <= end /\ Nth(i, r) \in 1..Total
    BY <2>1
  <2> QED
    BY <2>2 DEF before, end
<1>6. Nth(i, r) \in PickNumbers /\ Nth(i, r) \in PicksOfRound(r)
  BY <1>5 DEF PicksOfRound, PickNumbers, q, N
<1>7. RoundOf(Nth(i, r), N) = r /\ RoundPick(Nth(i, r), N) = PlaceInRound(i, r)
  <2>1. Nth(i, r) - 1 = q * N + j
    BY <1>1, <1>2, <1>3
  <2>2. (Nth(i, r) - 1) \div N = q /\ (Nth(i, r) - 1) % N = j
    <3>1. N \in Nat \ {0}
      BY <1>1
    <3>2. (q * N + j) \div N = q /\ (q * N + j) % N = j
      BY <1>1, <1>2, <3>1, QuotientAndRest
    <3> QED
      BY <2>1, <3>2
  <2>3. j + 1 = PlaceInRound(i, r)
    BY <1>2 DEF j
  <2> QED
    BY <1>1, <2>2, <2>3 DEF RoundOf, RoundPick
<1>8. SlotForPick(Nth(i, r), N) = i
  BY <1>1, <1>7 DEF SlotForPick, PlaceInRound, N
<1> QED
  BY <1>6, <1>8 DEF TeamForPick, N

\* ... and a round has no other picks.
LEMMA PickIsNth ==
    ASSUME NEW r \in 1..Rounds, NEW n \in PicksOfRound(r)
    PROVE  \E i \in 1..NumTeams : n = Nth(i, r)
<1>1. /\ NumTeams \in Nat /\ Rounds \in Nat /\ r \in Nat /\ r >= 1
      /\ n \in PickNumbers /\ n \in Nat /\ n > (r - 1) * NumTeams /\ n <= r * NumTeams
  BY TeamsAssumption, SizeAssumption, TotalType DEF PicksOfRound, PickNumbers
<1>2. (r - 1) * NumTeams \in Nat /\ r * NumTeams = (r - 1) * NumTeams + NumTeams
  BY <1>1
<1> DEFINE place == n - (r - 1) * NumTeams
<1>3. place \in 1..NumTeams /\ n = (r - 1) * NumTeams + place
  BY <1>1, <1>2
<1>4. NumTeams - place + 1 \in 1..NumTeams /\ NumTeams - (NumTeams - place + 1) + 1 = place
  BY <1>1, <1>3
<1> HIDE DEF place
<1>5. CASE r % 2 = 1
  BY <1>3, <1>5 DEF Nth, PlaceInRound
<1>6. CASE r % 2 # 1
  BY <1>3, <1>4, <1>6 DEF Nth, PlaceInRound
<1> QED
  BY <1>5, <1>6

\* On a board that follows the snake the picks of a round are one of every team, and
\* the team at position i has the round's pick for that position.
LEMMA TeamsPick ==
    ASSUME TypeOK, \A n \in PickNumbers : picks[n].team = TeamForPick(order, n, NumTeams),
           NEW r \in 1..Rounds
    PROVE  /\ {picks[n].team : n \in PicksOfRound(r)} = Teams
           /\ \A i \in 1..NumTeams : PickOf(order[i], r) = Nth(i, r)
<1>1. order \in Orders
  BY DEF TypeOK
<1>2. \A i \in 1..NumTeams : /\ Nth(i, r) \in PicksOfRound(r)
                             /\ picks[Nth(i, r)].team = order[i]
  BY <1>1, NthPick
<1>3. \A n \in PicksOfRound(r) : \E i \in 1..NumTeams : n = Nth(i, r) /\ picks[n].team = order[i]
  BY <1>2, PickIsNth
<1>4. \A i, j \in 1..NumTeams : order[i] \in Teams /\ (order[i] = order[j] => i = j)
  BY <1>1 DEF Orders
<1>5. \A t \in Teams : \E i \in 1..NumTeams : order[i] = t
  BY <1>1, OrderIsComplete
<1>6. {picks[n].team : n \in PicksOfRound(r)} = Teams
  BY <1>2, <1>3, <1>4, <1>5
<1>7. ASSUME NEW i \in 1..NumTeams PROVE PickOf(order[i], r) = Nth(i, r)
  <2>1. \A n \in PicksOfRound(r) : picks[n].team = order[i] => n = Nth(i, r)
    BY <1>3, <1>4
  <2> QED
    BY <1>2, <2>1 DEF PickOf
<1> QED
  BY <1>6, <1>7

LEMMA TurnsAddUp ==
    ASSUME NEW r \in 1..Rounds, r % 2 = 0, NEW i \in 1..NumTeams
    PROVE  /\ r - 1 \in 1..Rounds
           /\ Nth(i, r - 1) + Nth(i, r) = (r - 2) * NumTeams + (r - 1) * NumTeams + NumTeams + 1
<1>1. NumTeams \in Nat /\ Rounds \in Nat /\ r \in Nat /\ r >= 2
  BY TeamsAssumption, SizeAssumption
<1>2. (r - 1) % 2 = 1 /\ (r - 1) - 1 = r - 2
  BY <1>1
<1>3. Nth(i, r - 1) = (r - 2) * NumTeams + i
  BY <1>1, <1>2 DEF Nth, PlaceInRound
<1>4. Nth(i, r) = (r - 1) * NumTeams + (NumTeams - i + 1)
  BY <1>1 DEF Nth, PlaceInRound
<1>5. (r - 2) * NumTeams \in Nat /\ (r - 1) * NumTeams \in Nat
  BY <1>1
<1> QED
  BY <1>1, <1>3, <1>4, <1>5

\* A board that is complete is fair: each team picked once in every round, and over two
\* rounds, one forward and one back, all of them waited equally long.
THEOREM DraftIsFair == ServiceSpec => []FairDraft
<1>1. TypeOK /\ BoardInv => FairDraft
  <2> SUFFICES ASSUME TypeOK, BoardInv, status = "COMPLETED", NEW r \in 1..Rounds
               PROVE  /\ {picks[n].team : n \in PicksOfRound(r)} = Teams
                      /\ r % 2 = 0 =>
                            \A t, u \in Teams : PickOf(t, r - 1) + PickOf(t, r)
                                                  = PickOf(u, r - 1) + PickOf(u, r)
    BY DEF FairDraft
  <2>1. \A n \in PickNumbers : picks[n].team = TeamForPick(order, n, NumTeams)
    BY FreshRows DEF BoardInv, BoardMatchesClock, PicksFollowSnake
  <2>2. ASSUME r % 2 = 0, NEW t \in Teams
        PROVE  PickOf(t, r - 1) + PickOf(t, r)
                 = (r - 2) * NumTeams + (r - 1) * NumTeams + NumTeams + 1
    <3>1. PICK i \in 1..NumTeams : order[i] = t
      BY OrderIsComplete DEF TypeOK
    <3>2. r - 1 \in 1..Rounds
      BY <2>2, <3>1, TurnsAddUp
    <3>3. PickOf(t, r - 1) = Nth(i, r - 1) /\ PickOf(t, r) = Nth(i, r)
      BY <2>1, <3>1, <3>2, TeamsPick
    <3> QED
      BY <2>2, <3>3, TurnsAddUp
  <2> QED
    BY <2>1, <2>2, TeamsPick
<1> QED
  BY <1>1, BoardCorrect, TypeCorrect, PTL
-----------------------------------------------------------------------------
(* The draft keeps the promise of DraftPromise: every transaction is a     *)
(* step of the board or leaves the board as it is.                         *)

Entry(n) == [team |-> picks[n].team, player |-> picks[n].player]
Entries == [team : Teams \cup {None}, player : Players \cup {None}]

\* The board holds exactly the picks that are made.
MadeFirst ==
    /\ MadeCount \in 0..Total /\ Total \in Nat
    /\ \A n \in PickNumbers : n <= MadeCount <=> picks[n].player # None
    /\ \A n \in 1..MadeCount : n \in PickNumbers

LEMMA MadePicks == TypeOK /\ BoardInv => MadeFirst
<1> SUFFICES ASSUME TypeOK, BoardInv PROVE MadeFirst
  OBVIOUS
<1>1. /\ current \in Nat /\ current >= 1 /\ current <= Total /\ Total \in Nat
      /\ \A n \in PickNumbers : n \in Nat /\ n <= Total
  BY TotalType DEF TypeOK, PickNumbers
<1>2. MadeCount \in 0..Total
  BY <1>1 DEF MadeCount
<1>3. \A n \in PickNumbers : n <= MadeCount <=> n < current \/ status = "COMPLETED"
  BY <1>1 DEF MadeCount
<1>4. \A n \in 1..MadeCount : n \in PickNumbers
  BY <1>1, <1>2 DEF PickNumbers
<1> QED
  BY <1>1, <1>2, <1>3, <1>4 DEF BoardInv, BoardMatchesClock, MadeFirst

\* It is a sequence of their entries.
BoardRead ==
    /\ Board \in Seq(Entries) /\ Len(Board) = MadeCount
    /\ \A n \in 1..MadeCount : Board[n] = Entry(n)

LEMMA BoardType == TypeOK /\ BoardInv => BoardRead
<1> USE DEF MadeFirst
<1> SUFFICES ASSUME TypeOK, BoardInv PROVE BoardRead
  OBVIOUS
<1>1. \A n \in 1..MadeCount : Entry(n) \in Entries
  BY MadePicks DEF Entry, Entries, TypeOK, PickRows
<1>2. MadeCount \in Nat
  BY MadePicks
<1>3. Board = [n \in 1..MadeCount |-> Entry(n)]
  BY DEF Board, Entry
<1>4. Board \in [1..MadeCount -> Entries]
  BY <1>1, <1>3
<1>5. Board \in Seq(Entries)
  BY <1>2, <1>4, SeqDef
<1>6. Len(Board) \in Nat /\ 1..Len(Board) = 1..MadeCount
  BY <1>4, <1>5, LenProperties
<1>7. Len(Board) = MadeCount
  BY <1>2, <1>6
<1> QED
  BY <1>3, <1>5, <1>7 DEF BoardRead

\* Both hold after a step when they hold before.
LEMMA BoardNext == TypeOK' /\ BoardInv' => MadeFirst' /\ BoardRead'
BY MadePicks, BoardType, PTL

\* A transaction that selects nothing leaves the board as it is.
LEMMA SameBoard ==
    ASSUME TypeOK, BoardInv, TypeOK', BoardInv', NothingSelected
    PROVE  Board' = Board
<1>1. /\ MadeCount \in 0..Total /\ MadeCount' \in 0..Total /\ Total \in Nat
      /\ \A n \in PickNumbers : n <= MadeCount <=> n <= MadeCount'
  BY MadePicks, BoardNext DEF NothingSelected, Keeps, MadeFirst, PickNumbers, Total, NumTeams
<1>2. MadeCount' = MadeCount
  <2>1. CASE MadeCount < MadeCount'
    <3>1. MadeCount' \in PickNumbers
      BY <1>1, <2>1 DEF PickNumbers
    <3> QED
      BY <1>1, <2>1, <3>1
  <2>2. CASE MadeCount' < MadeCount
    <3>1. MadeCount \in PickNumbers
      BY <1>1, <2>2 DEF PickNumbers
    <3> QED
      BY <1>1, <2>2, <3>1
  <2> QED
    BY <1>1, <2>1, <2>2
<1>3. \A n \in 1..MadeCount : Entry(n)' = Entry(n)
  BY MadePicks DEF NothingSelected, Keeps, Entry, MadeFirst
<1> QED
  BY <1>2, <1>3 DEF Board, Entry

\* One that selects in an open draft adds its selection at the end ...
LEMMA SelectBoard ==
    ASSUME TypeOK, BoardInv, TypeOK', BoardInv', OneSelected,
           status = "ACTIVE", status' \in {"ACTIVE", "COMPLETED"}, order' = order
    PROVE  \E p \in Players : Promise!Select(p)
<1>1. PICK n \in PickNumbers, p \in Players :
         /\ picks[n].player = None /\ picks'[n].player = p
         /\ \A m \in PickNumbers : picks[m].player # p
         /\ \A m \in PickNumbers \ {n} : Keeps(m)
  BY DEF OneSelected
<1>2. p # None /\ n \in Nat /\ n >= 1
  BY NoneAssumption, TotalType DEF PickNumbers
<1>3. /\ MadeCount \in 0..Total /\ MadeCount' \in 0..Total /\ Total \in Nat
      /\ \A m \in PickNumbers : m <= MadeCount' <=> (m <= MadeCount \/ m = n)
      /\ ~(n <= MadeCount)
  BY <1>1, <1>2, MadePicks, BoardNext DEF Keeps, MadeFirst, PickNumbers, Total, NumTeams
<1>4. n = MadeCount + 1
  <2>1. MadeCount + 1 \in PickNumbers /\ n >= MadeCount + 1 /\ n <= MadeCount'
    BY <1>2, <1>3 DEF PickNumbers
  <2> QED
    BY <1>2, <1>3, <2>1
<1>5. MadeCount' = n
  <2>1. MadeCount' >= n /\ MadeCount' \in PickNumbers
    BY <1>2, <1>3 DEF PickNumbers
  <2> QED
    BY <1>2, <1>3, <1>4, <2>1
<1>6. picks'[n].team = TeamForPick(order, n, NumTeams)
  BY <1>1, <1>2, FreshRows DEF BoardInv, PicksFollowSnake, NoRow
<1> DEFINE e == [team |-> TeamForPick(order, n, NumTeams), player |-> p]
<1>7. Entry(n)' = e /\ e \in Entries
  BY <1>1, <1>6, TurnTeamType DEF Entry, Entries, TypeOK
<1>8. \A m \in 1..MadeCount : Entry(m)' = Entry(m)
  BY <1>1, <1>3, MadePicks DEF Keeps, Entry, MadeFirst
<1>9. Board' = Append(Board, e)
  <2>1. /\ Board \in Seq(Entries) /\ Len(Board) = MadeCount
        /\ \A m \in 1..MadeCount : Board[m] = Entry(m)
    BY BoardType DEF BoardRead
  <2>2. /\ Board' \in Seq(Entries) /\ Len(Board') = MadeCount'
        /\ \A m \in 1..MadeCount' : Board'[m] = Entry(m)'
    <3>1. Entries' = Entries
      BY DEF Entries
    <3> QED
      BY <3>1, BoardNext DEF BoardRead
  <2> HIDE DEF e
  <2>3. /\ Append(Board, e) \in Seq(Entries) /\ Len(Append(Board, e)) = MadeCount + 1
        /\ \A m \in 1..MadeCount : Append(Board, e)[m] = Entry(m)
        /\ Append(Board, e)[MadeCount + 1] = e
    BY <1>7, <2>1, AppendProperties
  <2>4. \A m \in 1..MadeCount' : Board'[m] = Append(Board, e)[m]
    BY <1>3, <1>4, <1>5, <1>7, <1>8, <2>2, <2>3
  <2>5. Len(Board') = Len(Append(Board, e))
    BY <1>4, <1>5, <2>2, <2>3
  <2> QED
    BY <2>2, <2>3, <2>4, <2>5, SeqEqual
<1>10. Phase = "open" /\ Phase' = IF Len(Board') = Total THEN "complete" ELSE "open"
  <2>1. status' = "COMPLETED" <=> MadeCount' = Total
    <3>1. current' <= Total /\ current' \in Nat /\ Total \in Nat
      BY <1>2, TotalType DEF TypeOK, PickNumbers, Total, NumTeams
    <3>2. MadeCount' = IF status' = "COMPLETED" THEN Total ELSE current' - 1
      BY DEF MadeCount, Total, NumTeams
    <3>3. \A c, t \in Nat : c <= t => c - 1 # t
      OBVIOUS
    <3>4. current' - 1 # Total
      BY <3>1, <3>3
    <3> QED
      BY <3>2, <3>4
  <2>2. Len(Board') = MadeCount'
    BY BoardNext DEF BoardRead
  <2> QED
    BY <2>1, <2>2 DEF Phase
<1>11. \A i \in 1..Len(Board) : Board[i].player # p
  BY <1>1, BoardType, MadePicks DEF Entry, BoardRead, MadeFirst
<1>12. e = [team |-> Promise!TeamForPick(order, Len(Board) + 1, NumTeams), player |-> p]
  BY <1>4, BoardType DEF BoardRead, Promise!TeamForPick, Promise!SlotForPick, Promise!RoundOf, Promise!RoundPick,
     TeamForPick, SlotForPick, RoundOf, RoundPick
<1>13. Promise!Size = Total
  BY DEF Promise!Size, Total
<1>14. Promise!Select(p)
  BY <1>9, <1>10, <1>11, <1>12, <1>13 DEF Promise!Select
<1> QED
  BY <1>14

\* ... and an undo takes the newest one away.
LEMMA UndoneBoard ==
    ASSUME TypeOK, BoardInv, TypeOK', BoardInv', UndoLastPick(DraftRow)
    PROVE  Promise!Undo
<1>1. PICK n \in PickNumbers :
         picks[n].player # None /\ picks' = [picks EXCEPT ![n] = EmptiedRow(picks[n])]
  BY DEF UndoLastPick, IsLastPick, Filled
<1>2. picks'[n].player = None /\ \A m \in PickNumbers \ {n} : picks'[m] = picks[m]
  BY <1>1 DEF EmptiedRow, TypeOK, PickRows
<1>3. /\ MadeCount \in 0..Total /\ MadeCount' \in 0..Total /\ Total \in Nat
      /\ \A m \in PickNumbers : m <= MadeCount' <=> (m <= MadeCount /\ m # n)
      /\ n <= MadeCount /\ n \in Nat /\ n >= 1
  BY <1>1, <1>2, MadePicks, BoardNext, TotalType DEF PickNumbers, MadeFirst, Total, NumTeams
<1>4. MadeCount \in PickNumbers /\ (MadeCount' # 0 => MadeCount' \in PickNumbers)
  BY <1>3 DEF PickNumbers
<1>5. n = MadeCount /\ MadeCount' = MadeCount - 1
  <2>1. MadeCount' < n
    BY <1>1, <1>3
  <2>2. n = MadeCount
    BY <1>3, <1>4, <2>1
  <2>3. CASE MadeCount = 1
    BY <1>3, <2>1, <2>2, <2>3
  <2>4. CASE MadeCount > 1
    <3>1. MadeCount - 1 \in PickNumbers
      BY <1>3, <2>4 DEF PickNumbers
    <3>2. MadeCount - 1 <= MadeCount'
      BY <1>3, <2>2, <3>1
    <3> QED
      BY <1>3, <2>1, <2>2, <3>2
  <2> QED
    BY <1>3, <2>2, <2>3, <2>4
<1>6. Board' = SubSeq(Board, 1, Len(Board) - 1)
  <2>1. /\ Board \in Seq(Entries) /\ Len(Board) = MadeCount
        /\ \A m \in 1..MadeCount : Board[m] = Entry(m)
    BY BoardType DEF BoardRead
  <2>2. /\ Board' \in Seq(Entries) /\ Len(Board') = MadeCount - 1
        /\ \A m \in 1..(MadeCount - 1) : Board'[m] = Entry(m)
    <3>1. Entries' = Entries
      BY DEF Entries
    <3>2. \A m \in 1..(MadeCount - 1) : Entry(m)' = Entry(m)
      BY <1>2, <1>3, <1>5, MadePicks DEF Entry, MadeFirst
    <3>3. /\ Board' \in Seq(Entries) /\ Len(Board') = MadeCount'
          /\ \A m \in 1..MadeCount' : Board'[m] = Entry(m)'
      BY <3>1, BoardNext DEF BoardRead
    <3> QED
      BY <1>5, <3>2, <3>3
  <2>3. \A m \in 1..(MadeCount - 1) : Board[m] \in Entries
    BY <1>3, <2>1, ElementOfSeq
  <2>4. /\ SubSeq(Board, 1, MadeCount - 1) \in Seq(Entries)
        /\ Len(SubSeq(Board, 1, MadeCount - 1)) = MadeCount - 1
        /\ \A m \in 1..(MadeCount - 1) : SubSeq(Board, 1, MadeCount - 1)[m] = Board[m]
    BY <1>3, <2>1, <2>3, SubSeqProperties
  <2> QED
    BY <1>3, <2>1, <2>2, <2>4, SeqEqual
<1>7. Len(Board) > 0
  BY <1>3, BoardType DEF BoardRead
<1>8. Phase' = "open" /\ order' = order
  BY DEF UndoLastPick, Flush, DraftRow, Phase
<1> QED
  BY <1>6, <1>7, <1>8 DEF Promise!Undo

\* The orders of both are the same: no team twice, so every team.
LEMMA OrderPromised == \A o \in Orders : o \in Promise!Orders
<1> SUFFICES ASSUME NEW o \in Orders PROVE o \in Promise!Orders
  OBVIOUS
<1>1. o \in [1..NumTeams -> Teams] /\ \A t \in Teams : \E i \in 1..NumTeams : o[i] = t
  BY OrderIsComplete DEF Orders
<1>2. {o[i] : i \in 1..NumTeams} = Teams
  BY <1>1
<1> QED
  BY <1>1, <1>2 DEF Promise!Orders

LEMMA PromiseStep ==
    ASSUME TypeOK, BoardInv, TypeOK', BoardInv', [Next]_serviceVars
    PROVE  [Promise!Next]_(Promise!promiseVars)
<1> DEFINE Kept == [Promise!Next]_(Promise!promiseVars)
<1>0. current \in PickNumbers /\ order' \in Promise!Orders /\ AbsentAreEmpty
  <2>1. order' \in Orders
    BY DEF TypeOK, Orders, NumTeams
  <2> QED
    BY <2>1, OrderPromised, BoardAbsent DEF TypeOK
<1>1. NothingSelected => Board' = Board
  BY SameBoard
<1>2. UNCHANGED picks => NothingSelected
  BY DEF NothingSelected, Keeps
<1>3. ASSUME NothingSelected, UNCHANGED <<order, status>> PROVE Kept
  BY <1>1, <1>3 DEF Promise!promiseVars, Phase
<1>4. ASSUME NEW n \in PickNumbers, NEW r, NEW p \in Players, NEW st \in MadeStates,
             MakePick(DraftRow, n, r, p, st)
      PROVE  Kept
  <2>1. OneSelected
    BY <1>0, <1>4, MakePickSelects
  <2>2. status = "ACTIVE" /\ status' \in {"ACTIVE", "COMPLETED"} /\ order' = order
    BY <1>4 DEF MakePick, OpenSeason, AdvanceClock, Flush, DraftRow
  <2>3. \E q \in Players : Promise!Select(q)
    BY <2>1, <2>2, SelectBoard
  <2> QED
    BY <2>3 DEF Promise!Next
<1>5. CASE AsyncEndpoint
  <2>1. CASE Start(LeagueRow) \/ Resume(LeagueRow)
    <3>1. NothingSelected
      BY <1>0, <2>1, EnsureKeeps DEF Start, Resume
    <3>2. Phase \in {"before", "held"} /\ Phase' = "open" /\ order' = order
      BY <2>1 DEF Start, Resume, Phase
    <3> QED
      BY <1>1, <3>1, <3>2 DEF Promise!Next, Promise!Open
  <2>2. ASSUME NEW p \in Players, AdminPick(DraftRow, p) PROVE Kept
    <3>1. MakePick(DraftRow, current, None, p, "REVEALED")
      BY <2>2 DEF AdminPick, DraftRow
    <3> QED
      BY <1>0, <1>4, <3>1 DEF MadeStates
  <2> QED
    BY <1>5, <2>1, <2>2 DEF AsyncEndpoint
<1>6. CASE ThreadEndpoint
  <2>1. ASSUME NEW o \in Orders, SetOrder(LeagueRow, o) PROVE Kept
    <3>1. Phase = "before" /\ Phase' = Phase /\ Board' = Board
      BY <1>1, <1>2, <2>1 DEF SetOrder, Phase
    <3> QED
      BY <1>0, <3>1 DEF Promise!Next, Promise!Reorder
  <2>2. CASE Pause
    <3>1. Phase = "open" /\ Phase' = "held" /\ Board' = Board /\ order' = order
      BY <1>1, <1>2, <2>2 DEF Pause, Phase
    <3> QED
      BY <3>1 DEF Promise!Next, Promise!Hold
  <2>3. CASE UndoLastPick(DraftRow)
    BY <2>3, UndoneBoard DEF Promise!Next
  <2>4. CASE LockLeague(LeagueRow)
    <3>1. Board' = Board /\ order' = order
      BY <1>1, <1>2, <2>4 DEF LockLeague
    <3>2. CASE status = "ACTIVE"
      <4>1. Phase = "open" /\ Phase' = "held"
        BY <2>4, <3>2 DEF LockLeague, PausedByLock, Phase
      <4> QED
        BY <3>1, <4>1 DEF Promise!Next, Promise!Hold
    <3>3. CASE status # "ACTIVE"
      <4>1. UNCHANGED status
        BY <2>4, <3>3 DEF LockLeague, PausedByLock
      <4> QED
        BY <3>1, <4>1 DEF Promise!promiseVars, Phase
    <3> QED
      BY <3>2, <3>3
  <2>5. CASE UnlockLeague(LeagueRow)
    BY <1>2, <1>3, <2>5 DEF UnlockLeague
  <2> QED
    BY <1>6, <2>1, <2>2, <2>3, <2>4, <2>5 DEF ThreadEndpoint
<1>7. ASSUME NEW r \in Runners, RunnerStep(r) PROVE Kept
  <2>1. CASE ClaimLease(r) \/ Heartbeat(r) \/ ReleaseLease(r)
    BY <1>2, <1>3, <2>1 DEF ClaimLease, Heartbeat, ReleaseLease
  <2>2. CASE MarkFailed(r)
    <3>1. NothingSelected
      BY <1>0, <2>2, OpenKeeps DEF MarkFailed, OpenStates
    <3>2. Phase = "open" /\ Phase' = "held" /\ order' = order
      BY <2>2 DEF MarkFailed, Phase
    <3> QED
      BY <1>1, <3>1, <3>2 DEF Promise!Next, Promise!Hold
  <2>3. ASSUME NEW n \in PickNumbers, NEW p \in Players, RunnerPick(r, n, p) PROVE Kept
    BY <1>4, <2>3 DEF RunnerPick, MadeStates
  <2> QED
    BY <1>7, <2>1, <2>2, <2>3 DEF RunnerStep
<1>8. CASE MarkThinking
  <2>1. NothingSelected
    BY <1>0, <1>8, OpenKeeps, TurnRow DEF MarkThinking, OpenStates
  <2> QED
    BY <1>3, <1>8, <2>1 DEF MarkThinking
<1>9. ASSUME NEW due \in SUBSET Pending, RevealDue(due) PROVE Kept
  <2>1. NothingSelected
    BY <1>9 DEF RevealDue, NothingSelected, Keeps, TypeOK, PickRows
  <2> QED
    BY <1>3, <1>9, <2>1 DEF RevealDue
<1>10. CASE LeaseExpires \/ RosterMove \/ UNCHANGED serviceVars
  BY <1>2, <1>3, <1>10, RosterFrame DEF LeaseExpires, serviceVars
<1> QED
  BY <1>5, <1>6, <1>7, <1>8, <1>9, <1>10 DEF Next

LEMMA PromiseInit == Init => Promise!Init
<1> SUFFICES ASSUME Init PROVE Promise!Init
  OBVIOUS
<1>1. MadeCount = 0 /\ Phase = "before"
  BY DEF Init, MadeCount, Phase
<1>2. Board \in [1..0 -> Entries]
  BY <1>1 DEF Board
<1>3. Board \in Seq(Entries) /\ Len(Board) = 0
  <2>1. Board \in Seq(Entries)
    BY <1>2, SeqDef
  <2> QED
    BY <1>2, <2>1, LenProperties
<1>4. Board = <<>>
  BY <1>3, EmptySeq
<1> QED
  BY <1>1, <1>4, OrderPromised DEF Init, Promise!Init

\* Whatever happens behind it, what a spectator sees of the draft is the draft that
\* DraftPromise describes: a board that grows by one selection of the team on the
\* clock, shrinks only by its newest, and is complete exactly when it is full.
THEOREM PromiseKept == ServiceSpec => KeepsPromise
BY PromiseInit, PromiseStep, TypeCorrect, BoardCorrect, PTL
   DEF ServiceSpec, KeepsPromise, Promise!Spec
=============================================================================
