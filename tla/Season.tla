------------------------------- MODULE Season -------------------------------
(***************************************************************************)
(* The season of a league: weeks, matchups, records, playoffs.  The        *)
(* scheduler's stats job completes a week and advances the league; the     *)
(* commissioner may do the same by hand, lock the league, and even take    *)
(* back the draft.  Each action is one committed transaction; the job has  *)
(* two, with calls to the data providers between them.  Scores of matchups *)
(* in progress decide nothing and are left out: a matchup has a score and  *)
(* a result once it is complete.                                           *)
(***************************************************************************)
EXTENDS Schedule, Scoring, Functions

CONSTANTS
    Order,         \* the teams by draft_position
    RegularWeeks,  \* regular_season_weeks
    PlayoffWeeks,  \* playoff_weeks
    LastWeek,      \* the last NFL week, 18
    Scores,        \* final scores a matchup may have, by matchup_number
    MaxJobs,       \* attempts of the stats job that may overlap
    MaxMoves       \* bound on the commissioner's moves

Teams == {Order[i] : i \in DOMAIN Order}
Weeks == 1..LastWeek

ASSUME SeasonAssumption ==
    /\ Order \in Seq(Teams) /\ Cardinality(Teams) = Len(Order)
    /\ Len(Order) >= 4 /\ Len(Order) % 2 = 0
    /\ RegularWeeks \in Nat \ {0} /\ LastWeek \in Nat
    /\ PlayoffWeeks \in Seq(Nat) /\ Len(PlayoffWeeks) = 2
    /\ RegularWeeks < PlayoffWeeks[1] /\ PlayoffWeeks[1] < PlayoffWeeks[2]
    /\ PlayoffWeeks[2] <= LastWeek
    /\ Scores \in Seq(SUBSET [home : Nat, away : Nat])
    /\ None \notin Teams

VARIABLES
    status,    \* league.status
    locked,    \* league.locked
    week,      \* league.current_week
    champion,  \* champion_team_id of the league's settings
    draft,     \* draft.status
    weeks,     \* fantasy_weeks.status by week, ABSENT without a row
    matchups,  \* the matchups rows by <<week, matchup_number>>
    scores,    \* home_score and away_score of complete matchups, by the same
    record,    \* wins, losses, ties and points_for of each team
    periods,   \* weeks that have a waiver period
    final,     \* final NFL scores of a week's matchups, None while games go on
    jobs,      \* what the stats jobs now waiting for a provider have read
    moves      \* commissioner's moves so far

league == <<status, locked, week, champion>>
rows == <<weeks, matchups, scores, record, periods>>
vars == <<league, draft, rows, final, jobs, moves>>

WeekStates == {"ABSENT", "SCHEDULED", "ACTIVE", "COMPLETE"}
Reads == [week : Weeks, ended : BOOLEAN]
Records == [wins : Nat, losses : Nat, ties : Nat, points : Nat]
-----------------------------------------------------------------------------
(* Matchups and their results.                                             *)

Scheduled(home, away) == [home |-> home, away |-> away, done |-> FALSE, winner |-> None]

IdsOf(w) == {id \in DOMAIN matchups : id[1] = w}

AllAgain(w) == IdsOf(w)  \* mutant of Open: complete matchups are not skipped
Open(w) == {id \in IdsOf(w) : ~matchups[id].done}

\* What the games of week w may bring its matchups.
Outcomes(w) ==
    {score \in [IdsOf(w) -> UNION Range(Scores)] : \A id \in IdsOf(w) : score[id] \in Scores[id[2]]}

\* complete_matchup refuses a matchup without its two teams.
Playable(w) == \A id \in Open(w) : None \notin {matchups[id].home, matchups[id].away}

WinnerBy(m, s) ==
    CASE s.home > s.away -> m.home
      [] s.away > s.home -> m.away
      [] OTHER -> None

\* complete_matchup for every matchup of week w, with scores by matchup: the
\* results, the records they add to, and the week's row.
Settled(w, score) ==
    [id \in DOMAIN matchups |->
        IF id \in Open(w)
        THEN [matchups[id] EXCEPT !.done = TRUE, !.winner = WinnerBy(matchups[id], score[id])]
        ELSE matchups[id]]

Shown(w, score) ==
    scores' = [id \in DOMAIN scores |-> IF id \in Open(w) THEN score[id] ELSE scores[id]]

Credited(w, score) ==
    LET played(t) == {id \in Open(w) : t \in {matchups[id].home, matchups[id].away}}
        winner(id) == WinnerBy(matchups[id], score[id])
        points(t) == [id \in played(t) |-> IF matchups[id].home = t THEN score[id].home
                                                                  ELSE score[id].away]
    IN  [t \in Teams |->
            [wins |-> record[t].wins + Cardinality({id \in played(t) : winner(id) = t}),
             losses |-> record[t].losses
                          + Cardinality({id \in played(t) : winner(id) \notin {t, None}}),
             ties |-> record[t].ties + Cardinality({id \in played(t) : winner(id) = None}),
             points |-> record[t].points + SumFunction(points(t))]]

Closed(w) ==
    IF Open(w) = {} \/ weeks[w] = "ABSENT" THEN weeks ELSE [weeks EXCEPT ![w] = "COMPLETE"]
-----------------------------------------------------------------------------
(* standings: percentage, points, head to head, name.  Head to head need   *)
(* not be transitive; the sort then returns some order of which only the   *)
(* neighbours are sure to be in order.                                     *)
Games(r) == r.wins + r.losses + r.ties

\* 2 * games * percentage, compared without division.
Better(r, q) == (2 * r.wins + r.ties) * Games(q) > (2 * q.wins + q.ties) * Games(r)

\* percentage is zero without a game, which no cross product shows.
BetterPercentage(r, q) ==
    IF Games(q) = 0 THEN 2 * r.wins + r.ties > 0 ELSE Games(r) > 0 /\ Better(r, q)

Beaten(ms, t, u) ==
    Cardinality({id \in DOMAIN ms : /\ ms[id].done /\ ms[id].winner = t
                                    /\ {ms[id].home, ms[id].away} = {t, u}})

Named(t, u) == \E i, j \in DOMAIN Order : i < j /\ Order[i] = t /\ Order[j] = u

\* Mutant of Ahead: the percentage is not asked.
AheadByPoints(ms, rec, t, u) ==
    rec[t].points > rec[u].points \/ (rec[t].points = rec[u].points /\ Named(t, u))

Ahead(ms, rec, t, u) ==
    \/ BetterPercentage(rec[t], rec[u])
    \/ /\ ~BetterPercentage(rec[u], rec[t])
       /\ \/ rec[t].points > rec[u].points
          \/ /\ rec[t].points = rec[u].points
             /\ \/ Beaten(ms, t, u) > Beaten(ms, u, t)
                \/ Beaten(ms, t, u) = Beaten(ms, u, t) /\ Named(t, u)

Tables(ms, rec) ==
    {table \in [DOMAIN Order -> Teams] :
        /\ {table[i] : i \in DOMAIN table} = Teams
        /\ \A i \in 1..Len(Order) - 1 : Ahead(ms, rec, table[i], table[i + 1])}
-----------------------------------------------------------------------------
(* Playoffs, services/playoffs.py: four teams, two weeks.                  *)
Semis == {<<PlayoffWeeks[1], 1>>, <<PlayoffWeeks[1], 2>>}
Championship == <<PlayoffWeeks[2], 1>>

Bracket(table) ==
    [id \in Semis \cup {Championship} |->
        CASE id = <<PlayoffWeeks[1], 1>> -> Scheduled(table[1], table[4])
          [] id = <<PlayoffWeeks[1], 2>> -> Scheduled(table[2], table[3])
          [] id = Championship -> Scheduled(None, None)]

AlreadySeeded(ms) == \E id \in DOMAIN ms : id[1] \in {PlayoffWeeks[1], PlayoffWeeks[2]}

\* seed_playoffs, on the matchups ms, records rec and weeks ws of the transaction.
SeedPlayoffs(ms, rec, ws) ==
    \/ /\ AlreadySeeded(ms)
       /\ matchups' = ms /\ weeks' = ws
       /\ UNCHANGED <<status, week, champion>>
    \/ /\ ~AlreadySeeded(ms)
       /\ \E table \in Tables(ms, rec) :
             matchups' = [id \in DOMAIN ms \cup DOMAIN Bracket(table) |->
                             IF id \in DOMAIN ms THEN ms[id] ELSE Bracket(table)[id]]
       /\ weeks' = [w \in Weeks |->
                      IF ws[w] = "ABSENT" /\ w \in {PlayoffWeeks[1], PlayoffWeeks[2]}
                      THEN "SCHEDULED" ELSE ws[w]]
       /\ status' = "PLAYOFFS"
       /\ week' = PlayoffWeeks[1]
       /\ UNCHANGED champion

SemisDecided(ms) == \A id \in Semis : ms[id].done /\ ms[id].winner # None

\* advance_playoffs; a tie refuses the whole transaction.
AdvancePlayoffs(ms, ws) ==
    /\ Semis \cup {Championship} \subseteq DOMAIN ms
    /\ weeks' = ws
    /\ \/ /\ ms[Championship].done
          /\ ms[Championship].winner # None
          /\ champion' = ms[Championship].winner
          /\ status' = "COMPLETE"
          /\ matchups' = ms
          /\ UNCHANGED week
       \/ /\ ~ms[Championship].done
          /\ SemisDecided(ms)
          /\ matchups' = [ms EXCEPT ![Championship].home = ms[<<PlayoffWeeks[1], 1>>].winner,
                                    ![Championship].away = ms[<<PlayoffWeeks[1], 2>>].winner]
          /\ week' = PlayoffWeeks[2]
          /\ UNCHANGED <<status, champion>>
-----------------------------------------------------------------------------
\* The state of initialize_league, before the draft's last selection.
Init ==
    /\ status = "DRAFTING" /\ locked = FALSE /\ week = 0 /\ champion = None
    /\ draft = "ACTIVE"
    /\ weeks = [w \in Weeks |-> IF w <= RegularWeeks THEN "SCHEDULED" ELSE "ABSENT"]
    /\ matchups = [id \in (1..RegularWeeks) \X (1..Len(Order) \div 2) |->
                     LET pair == WeekPairs(Order, id[1])[id[2]]
                     IN  Scheduled(pair.home, pair.away)]
    /\ scores = [id \in Weeks \X (1..Len(Order)) |-> None]
    /\ record = [t \in Teams |-> [wins |-> 0, losses |-> 0, ties |-> 0, points |-> 0]]
    /\ periods = {}
    /\ final = [w \in Weeks |-> None]
    /\ jobs = {}
    /\ moves = 0

(* The draft, as far as the season hangs on it.                            *)

\* make_pick with the last selection.
CompleteDraft ==
    /\ ~locked
    /\ draft = "ACTIVE"
    /\ draft' = "COMPLETED"
    /\ status' = "REGULAR_SEASON"
    /\ week' = 1
    /\ weeks' = [weeks EXCEPT ![1] = "ACTIVE"]
    /\ periods' = periods \cup {1}
    /\ UNCHANGED <<locked, champion, matchups, scores, record, final, jobs, moves>>

ResumeDraft ==
    /\ ~locked
    /\ draft = "PAUSED"
    /\ draft' = "ACTIVE"
    /\ UNCHANGED <<league, rows, final, jobs, moves>>

\* undo_last_pick asks nothing about the season.
UndoLastPick ==
    /\ ~locked
    /\ draft' = "ACTIVE"
    /\ status' = "DRAFTING"
    /\ UNCHANGED <<locked, week, champion, rows, final, jobs>>
-----------------------------------------------------------------------------
(* The scheduler.                                                          *)

\* What the tick itself does for a league in season: a waiver period for its week.
InSeason == ~locked /\ week > 0 /\ status \in {"REGULAR_SEASON", "PLAYOFFS"}
Tick ==
    /\ InSeason
    /\ periods' = periods \cup {week}
    /\ UNCHANGED <<league, draft, weeks, matchups, scores, record, final, jobs, moves>>

\* _sync_stats_and_score up to its calls to the providers.  The tick claims the
\* job for a league in season; a job claimed before, or taken back after it
\* failed, asks only for the week and the lock.
BeginStats ==
    /\ ~locked /\ week > 0
    /\ jobs' = jobs \cup {[week |-> week, ended |-> final[week] # None]}
    /\ Cardinality(jobs') <= MaxJobs
    /\ UNCHANGED <<league, draft, rows, final, moves>>

\* It ends without completing its week: the providers fail or have no final
\* statistics, the week is over by now, a tie refuses to advance, or the process
\* stops.  At most live scores are written.
EndStats(r) ==
    /\ jobs' = jobs \ {r}
    /\ UNCHANGED <<league, draft, rows, final, moves>>

\* _advance_after_week
BeforeEndOrAtIt(w) == w <= RegularWeeks  \* mutant
BeforeEnd(w) == w < RegularWeeks
AdvanceAfterWeek(w, ms, rec, ws) ==
    \/ /\ BeforeEnd(w)
       /\ week' = w + 1
       /\ weeks' = IF ws[w + 1] = "ABSENT" THEN ws ELSE [ws EXCEPT ![w + 1] = "ACTIVE"]
       /\ periods' = periods \cup {w + 1}
       /\ matchups' = ms
       /\ UNCHANGED <<status, champion>>
    \/ /\ ~BeforeEnd(w) /\ w = RegularWeeks
       /\ SeedPlayoffs(ms, rec, ws)
       /\ periods' = periods \cup {PlayoffWeeks[1]}
    \/ /\ w = PlayoffWeeks[1]
       /\ AdvancePlayoffs(ms, ws)
       /\ periods' = periods \cup {PlayoffWeeks[2]}
    \/ /\ w = PlayoffWeeks[2]
       /\ AdvancePlayoffs(ms, ws)
       /\ UNCHANGED periods

\* What the job asks again once it holds the league's row.
StillUnlocked(w) == ~locked  \* mutant: the week is not compared
StillCurrent(w) == ~locked /\ week = w

\* The providers answer with final statistics: the week is completed and the
\* league advances, in one transaction.  Another job that read the same may
\* still be waiting.
FinalStats(r) ==
    /\ r.ended
    /\ StillCurrent(r.week)
    /\ \E id \in IdsOf(r.week) : ~matchups[id].done
    /\ Playable(r.week)
    /\ Shown(r.week, final[r.week])
    /\ record' = Credited(r.week, final[r.week])
    /\ AdvanceAfterWeek(r.week, Settled(r.week, final[r.week]), record', Closed(r.week))
    /\ jobs' \in {jobs, jobs \ {r}}
    /\ UNCHANGED <<locked, draft, final, moves>>

\* The NFL games of the current week end.
GamesEnd ==
    /\ week > 0 /\ final[week] = None /\ Open(week) # {}
    /\ \E score \in Outcomes(week) : final' = [final EXCEPT ![week] = score]
    /\ UNCHANGED <<league, draft, rows, jobs, moves>>
-----------------------------------------------------------------------------
(* The commissioner's endpoints of api/mutations.py.                       *)

\* calculate_week with complete: on final scores, or on what there is so far.
CalculateWeek(w) ==
    /\ ~locked
    /\ Playable(w)
    /\ \E score \in IF final[w] # None THEN {final[w]} ELSE Outcomes(w) :
          /\ matchups' = Settled(w, score)
          /\ Shown(w, score)
          /\ record' = Credited(w, score)
    /\ weeks' = Closed(w)
    /\ UNCHANGED <<league, draft, periods, final, jobs>>

\* calculate_week without complete: calculate_matchup writes the scores anew, those of
\* complete matchups too, from the statistics, lineups and rosters of the moment.
RecalculateWeek(w) ==
    /\ ~locked
    /\ \E score \in Outcomes(w) :
          scores' = [id \in DOMAIN scores |->
                        IF id \in IdsOf(w) \ Open(w) THEN score[id] ELSE scores[id]]
    /\ UNCHANGED <<league, draft, weeks, matchups, record, periods, final, jobs>>

AdvanceWeek(w) ==
    /\ ~locked
    /\ week <= w /\ w <= LastWeek
    /\ week' = w
    /\ weeks' = [weeks EXCEPT ![w] = "ACTIVE"]
    /\ status' = IF w \in {PlayoffWeeks[1], PlayoffWeeks[2]} THEN "PLAYOFFS" ELSE status
    /\ UNCHANGED <<locked, champion, draft, matchups, scores, record, periods, final, jobs>>

CreatePlayoffs ==
    /\ ~locked
    /\ SeedPlayoffs(matchups, record, weeks)
    /\ UNCHANGED <<locked, draft, scores, record, periods, final, jobs>>

AdvanceBracket ==
    /\ ~locked
    /\ AdvancePlayoffs(matchups, weeks)
    /\ UNCHANGED <<locked, draft, scores, record, periods, final, jobs>>

\* set_league_lock
LockLeague ==
    /\ locked' = TRUE
    /\ status' = "LOCKED"
    /\ draft' = IF draft = "ACTIVE" THEN "PAUSED" ELSE draft
    /\ UNCHANGED <<week, champion, rows, final, jobs, moves>>

StatusOnUnlock ==
    CASE champion # None -> "COMPLETE"
      [] champion = None /\ week \in {PlayoffWeeks[1], PlayoffWeeks[2]} -> "PLAYOFFS"
      [] champion = None /\ week \notin {PlayoffWeeks[1], PlayoffWeeks[2]} ->
            IF draft = "COMPLETED" THEN "REGULAR_SEASON" ELSE "DRAFTING"

UnlockLeague ==
    /\ locked' = FALSE
    /\ status' = StatusOnUnlock
    /\ UNCHANGED <<week, champion, draft, rows, final, jobs, moves>>

Move ==
    /\ moves < MaxMoves
    /\ moves' = moves + 1
    /\ \/ \E w \in Weeks : CalculateWeek(w) \/ RecalculateWeek(w)
       \/ \E w \in 1..LastWeek + 1 : AdvanceWeek(w)
       \/ CreatePlayoffs
       \/ AdvanceBracket
       \/ UndoLastPick
-----------------------------------------------------------------------------
StatsStep == BeginStats \/ \E r \in jobs : EndStats(r) \/ FinalStats(r)

Next ==
    \/ CompleteDraft \/ ResumeDraft
    \/ Tick
    \/ StatsStep
    \/ GamesEnd
    \/ Move
    \/ LockLeague \/ UnlockLeague

Spec == Init /\ [][Next]_vars

\* Games end and a draft that is active is finished.  A stats job comes back within
\* minutes, so once the final statistics of a week are published some job gets them.
\* Nothing makes the commissioner act, not even to resume a draft that a lock paused.
Fairness ==
    /\ WF_vars(CompleteDraft)
    /\ WF_vars(GamesEnd)
    /\ SF_vars(InSeason /\ BeginStats)
    /\ WF_vars(\E r \in jobs : EndStats(r))
    /\ SF_vars(\E r \in jobs : FinalStats(r))

FairSpec == Spec /\ Fairness
-----------------------------------------------------------------------------
(* Properties.                                                             *)

\* Every column keeps to its values and the week stays within the NFL season.
TypeOK ==
    /\ status \in {"DRAFTING", "REGULAR_SEASON", "PLAYOFFS", "COMPLETE", "LOCKED"}
    /\ locked \in BOOLEAN
    /\ week \in 0..LastWeek
    /\ champion \in Teams \cup {None}
    /\ draft \in {"ACTIVE", "PAUSED", "COMPLETED"}
    /\ weeks \in [Weeks -> WeekStates]
    /\ \A id \in DOMAIN matchups :
          /\ id \in Weeks \X (1..Len(Order))
          /\ matchups[id] \in [home : Teams \cup {None}, away : Teams \cup {None},
                               done : BOOLEAN, winner : Teams \cup {None}]
    /\ record \in [Teams -> Records]
    /\ periods \subseteq Weeks
    /\ jobs \subseteq Reads

\* A team's record is what its completed matchups say, each counted once, whoever
\* completed them and however often: overlapping jobs, retries after a rollback,
\* the commissioner, a draft that was taken back.
RecordsMatchResults ==
    \A t \in Teams :
        LET played == {id \in DOMAIN matchups :
                         matchups[id].done /\ t \in {matchups[id].home, matchups[id].away}}
        IN  /\ record[t].wins = Cardinality({id \in played : matchups[id].winner = t})
            /\ record[t].losses = Cardinality({id \in played : matchups[id].winner \notin {t, None}})
            /\ record[t].ties = Cardinality({id \in played : matchups[id].winner = None})

\* The title game is played by the winners of the two semifinals or has no teams
\* yet, never one of them; and the champion is who won it.
BracketFollowsResults ==
    /\ champion # None => matchups[Championship].done /\ matchups[Championship].winner = champion
    /\ Championship \in DOMAIN matchups =>
          LET game == matchups[Championship]
              winner(n) == matchups[<<PlayoffWeeks[1], n>>].winner
          IN  \/ game = Scheduled(None, None)
              \/ None \notin {winner(1), winner(2)} /\ game.home = winner(1) /\ game.away = winner(2)

\* The schedule a season begins with is fair, for any league of up to twelve teams.
FairSchedule == week = 0 => \A n \in {2, 4, 6, 8, 10, 12} : FairFor([i \in 1..n |-> i])

\* The buckets a season's defences are scored by leave no gap, do not overlap, and
\* never reward allowing more points.
FairScoring == week = 0 => FairBuckets(PointsAllowed, 80)

\* What the season's numbers are computed by is fair.
RulesAreFair == FairSchedule /\ FairScoring

\* The rows of a season tell one story: standings and bracket say what the completed
\* matchups say.
SeasonConsistent == TypeOK /\ RecordsMatchResults /\ BracketFollowsResults

\* A completed matchup keeps its teams and its winner for good.  When it is completed,
\* its scores are those that make the winner; from then on nothing but a move of the
\* commissioner changes them, and no record follows.
Finished(ms) == {id \in DOMAIN ms : ms[id].done}
SettledResultsStand ==
    [][/\ \A id \in Finished(matchups) :
             /\ id \in Finished(matchups') /\ matchups'[id] = matchups[id]
             /\ scores'[id] # scores[id] => moves' # moves /\ record' = record
       /\ \A id \in Finished(matchups') \ Finished(matchups) :
             matchups'[id].winner = WinnerBy(matchups'[id], scores'[id])]_vars

\* The week goes back only by the commissioner's hand or with the last selection
\* of a draft that was reopened, never by a job whose answer came late.
WeekGoesForward == [][week' < week => moves' # moves \/ draft' # draft]_vars

\* The seeds follow the records at the time of seeding: nobody with the better
\* percentage is seeded behind, and the first seed meets the fourth.
Seeds(ms) ==
    <<ms[<<PlayoffWeeks[1], 1>>].home, ms[<<PlayoffWeeks[1], 2>>].home,
      ms[<<PlayoffWeeks[1], 2>>].away, ms[<<PlayoffWeeks[1], 1>>].away>>
SeedsInOrder(seeds, rec) ==
    \A i, j \in 1..4 :
        i < j => seeds[i] # seeds[j] /\ ~BetterPercentage(rec[seeds[j]], rec[seeds[i]])
SeedsFollowRecords ==
    [][(Championship \in DOMAIN matchups' \ DOMAIN matchups) =>
          SeedsInOrder(Seeds(matchups'), record')]_vars

\* In an unlocked season without a champion the league's status is the one of its week,
\* so a lock and its release change nothing.  Only the commissioner parts them, by a move
\* that carries the week into the playoffs or out of them.
InPlayoffs == week \in {PlayoffWeeks[1], PlayoffWeeks[2]}
InPhase ==
    ~locked /\ champion = None /\ draft = "COMPLETED" => (status = "PLAYOFFS" <=> InPlayoffs)
PhaseFollowsWeek ==
    [][InPhase /\ ~InPhase' => moves' # moves /\ (InPlayoffs <=> ~InPlayoffs')]_vars

\* No step goes back on what was decided, nor parts the league's phase from its week.
ResultsStand == SettledResultsStand /\ WeekGoesForward /\ PhaseFollowsWeek

\* A season the commissioner leaves alone ends with a champion, unless a playoff
\* game is tied, which stops it for good, the draft stays paused by a lock that has long
\* been lifted, or the league is locked again and again.
Tied(w) == final[w] # None /\ \E id \in DOMAIN final[w] : final[w][id].home = final[w][id].away
SeasonEnds ==
    \/ <>(moves > 0 \/ status = "COMPLETE" \/ Tied(PlayoffWeeks[1]) \/ Tied(PlayoffWeeks[2]))
    \/ <>[](draft = "PAUSED")
    \/ []<>locked
=============================================================================
