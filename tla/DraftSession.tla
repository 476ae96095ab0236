---------------------------- MODULE DraftSession ----------------------------
(***************************************************************************)
(* DraftService as the endpoints really call it: a request first loads a   *)
(* row to find its league or draft, then calls the service, which takes    *)
(* the row lock.  A row that the session already holds is not read again   *)
(* by the locking SELECT, so the service checks and computes from the row  *)
(* as it was loaded, while other transactions may have committed.          *)
(*                                                                         *)
(* The application is one process.  async endpoints and the draft runner   *)
(* share its event loop, so one of them runs at a time; the other          *)
(* endpoints run on threads.                                               *)
(***************************************************************************)
EXTENDS DraftService

CONSTANT Requests   \* concurrent requests

VARIABLES
    request,   \* what each request does, with the row its session holds
    revealing, \* the pick rows reveal_due has loaded and not yet written
    thinking   \* the row mark_thinking was called for and has not yet written

loopVars == <<revealing, thinking>>
sessionVars == <<serviceVars, request, loopVars>>

\* The rows the endpoints of api/draft_api.py and set_league_lock hold when
\* they call the service.  _draft keeps only the draft row alive; the league
\* row it found the draft by is loaded afresh.
AsyncOps == {"start", "resume", "admin_pick"}
ThreadOps == {"set_order", "undo", "lock", "unlock"}
Idle == [op |-> "none"]
Loaded(op) ==
    IF op \in {"admin_pick", "undo"} THEN [op |-> op, draft |-> DraftRow]
                                     ELSE [op |-> op, league |-> LeagueRow]

LoopFree == revealing = {} /\ thinking = {} /\ \A c \in Requests : request[c].op \notin AsyncOps

SessionInit ==
    /\ Init
    /\ request = [c \in Requests |-> Idle]
    /\ revealing = {} /\ thinking = {}

\* The endpoint looks its league or draft up.
Load(c, op) ==
    /\ request[c] = Idle
    /\ op \in AsyncOps => LoopFree
    /\ request' = [request EXCEPT ![c] = Loaded(op)]
    /\ UNCHANGED <<serviceVars, loopVars>>

\* The service call and its commit.
Serve(q) ==
    \/ q.op = "start" /\ Start(q.league)
    \/ q.op = "resume" /\ Resume(q.league)
    \/ q.op = "admin_pick" /\ \E p \in Players : AdminPick(q.draft, p)
    \/ q.op = "set_order" /\ \E o \in Orders : SetOrder(q.league, o)
    \/ q.op = "undo" /\ UndoLastPick(q.draft)
    \/ q.op = "lock" /\ LockLeague(q.league)
    \/ q.op = "unlock" /\ UnlockLeague(q.league)
Finish(c) ==
    /\ Serve(request[c])
    /\ request' = [request EXCEPT ![c] = Idle]
    /\ UNCHANGED loopVars

\* The service refuses the request, or it fails: it is rolled back.
Rollback(c) ==
    /\ request[c] # Idle
    /\ request' = [request EXCEPT ![c] = Idle]
    /\ UNCHANGED <<serviceVars, loopVars>>

\* The pause endpoint holds a league row that pause never looks at.
PauseRequest == Pause /\ UNCHANGED <<request, loopVars>>

\* The runner's selections, failures and lease steps load their rows under the
\* lock ...
RunnerTransaction ==
    /\ LoopFree
    /\ \E r \in Runners : RunnerStep(r)
    /\ UNCHANGED <<request, loopVars>>

\* ... but reveal_due lists the pending picks first, and reveal_pick then
\* checks and writes the listed rows.
RevealLoad ==
    /\ LoopFree
    /\ revealing' \in (SUBSET Pending) \ {{}}
    /\ UNCHANGED <<serviceVars, request, thinking>>
RevealWrite ==
    /\ revealing # {}
    /\ picks' = [n \in PickNumbers |->
                   IF n \in revealing THEN [picks[n] EXCEPT !.state = "REVEALED"] ELSE picks[n]]
    /\ revealing' = {}
    /\ UNCHANGED <<leagueVars, status, current, order, leaseVars, roster, request, thinking>>

\* ... and _decide_and_pick reads the turn, adding its row when it is missing,
\* before mark_thinking locks the draft row it holds by then.
ThinkLoad ==
    /\ LoopFree
    /\ status = "ACTIVE" /\ TurnExists(current)
    /\ RowOf(current).state \in {"WAITING_FOR_MANAGER", "FAILED"}
    /\ picks' = EnsureRow(picks, current)
    /\ thinking' = {current}
    /\ UNCHANGED <<leagueVars, status, current, order, leaseVars, roster, request, revealing>>
ThinkWrite ==
    /\ \E n \in thinking : picks' = [picks EXCEPT ![n].state = "THINKING"]
    /\ thinking' = {}
    /\ UNCHANGED <<leagueVars, status, current, order, leaseVars, roster, request, revealing>>

SessionNext ==
    \/ \E c \in Requests : \/ \E op \in AsyncOps \cup ThreadOps : Load(c, op)
                           \/ Finish(c)
                           \/ Rollback(c)
    \/ PauseRequest
    \/ RunnerTransaction
    \/ RevealLoad
    \/ RevealWrite
    \/ ThinkLoad
    \/ ThinkWrite

SessionSpec == SessionInit /\ [][SessionNext]_sessionVars
-----------------------------------------------------------------------------
(* Property, beside those of DraftService.                                 *)

\* A player's drafted roster row and the pick that selected the player stay
\* together, and no player is drafted twice, even when requests work on rows
\* that others have changed since: these checks read rows under the lock.
SelectionsSurviveRaces == TypeOK /\ NoDoubleSelection /\ DraftedRosterMatchesBoard
=============================================================================
